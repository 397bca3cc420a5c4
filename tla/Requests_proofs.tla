--------------------------- MODULE Requests_proofs ---------------------------
(***************************************************************************)
(* Proofs about what requests do: DiskTools, AuditLog, SelfUpdate,         *)
(* ProxyRoutes, HwTasks and ServerRegistry, for any number of requests,    *)
(* devices, events, routes, tasks and servers.                             *)
(***************************************************************************)
EXTENDS AuditLog, RequestPromises, Settings_proofs, Access_proofs,
        FiniteSetTheorems, TLAPS

-----------------------------------------------------------------------------
(* Format and SMART tasks.  An action is proved to preserve an invariant in a *)
(* step of its own; NextCases lists the actions once.                         *)

\* What a step of the specification can be.
LEMMA NextCases ==
    ASSUME Next,
           NEW P,
           \A d \in Devices : UserFormat(d) => P,
           \A d \in Devices : UserSmart(d) => P,
           \A d \in Devices : Attach(d) \/ Detach(d) => P,
           \A w \in workers : WorkerValidates(w) \/ HelperStarts(w) => P,
           \A w \in workers : WorkerFails(w) => P,
           \A w \in workers : HelperEnds(w) => P,
           \A id \in 1..MaxOps : StopTask(id) => P,
           ClearHistory => P,
           \A c \in Callers, e \in BOOLEAN : BeginSync(c, e) => P,
           SwitchOff => P,
           \A c \in Callers : SyncListed(c) \/ SyncUnlisted(c) => P,
           \A c \in Callers : LockTables(c) \/ AbortSync(c) \/ ReadAutoFlag(c) \/ AutoDone(c) => P,
           \A c \in Callers, d \in Devices : AutoFormat(c, d) => P,
           \A c \in Callers : AutoSmart(c) => P,
           \A c \in Callers : LoopEscapes(c) => P,
           \A c \in Callers : FinishEnable(c) => P,
           Crash => P,
           Boot => P,
           Tick => P
    PROVE  P
<1>1. ASSUME NEW c \in Requests, ViewDisks(c) \/ SwitchOn(c) PROVE P
  BY <1>1 DEF ViewDisks, SwitchOn, Callers
<1>2. ASSUME AutoRound PROVE P
  BY <1>2 DEF AutoRound, Callers
<1>3. ASSUME NEW c \in Callers, SyncStep(c) PROVE P
  BY <1>3 DEF SyncStep
<1>4. ASSUME NEW w \in workers, WorkerStep(w) PROVE P
  BY <1>4 DEF WorkerStep
<1> QED
  BY <1>1, <1>2, <1>3, <1>4 DEF Next

-----------------------------------------------------------------------------
(* Type correctness *)

LEMMA IdleType == Idle \in Caller
BY DEF Idle, Caller

LEMMA NewRowType ==
    ASSUME TypeOK, NEW d \in Devices, NEW action \in Actions
    PROVE  NewRow(d, action) \in Row
BY DEF TypeOK, NewRow, NextId, Row, Statuses

LEMMA LogOpType ==
    ASSUME TypeOK, NEW d \in Devices, NEW action \in Actions, LogOp(d, action)
    PROVE  ops' \in SUBSET Row /\ nextOp' \in Nat \ {0}
BY NewRowType DEF TypeOK, LogOp

LEMMA StartWorkerType ==
    ASSUME TypeOK, NEW d \in Devices, StartWorker(d)
    PROVE  workers' \in SUBSET Worker
BY DEF TypeOK, StartWorker, Worker, NextId

LEMMA FinishType ==
    ASSUME NEW r \in Row, NEW status \in Statuses
    PROVE  Finish(r, status) \in Row
BY DEF Finish, Row

LEMMA ReportType ==
    ASSUME TypeOK, NEW w \in workers, NEW status \in Statuses, Report(w, status)
    PROVE  ops' \in SUBSET Row /\ workers' \in SUBSET Worker /\ unreported' \in SUBSET Nat
BY FinishType DEF TypeOK, Report, UpdateOp

LEMMA FailureType ==
    ASSUME TypeOK, NEW w \in workers, ReportsFailure(w)
    PROVE  ops' \in SUBSET Row /\ workers' \in SUBSET Worker /\ unreported' \in SUBSET Nat
<1>1. CASE Report(w, "FAIL")
  BY <1>1, ReportType DEF Statuses
<1>2. CASE ~Report(w, "FAIL")
  BY <1>2 DEF TypeOK, ReportsFailure, Worker
<1> QED
  BY <1>1, <1>2

LEMMA SetPhaseType ==
    ASSUME TypeOK, NEW w \in workers, NEW p \in {"queued", "validated", "writing", "failing"},
           SetPhase(w, p)
    PROVE  workers' \in SUBSET Worker
BY DEF TypeOK, SetPhase, Worker

LEMMA AfterSyncType ==
    ASSUME TypeOK, NEW c \in Callers
    PROVE  AfterSync(c) \in Caller
BY DEF AfterSync, Idle, Caller

LEMMA SightedType ==
    ASSUME TypeOK, NEW listed \in SUBSET Devices
    PROVE  Sighted(listed) \in [Devices -> Nat]
BY DEF TypeOK, Sighted

\* Every variable keeps its type: tables hold well-formed rows, whichever
\* handler or thread writes them.
THEOREM DiskTypeCorrect == Spec => []TypeOK
<1>1. Init => TypeOK
  <2> SUFFICES ASSUME Init PROVE TypeOK
    OBVIOUS
  <2>1. callers \in [Callers -> Caller]
    BY IdleType DEF Init
  <2>2. firstSeen \in [Devices -> Nat]
    BY DEF Init
  <2>3. ops \in SUBSET Row /\ workers \in SUBSET Worker
    BY DEF Init
  <2>4. /\ present \in SUBSET Devices /\ baseline \in SUBSET Devices /\ owed \in SUBSET Devices
        /\ unreported \in SUBSET Nat
    BY DEF Init
  <2>5. clock \in Nat \ {0} /\ nextOp \in Nat \ {0} /\ enabledAt \in Nat /\ formatted \in SUBSET Nat
    BY DEF Init
  <2>6. attached \in SUBSET Devices /\ up \in BOOLEAN /\ autoEnabled \in BOOLEAN
    BY DEF Init
  <2> QED
    BY <2>1, <2>2, <2>3, <2>4, <2>5, <2>6, Zenon DEF TypeOK
<1>2. ASSUME TypeOK, [Next]_vars PROVE TypeOK'
  <2> USE <1>2
  <2>1. ASSUME NEW d \in Devices, UserFormat(d) PROVE TypeOK'
    BY <2>1, LogOpType, StartWorkerType DEF UserFormat, TypeOK, ghosts, Actions
  <2>2. ASSUME NEW d \in Devices, UserSmart(d) PROVE TypeOK'
    BY <2>2, LogOpType DEF UserSmart, TypeOK, ghosts, Actions
  <2>3. ASSUME NEW d \in Devices, Attach(d) \/ Detach(d) PROVE TypeOK'
    BY <2>3 DEF Attach, Detach, TypeOK, tables
  <2>4. ASSUME NEW w \in workers, WorkerValidates(w) \/ HelperStarts(w) PROVE TypeOK'
    <3>1. ops' \in SUBSET Row /\ workers' \in SUBSET Worker /\ unreported' \in SUBSET Nat
      BY <2>4, FailureType, SetPhaseType DEF WorkerValidates, HelperStarts, TypeOK
    <3> QED
      BY <2>4, <3>1 DEF WorkerValidates, HelperStarts, TypeOK
  <2>5. ASSUME NEW w \in workers, HelperEnds(w) PROVE TypeOK'
    <3>1. ops' \in SUBSET Row /\ workers' \in SUBSET Worker /\ unreported' \in SUBSET Nat
      BY <2>5, ReportType, FailureType, SetPhaseType DEF HelperEnds, TypeOK, Statuses
    <3>2. formatted' \in SUBSET Nat
      BY <2>5 DEF HelperEnds, TypeOK, Worker
    <3> QED
      BY <2>5, <3>1, <3>2 DEF HelperEnds, TypeOK
  <2>fails. ASSUME NEW w \in workers, WorkerFails(w) PROVE TypeOK'
    BY <2>fails, FailureType DEF WorkerFails, TypeOK
  <2>6. ASSUME NEW id \in 1..MaxOps, StopTask(id) PROVE TypeOK'
    BY <2>6 DEF StopTask, TypeOK, ghosts, Row, Statuses
  <2>7. ASSUME ClearHistory PROVE TypeOK'
    BY <2>7, SMTT(30) DEF ClearHistory, TypeOK, ghosts
  <2>8. ASSUME NEW c \in Callers, NEW e \in BOOLEAN, BeginSync(c, e) PROVE TypeOK'
    BY <2>8 DEF BeginSync, TypeOK, tables, ghosts, Idle, Caller
  <2>9. ASSUME SwitchOff PROVE TypeOK'
    <3>1. baseline' \in SUBSET Devices /\ owed' \in SUBSET Devices /\ enabledAt' \in Nat
      BY <2>9 DEF SwitchOff
    <3>2. firstSeen' \in [Devices -> Nat] /\ callers' \in [Callers -> Caller]
      BY <2>9 DEF SwitchOff, TypeOK, tables
    <3> QED
      BY <2>9, <3>1, <3>2 DEF SwitchOff, TypeOK, tables
  <2>10. ASSUME NEW c \in Callers, SyncListed(c) \/ SyncUnlisted(c) PROVE TypeOK'
    <3>1. PICK listed \in SUBSET Devices : CommitSync(c, listed)
      BY <2>10 DEF SyncListed, SyncUnlisted, TypeOK
    <3>2. callers' \in [Callers -> Caller]
      <4> DEFINE found == NewDevices(Sighted(listed), callers[c].now)
      <4>1. found \in SUBSET Devices
        BY DEF NewDevices
      <4>2. callers' = [callers EXCEPT ![c] = [callers[c] EXCEPT !.pc = "committed", !.new = found]]
        BY <3>1 DEF CommitSync, TypeOK
      <4> HIDE DEF found
      <4>3. callers \in [Callers -> Caller]
        BY DEF TypeOK
      <4>4. [callers[c] EXCEPT !.pc = "committed", !.new = found] \in Caller
        BY <4>1, <4>3 DEF Caller
      <4> QED
        BY <4>2, <4>3, <4>4
    <3>3. firstSeen' \in [Devices -> Nat]
      BY <3>1, SightedType DEF CommitSync
    <3> QED
      BY <3>1, <3>2, <3>3 DEF CommitSync, TypeOK, ghosts
  <2>11. ASSUME NEW c \in Callers, LockTables(c) \/ AbortSync(c) \/ ReadAutoFlag(c) \/ AutoDone(c)
         PROVE TypeOK'
    <3>1. callers' \in [Callers -> Caller]
      BY <2>11, IdleType, AfterSyncType
      DEF LockTables, AbortSync, ReadAutoFlag, AutoDone, TypeOK, Caller
    <3> QED
      BY <2>11, <3>1 DEF LockTables, AbortSync, ReadAutoFlag, AutoDone, TypeOK, tables, ghosts
  <2>escapes. ASSUME NEW c \in Callers, LoopEscapes(c) PROVE TypeOK'
    <3>1. callers' \in [Callers -> Caller] /\ owed' \in SUBSET Devices
      BY <2>escapes, IdleType DEF LoopEscapes, TypeOK
    <3> QED
      BY <2>escapes, <3>1 DEF LoopEscapes, TypeOK, tables
  <2>12. ASSUME NEW c \in Callers, NEW d \in Devices, AutoFormat(c, d) PROVE TypeOK'
    <3>1. callers' \in [Callers -> Caller]
      BY <2>12 DEF AutoFormat, TypeOK, Caller
    <3>2. workers' \in SUBSET Worker /\ owed' \in SUBSET Devices
      BY <2>12, StartWorkerType DEF AutoFormat, TypeOK
    <3>3. ops' \in SUBSET Row /\ nextOp' \in Nat \ {0}
      BY <2>12, LogOpType DEF AutoFormat, Actions
    <3> QED
      BY <2>12, <3>1, <3>2, <3>3 DEF AutoFormat, TypeOK
  <2>13. ASSUME NEW c \in Callers, AutoSmart(c) PROVE TypeOK'
    <3>1. ops' \in SUBSET Row /\ nextOp' \in Nat \ {0}
      BY <2>13, LogOpType DEF AutoSmart, Actions, TypeOK, Caller
    <3>2. callers' \in [Callers -> Caller]
      BY <2>13 DEF AutoSmart, TypeOK, Caller
    <3> QED
      BY <2>13, <3>1, <3>2 DEF AutoSmart, TypeOK, ghosts
  <2>14. ASSUME NEW c \in Callers, FinishEnable(c) PROVE TypeOK'
    BY <2>14, IdleType DEF FinishEnable, TypeOK, tables
  <2>15. ASSUME Crash PROVE TypeOK'
    BY <2>15, IdleType DEF Crash, TypeOK, tables
  <2>16. ASSUME Boot PROVE TypeOK'
    BY <2>16, FinishType DEF Boot, Recovered, TypeOK, ghosts, Statuses
  <2>17. ASSUME Tick PROVE TypeOK'
    BY <2>17 DEF Tick, TypeOK, tables, ghosts
  <2>18. CASE UNCHANGED vars
    BY <2>18 DEF vars, tables, ghosts, TypeOK
  <2>19. CASE Next
    BY <2>19, <2>1, <2>2, <2>3, <2>4, <2>5, <2>6, <2>7, <2>8, <2>9, <2>10, <2>11, <2>12,
       <2>13, <2>14, <2>15, <2>16, <2>17, <2>fails, <2>escapes, NextCases
  <2> QED
    BY <2>18, <2>19
<1> QED
  BY <1>1, <1>2, PTL DEF Spec

-----------------------------------------------------------------------------
(* Task rows and format threads *)

\* Nothing runs in a process that is down.
DownIsQuiet == ~up => workers = {} /\ \A c \in Callers : callers[c] = Idle

IdsAreUsedUp ==
    /\ \A r \in ops : r.id < nextOp
    /\ \A w \in workers : w.op < nextOp

IdsAreKeys ==
    /\ \A r, s \in ops : r.id = s.id => r = s
    /\ \A v, w \in workers : v.op = w.op => v = w

\* A row with a result has no thread left to write it again.
ResultsHaveNoWorker ==
    \A r \in ops, w \in workers :
        r.status \in {"OK", "FAIL", "INTERRUPTED"} => w.op # r.id

\* The inductive strengthening of the properties of task rows.
TaskInv ==
    /\ IdsAreUsedUp
    /\ IdsAreKeys
    /\ ResultsHaveNoWorker
    /\ WorkersReportTheirOwnTask
    /\ RunningFormatHasWorker
    /\ OkMeansFormatted

LEMMA DownIsQuietAlways == Spec => []DownIsQuiet
<1>1. Init => DownIsQuiet
  BY DEF Init, DownIsQuiet
<1>2. ASSUME TypeOK, DownIsQuiet, [Next]_vars PROVE DownIsQuiet'
  <2>1. CASE UNCHANGED vars
    BY <1>2, <2>1 DEF vars, DownIsQuiet
  <2>2. CASE Next
    <3> USE <1>2 DEF DownIsQuiet, TypeOK
    <3>1. ASSUME NEW d \in Devices, UserFormat(d) \/ UserSmart(d) PROVE DownIsQuiet'
      BY <3>1 DEF UserFormat, UserSmart
    <3>2. ASSUME NEW d \in Devices, Attach(d) \/ Detach(d) PROVE DownIsQuiet'
      BY <3>2 DEF Attach, Detach
    <3>3. ASSUME NEW w \in workers, WorkerStep(w) PROVE DownIsQuiet'
      BY <3>3 DEF WorkerStep, WorkerValidates, HelperStarts, HelperEnds, WorkerFails
    <3>4. ASSUME NEW id \in 1..MaxOps, StopTask(id) PROVE DownIsQuiet'
      BY <3>4 DEF StopTask
    <3>5. ASSUME ClearHistory \/ SwitchOff \/ Tick PROVE DownIsQuiet'
      BY <3>5 DEF ClearHistory, SwitchOff, Tick
    <3>6. ASSUME NEW c \in Callers, NEW e \in BOOLEAN, BeginSync(c, e) PROVE DownIsQuiet'
      BY <3>6 DEF BeginSync
    <3>7. ASSUME NEW c \in Callers, callers[c].pc # "idle", UNCHANGED up PROVE DownIsQuiet'
      BY <3>7 DEF Idle
    <3>8. ASSUME Crash PROVE DownIsQuiet'
      BY <3>8 DEF Crash
    <3>9. ASSUME Boot PROVE DownIsQuiet'
      BY <3>9 DEF Boot
    <3> HIDE DEF DownIsQuiet, TypeOK
    <3>10. ASSUME NEW c \in Callers, SyncListed(c) \/ SyncUnlisted(c) PROVE DownIsQuiet'
      BY <3>10, <3>7 DEF SyncListed, SyncUnlisted, CommitSync
    <3>11. ASSUME NEW c \in Callers, LockTables(c) \/ AbortSync(c) \/ ReadAutoFlag(c) \/ AutoDone(c)
           PROVE DownIsQuiet'
      BY <3>11, <3>7 DEF LockTables, AbortSync, ReadAutoFlag, AutoDone
    <3>12. ASSUME NEW c \in Callers, NEW d \in Devices, AutoFormat(c, d) PROVE DownIsQuiet'
      BY <3>12, <3>7 DEF AutoFormat
    <3>13. ASSUME NEW c \in Callers, AutoSmart(c) \/ LoopEscapes(c) \/ FinishEnable(c) PROVE DownIsQuiet'
      BY <3>13, <3>7 DEF AutoSmart, LoopEscapes, FinishEnable
    <3> QED
      BY <2>2, <3>1, <3>2, <3>3, <3>4, <3>5, <3>6, <3>8, <3>9, <3>10, <3>11, <3>12, <3>13,
         NextCases DEF WorkerStep
  <2> QED
    BY <1>2, <2>1, <2>2
<1> QED
  BY <1>1, <1>2, DiskTypeCorrect, PTL DEF Spec

\* log_op() and the start of a thread for the id it returned.
LEMMA FormatLogged ==
    ASSUME TypeOK, TaskInv, NEW d \in Devices, LogOp(d, "FORMAT"), StartWorker(d),
           UNCHANGED <<up, formatted, unreported>>
    PROVE  TaskInv'
<1> DEFINE entry == NewRow(d, "FORMAT")
           thread == [op |-> nextOp, device |-> d, phase |-> "queued"]
<1>1. /\ ops' = ops \union {entry}
      /\ workers' = workers \union {thread}
      /\ nextOp' = nextOp + 1
      /\ nextOp \in Nat
      /\ \A r \in ops : r.id \in Nat /\ r.id < nextOp
      /\ \A w \in workers : w.op \in Nat /\ w.op < nextOp
  BY DEF LogOp, StartWorker, NextId, TypeOK, Row, Worker, TaskInv, IdsAreUsedUp
<1>2. /\ entry.id = nextOp /\ entry.device = d /\ entry.action = "FORMAT"
      /\ entry.status = "RUNNING"
      /\ thread.op = nextOp /\ thread.device = d
  BY DEF NewRow, NextId
<1> HIDE DEF entry, thread
<1>3. IdsAreUsedUp' /\ IdsAreKeys'
  BY <1>1, <1>2 DEF TaskInv, IdsAreUsedUp, IdsAreKeys
<1>4. ResultsHaveNoWorker' /\ WorkersReportTheirOwnTask'
  BY <1>1, <1>2 DEF TaskInv, ResultsHaveNoWorker, WorkersReportTheirOwnTask
<1>5. RunningFormatHasWorker'
  BY <1>1, <1>2 DEF TaskInv, RunningFormatHasWorker
<1>6. OkMeansFormatted'
  BY <1>1, <1>2 DEF TaskInv, OkMeansFormatted
<1> QED
  BY <1>3, <1>4, <1>5, <1>6 DEF TaskInv

\* log_op() of a task without a thread.
LEMMA OtherLogged ==
    ASSUME TypeOK, TaskInv, NEW d \in Devices, NEW action \in Actions \ {"FORMAT"},
           LogOp(d, action), UNCHANGED <<up, workers, formatted, unreported>>
    PROVE  TaskInv'
<1> DEFINE entry == NewRow(d, action)
<1>1. /\ ops' = ops \union {entry}
      /\ nextOp' = nextOp + 1
      /\ nextOp \in Nat
      /\ \A r \in ops : r.id \in Nat /\ r.id < nextOp
      /\ \A w \in workers : w.op \in Nat /\ w.op < nextOp
  BY DEF LogOp, TypeOK, Row, Worker, TaskInv, IdsAreUsedUp
<1>2. entry.id = nextOp /\ entry.action # "FORMAT" /\ entry.status = "RUNNING"
  BY DEF NewRow, NextId
<1> HIDE DEF entry
<1>3. IdsAreUsedUp' /\ IdsAreKeys'
  BY <1>1, <1>2 DEF TaskInv, IdsAreUsedUp, IdsAreKeys
<1>4. ResultsHaveNoWorker' /\ WorkersReportTheirOwnTask'
  BY <1>1, <1>2 DEF TaskInv, ResultsHaveNoWorker, WorkersReportTheirOwnTask
<1>5. RunningFormatHasWorker' /\ OkMeansFormatted'
  BY <1>1, <1>2 DEF TaskInv, RunningFormatHasWorker, OkMeansFormatted
<1> QED
  BY <1>3, <1>4, <1>5 DEF TaskInv

\* A thread goes on to its next phase.
LEMMA PhaseSet ==
    ASSUME TypeOK, TaskInv, NEW w \in workers, NEW stage, SetPhase(w, stage),
           UNCHANGED <<up, ops, nextOp, unreported>>, formatted \subseteq formatted'
    PROVE  TaskInv'
<1> DEFINE v == [w EXCEPT !.phase = stage]
<1>1. workers' = (workers \ {w}) \union {v} /\ v.op = w.op /\ v.device = w.device
  BY DEF SetPhase, TypeOK, Worker
<1> HIDE DEF v
<1>2. IdsAreUsedUp' /\ IdsAreKeys'
  BY <1>1 DEF TaskInv, IdsAreUsedUp, IdsAreKeys
<1>3. ResultsHaveNoWorker' /\ WorkersReportTheirOwnTask' /\ OkMeansFormatted'
  BY <1>1 DEF TaskInv, ResultsHaveNoWorker, WorkersReportTheirOwnTask, OkMeansFormatted
<1>4. RunningFormatHasWorker'
  BY <1>1 DEF TaskInv, RunningFormatHasWorker
<1> QED
  BY <1>2, <1>3, <1>4 DEF TaskInv

\* What an UPDATE of the status of the rows in a set does to each row: ids,
\* devices and actions stay.
SameTask(r, s) == r.id = s.id /\ r.device = s.device /\ r.action = s.action

LEMMA FinishKeepsTask ==
    ASSUME NEW r \in Row, NEW status
    PROVE  SameTask(r, Finish(r, status)) /\ Finish(r, status).status = status
BY DEF SameTask, Finish, Row

\* A thread reports its result and ends.
LEMMA Reported ==
    ASSUME TypeOK, TaskInv, NEW w \in workers, NEW status \in {"OK", "FAIL"},
           Report(w, status), formatted \subseteq formatted',
           status = "OK" => w.op \in formatted',
           UNCHANGED <<up, nextOp>>
    PROVE  TaskInv'
<1>1. workers' = workers \ {w} /\ unreported' = unreported
  BY DEF Report
<1>2. ASSUME NEW s \in ops'
      PROVE  \E r \in ops : /\ SameTask(r, s)
                            /\ \/ r.id # w.op /\ s = r
                               \/ r.id = w.op /\ s.status = status
                                  /\ s = Finish(r, status)
  BY <1>2, FinishKeepsTask DEF Report, UpdateOp, TypeOK, SameTask
<1>3. IdsAreUsedUp'
  BY <1>1, <1>2 DEF TaskInv, IdsAreUsedUp, SameTask
<1>4. IdsAreKeys'
  BY <1>1, <1>2 DEF TaskInv, IdsAreKeys, SameTask
<1>5. ResultsHaveNoWorker'
  BY <1>1, <1>2 DEF TaskInv, ResultsHaveNoWorker, IdsAreKeys, SameTask
<1>6. WorkersReportTheirOwnTask'
  BY <1>1, <1>2 DEF TaskInv, WorkersReportTheirOwnTask, SameTask
<1>7. RunningFormatHasWorker'
  BY <1>1, <1>2 DEF TaskInv, RunningFormatHasWorker, SameTask
<1>8. OkMeansFormatted'
  BY <1>1, <1>2 DEF TaskInv, OkMeansFormatted, SameTask
<1> QED
  BY <1>3, <1>4, <1>5, <1>6, <1>7, <1>8 DEF TaskInv

\* A thread ends and a locked database refuses its report.
LEMMA Unreported ==
    ASSUME TypeOK, TaskInv, NEW w \in workers,
           workers' = workers \ {w}, unreported' = unreported \union {w.op},
           UNCHANGED <<up, ops, nextOp, formatted>>
    PROVE  TaskInv'
<1>1. IdsAreUsedUp' /\ IdsAreKeys'
  BY DEF TaskInv, IdsAreUsedUp, IdsAreKeys
<1>2. ResultsHaveNoWorker' /\ WorkersReportTheirOwnTask' /\ OkMeansFormatted'
  BY DEF TaskInv, ResultsHaveNoWorker, WorkersReportTheirOwnTask, OkMeansFormatted
<1>3. RunningFormatHasWorker'
  BY DEF TaskInv, RunningFormatHasWorker
<1> QED
  BY <1>1, <1>2, <1>3 DEF TaskInv

\* The `except' branch of a format thread.
LEMMA Failed ==
    ASSUME TypeOK, TaskInv, NEW w \in workers, ReportsFailure(w),
           UNCHANGED <<up, nextOp, formatted>>
    PROVE  TaskInv'
<1>1. CASE Report(w, "FAIL")
  BY <1>1, Reported
<1>2. CASE ~Report(w, "FAIL")
  BY <1>2, Unreported DEF ReportsFailure
<1> QED
  BY <1>1, <1>2

\* stop_task() relabels one row.
LEMMA StoppedKeeps ==
    ASSUME TypeOK, TaskInv, NEW id \in Nat, StopTask(id)
    PROVE  TaskInv'
<1>1. UNCHANGED <<up, workers, nextOp, formatted, unreported>>
  BY DEF StopTask, ghosts
<1>2. ASSUME NEW s \in ops'
      PROVE  \E r \in ops : /\ SameTask(r, s)
                            /\ \/ r.id # id /\ s = r
                               \/ r.id = id /\ s = [r EXCEPT !.status = "STOPPED"]
                                  /\ s.status = "STOPPED"
  BY <1>2 DEF StopTask, TypeOK, Row, SameTask
<1>3. IdsAreUsedUp' /\ IdsAreKeys'
  BY <1>1, <1>2 DEF TaskInv, IdsAreUsedUp, IdsAreKeys, SameTask
<1>4. ResultsHaveNoWorker' /\ WorkersReportTheirOwnTask'
  BY <1>1, <1>2 DEF TaskInv, ResultsHaveNoWorker, WorkersReportTheirOwnTask, SameTask
<1>5. RunningFormatHasWorker' /\ OkMeansFormatted'
  BY <1>1, <1>2 DEF TaskInv, RunningFormatHasWorker, OkMeansFormatted, SameTask
<1> QED
  BY <1>3, <1>4, <1>5 DEF TaskInv

\* recover_interrupted_tasks() in a process without threads.
LEMMA Booted ==
    ASSUME TypeOK, TaskInv, DownIsQuiet, Boot
    PROVE  TaskInv'
<1>1. workers = {} /\ UNCHANGED <<workers, nextOp, formatted, unreported>>
  BY DEF Boot, DownIsQuiet, ghosts
<1>2. ASSUME NEW s \in ops'
      PROVE  \E r \in ops : SameTask(r, s) /\ s = Recovered(r)
                             /\ s.status \in {r.status, "INTERRUPTED"} \ {"RUNNING"}
  BY <1>2, FinishKeepsTask DEF Boot, Recovered, TypeOK, SameTask
<1>3. IdsAreUsedUp' /\ IdsAreKeys'
  BY <1>1, <1>2 DEF TaskInv, IdsAreUsedUp, IdsAreKeys, SameTask
<1>4. ResultsHaveNoWorker' /\ WorkersReportTheirOwnTask'
  BY <1>1 DEF ResultsHaveNoWorker, WorkersReportTheirOwnTask
<1>5. RunningFormatHasWorker' /\ OkMeansFormatted'
  BY <1>1, <1>2 DEF TaskInv, RunningFormatHasWorker, OkMeansFormatted, SameTask
<1> QED
  BY <1>3, <1>4, <1>5 DEF TaskInv

LEMMA TaskInvUnchanged ==
    ASSUME TaskInv, UNCHANGED <<up, ops, workers, nextOp, formatted, unreported>>
    PROVE  TaskInv'
BY DEF TaskInv, IdsAreUsedUp, IdsAreKeys, ResultsHaveNoWorker, WorkersReportTheirOwnTask,
       RunningFormatHasWorker, OkMeansFormatted

LEMMA TaskInvStep ==
    ASSUME TypeOK, DownIsQuiet, TaskInv, [Next]_vars
    PROVE  TaskInv'
<1>1. ASSUME NEW d \in Devices, UserFormat(d) PROVE TaskInv'
  BY <1>1, FormatLogged DEF UserFormat, ghosts
<1>2. ASSUME NEW d \in Devices, UserSmart(d) PROVE TaskInv'
  BY <1>2, OtherLogged DEF UserSmart, ghosts, Actions
<1>3. ASSUME NEW d \in Devices, Attach(d) \/ Detach(d) PROVE TaskInv'
  BY <1>3, TaskInvUnchanged DEF Attach, Detach, tables
<1>4. ASSUME NEW w \in workers, WorkerValidates(w) \/ HelperStarts(w) PROVE TaskInv'
  <2>1. CASE ReportsFailure(w)
    BY <1>4, <2>1, Failed DEF WorkerValidates, HelperStarts
  <2>2. CASE ~ReportsFailure(w)
    <3>1. PICK stage \in {"validated", "writing"} : SetPhase(w, stage) /\ UNCHANGED <<ops, unreported>>
      BY <1>4, <2>2 DEF WorkerValidates, HelperStarts
    <3> QED
      BY <1>4, <3>1, PhaseSet DEF WorkerValidates, HelperStarts
  <2> QED
    BY <2>1, <2>2
<1>5. ASSUME NEW w \in workers, HelperEnds(w) PROVE TaskInv'
  <2>1. UNCHANGED <<up, nextOp>> /\ formatted \subseteq formatted'
    BY <1>5 DEF HelperEnds
  <2>2. CASE Report(w, "OK") /\ w.op \in formatted'
    BY <2>1, <2>2, Reported
  <2>3. CASE SetPhase(w, "failing") /\ UNCHANGED <<ops, unreported>>
    BY <2>1, <2>3, PhaseSet
  <2>4. CASE ReportsFailure(w) /\ UNCHANGED formatted
    BY <2>1, <2>4, Failed
  <2> QED
    BY <1>5, <2>2, <2>3, <2>4 DEF HelperEnds
<1>fails. ASSUME NEW w \in workers, WorkerFails(w) PROVE TaskInv'
  BY <1>fails, Failed DEF WorkerFails
<1>escapes. ASSUME NEW c \in Callers, LoopEscapes(c) PROVE TaskInv'
  BY <1>escapes, TaskInvUnchanged DEF LoopEscapes, tables
<1>6. ASSUME NEW id \in 1..MaxOps, StopTask(id) PROVE TaskInv'
  BY <1>6, StoppedKeeps
<1>7. ASSUME ClearHistory PROVE TaskInv'
  BY <1>7 DEF ClearHistory, ghosts, TaskInv, IdsAreUsedUp, IdsAreKeys, ResultsHaveNoWorker,
              WorkersReportTheirOwnTask, RunningFormatHasWorker, OkMeansFormatted
<1>8. ASSUME NEW c \in Callers, NEW e \in BOOLEAN, BeginSync(c, e) PROVE TaskInv'
  BY <1>8, TaskInvUnchanged DEF BeginSync, tables, ghosts
<1>9. ASSUME SwitchOff \/ Tick PROVE TaskInv'
  BY <1>9, TaskInvUnchanged DEF SwitchOff, Tick, tables, ghosts
<1>10. ASSUME NEW c \in Callers, SyncListed(c) \/ SyncUnlisted(c) PROVE TaskInv'
  BY <1>10, TaskInvUnchanged DEF SyncListed, SyncUnlisted, CommitSync, ghosts
<1>11. ASSUME NEW c \in Callers, LockTables(c) \/ AbortSync(c) \/ ReadAutoFlag(c) \/ AutoDone(c) PROVE TaskInv'
  BY <1>11, TaskInvUnchanged DEF LockTables, AbortSync, ReadAutoFlag, AutoDone, tables, ghosts
<1>12. ASSUME NEW c \in Callers, NEW d \in Devices, AutoFormat(c, d) PROVE TaskInv'
  BY <1>12, FormatLogged, OtherLogged DEF AutoFormat, Actions
<1>13. ASSUME NEW c \in Callers, AutoSmart(c) PROVE TaskInv'
  <2>1. PICK d \in Devices, action \in {"SMART", "AUTO_MODE_SKIPPED"} : LogOp(d, action)
    BY <1>13 DEF AutoSmart, TypeOK, Caller
  <2> QED
    BY <1>13, <2>1, OtherLogged DEF AutoSmart, ghosts, Actions
<1>14. ASSUME NEW c \in Callers, FinishEnable(c) PROVE TaskInv'
  BY <1>14, TaskInvUnchanged DEF FinishEnable, tables
<1>15. ASSUME Crash PROVE TaskInv'
  BY <1>15 DEF Crash, tables, TaskInv, IdsAreUsedUp, IdsAreKeys, ResultsHaveNoWorker,
               WorkersReportTheirOwnTask, RunningFormatHasWorker, OkMeansFormatted
<1>16. ASSUME Boot PROVE TaskInv'
  BY <1>16, Booted
<1>17. CASE UNCHANGED vars
  BY <1>17, TaskInvUnchanged DEF vars, tables, ghosts
<1>18. CASE Next
  BY <1>18, <1>1, <1>2, <1>3, <1>4, <1>5, <1>6, <1>7, <1>8, <1>9, <1>10, <1>11, <1>12,
     <1>13, <1>14, <1>15, <1>16, <1>fails, <1>escapes, NextCases
<1> QED
  BY <1>17, <1>18

LEMMA TaskInvAlways == Spec => []TaskInv
<1>1. Init => TaskInv
  BY DEF Init, TaskInv, IdsAreUsedUp, IdsAreKeys, ResultsHaveNoWorker,
         WorkersReportTheirOwnTask, RunningFormatHasWorker, OkMeansFormatted
<1> QED
  BY <1>1, TaskInvStep, DiskTypeCorrect, DownIsQuietAlways, PTL DEF Spec

\* No format task is shown as running without a thread that will report to it,
\* unless a sync held the database when its thread came to report.
THEOREM RunningTasksAreAlive == Spec => []RunningFormatHasWorker
BY TaskInvAlways, PTL DEF TaskInv

\* A format thread never reports into another task's row.
THEOREM ReportsGoHome == Spec => []WorkersReportTheirOwnTask
BY TaskInvAlways, PTL DEF TaskInv

\* A task called OK was formatted to the end.
THEOREM OkIsTrue == Spec => []OkMeansFormatted
BY TaskInvAlways, PTL DEF TaskInv

-----------------------------------------------------------------------------
(* Results stay *)

FinalStep ==
    \A r \in ops, s \in ops' :
        s.id = r.id /\ r.status \in {"OK", "FAIL", "INTERRUPTED"}
            => s.status \in {r.status, "STOPPED"}

LEMMA FinalUnchanged == ASSUME IdsAreKeys, UNCHANGED ops PROVE FinalStep
BY DEF FinalStep, IdsAreKeys

LEMMA FinalLogged ==
    ASSUME TypeOK, TaskInv, NEW d \in Devices, NEW action, LogOp(d, action)
    PROVE  FinalStep
<1>1. ops' = ops \union {NewRow(d, action)} /\ NewRow(d, action).id = nextOp
  BY DEF LogOp, NewRow, NextId
<1>2. \A r \in ops : r.id # nextOp
  BY DEF TypeOK, Row, TaskInv, IdsAreUsedUp
<1> QED
  BY <1>1, <1>2 DEF FinalStep, TaskInv, IdsAreKeys

LEMMA FinalReported ==
    ASSUME TypeOK, TaskInv, NEW w \in workers, NEW status, Report(w, status)
    PROVE  FinalStep
<1>1. ASSUME NEW r \in ops, NEW s \in ops', s.id = r.id,
             r.status \in {"OK", "FAIL", "INTERRUPTED"}
      PROVE  s.status = r.status
  <2>1. PICK q \in ops : s = IF q.id = w.op THEN Finish(q, status) ELSE q
    BY <1>1 DEF Report, UpdateOp
  <2>2. s.id = q.id
    BY <2>1, FinishKeepsTask DEF TypeOK, SameTask
  <2>3. q = r
    BY <1>1, <2>2 DEF TaskInv, IdsAreKeys
  <2>4. r.id # w.op
    BY <1>1 DEF TaskInv, ResultsHaveNoWorker
  <2> QED
    BY <2>1, <2>3, <2>4
<1> QED
  BY <1>1 DEF FinalStep

LEMMA FinalFailed ==
    ASSUME TypeOK, TaskInv, NEW w \in workers, ReportsFailure(w)
    PROVE  FinalStep
BY FinalReported, FinalUnchanged DEF ReportsFailure, TaskInv

LEMMA FinalStopped ==
    ASSUME TypeOK, TaskInv, NEW id, StopTask(id)
    PROVE  FinalStep
<1>1. ASSUME NEW r \in ops, NEW s \in ops', s.id = r.id
      PROVE  s.status \in {r.status, "STOPPED"}
  <2>1. PICK q \in ops : s = IF q.id = id THEN [q EXCEPT !.status = "STOPPED"] ELSE q
    BY <1>1 DEF StopTask
  <2>2. s.id = q.id /\ s.status \in {q.status, "STOPPED"}
    BY <2>1 DEF TypeOK, Row
  <2> QED
    BY <1>1, <2>2 DEF TaskInv, IdsAreKeys
<1> QED
  BY <1>1 DEF FinalStep

LEMMA FinalBooted ==
    ASSUME TypeOK, TaskInv, Boot
    PROVE  FinalStep
<1>1. ASSUME NEW r \in ops, NEW s \in ops', s.id = r.id, r.status # "RUNNING"
      PROVE  s.status = r.status
  <2>1. PICK q \in ops : s = Recovered(q)
    BY <1>1 DEF Boot
  <2>2. s.id = q.id
    BY <2>1, FinishKeepsTask DEF TypeOK, SameTask, Recovered
  <2> QED
    BY <1>1, <2>1, <2>2 DEF TaskInv, IdsAreKeys, Recovered
<1> QED
  BY <1>1 DEF FinalStep

LEMMA FinalNext ==
    ASSUME TypeOK, TaskInv, [Next]_vars
    PROVE  FinalStep
<1> USE DEF TaskInv
<1>1. ASSUME NEW d \in Devices, UserFormat(d) \/ UserSmart(d) PROVE FinalStep
  BY <1>1, FinalLogged DEF UserFormat, UserSmart
<1>2. ASSUME NEW d \in Devices, Attach(d) \/ Detach(d) PROVE FinalStep
  BY <1>2, FinalUnchanged DEF Attach, Detach, tables
<1>3. ASSUME NEW w \in workers, WorkerValidates(w) \/ HelperStarts(w) PROVE FinalStep
  BY <1>3, FinalFailed, FinalUnchanged DEF WorkerValidates, HelperStarts
<1>4. ASSUME NEW w \in workers, HelperEnds(w) PROVE FinalStep
  BY <1>4, FinalReported, FinalFailed, FinalUnchanged DEF HelperEnds
<1>fails. ASSUME NEW w \in workers, WorkerFails(w) PROVE FinalStep
  BY <1>fails, FinalFailed DEF WorkerFails
<1>escapes. ASSUME NEW c \in Callers, LoopEscapes(c) PROVE FinalStep
  BY <1>escapes, FinalUnchanged DEF LoopEscapes, tables
<1>5. ASSUME NEW id \in 1..MaxOps, StopTask(id) PROVE FinalStep
  BY <1>5, FinalStopped
<1>6. ASSUME ClearHistory PROVE FinalStep
  BY <1>6 DEF ClearHistory, FinalStep
<1>7. ASSUME NEW c \in Callers, NEW e \in BOOLEAN, BeginSync(c, e) PROVE FinalStep
  BY <1>7, FinalUnchanged DEF BeginSync, tables
<1>8. ASSUME SwitchOff \/ Tick \/ Crash PROVE FinalStep
  BY <1>8, FinalUnchanged DEF SwitchOff, Tick, Crash, tables
<1>9. ASSUME NEW c \in Callers, SyncListed(c) \/ SyncUnlisted(c) PROVE FinalStep
  BY <1>9, FinalUnchanged DEF SyncListed, SyncUnlisted, CommitSync
<1>10. ASSUME NEW c \in Callers, LockTables(c) \/ AbortSync(c) \/ ReadAutoFlag(c) \/ AutoDone(c) PROVE FinalStep
  BY <1>10, FinalUnchanged DEF LockTables, AbortSync, ReadAutoFlag, AutoDone, tables
<1>11. ASSUME NEW c \in Callers, NEW d \in Devices, AutoFormat(c, d) PROVE FinalStep
  BY <1>11, FinalLogged DEF AutoFormat
<1>12. ASSUME NEW c \in Callers, AutoSmart(c) PROVE FinalStep
  <2>1. PICK d \in Devices, action \in {"SMART", "AUTO_MODE_SKIPPED"} : LogOp(d, action)
    BY <1>12 DEF AutoSmart, TypeOK, Caller
  <2> QED
    BY <2>1, FinalLogged
<1>13. ASSUME NEW c \in Callers, FinishEnable(c) PROVE FinalStep
  BY <1>13, FinalUnchanged DEF FinishEnable, tables
<1>14. ASSUME Boot PROVE FinalStep
  BY <1>14, FinalBooted
<1>15. CASE UNCHANGED vars
  BY <1>15, FinalUnchanged DEF vars, tables
<1>16. CASE Next
  BY <1>16, <1>1, <1>2, <1>3, <1>4, <1>5, <1>6, <1>7, <1>8, <1>9, <1>10, <1>11, <1>12,
     <1>13, <1>14, <1>fails, <1>escapes, NextCases
<1> QED
  BY <1>15, <1>16

\* Once OK, FAIL or INTERRUPTED is written nothing but a user's stop replaces
\* it: no late thread, no recovery.
THEOREM TaskResultsAreFinal == Spec => ResultsAreFinal
<1>1. TypeOK /\ TaskInv /\ [Next]_vars => [FinalStep]_vars
  BY FinalNext
<1>2. ResultsAreFinal <=> [][FinalStep]_vars
  BY DEF ResultsAreFinal, FinalStep
<1> QED
  BY <1>1, <1>2, DiskTypeCorrect, TaskInvAlways, PTL DEF Spec

-----------------------------------------------------------------------------
(* Auto mode and the disks recorded at switch-on *)

\* A baseline disk was recorded no later than the switch, what a sync holds as
\* new was recorded no earlier than its timestamp, and what is marked present
\* has a row.
SyncInv ==
    /\ \A d \in Devices : firstSeen[d] <= clock
    /\ \A d \in present : firstSeen[d] # 0
    /\ \A d \in baseline : firstSeen[d] # 0 /\ firstSeen[d] <= enabledAt
    /\ \A c \in Callers : \A d \in callers[c].new :
           firstSeen[d] # 0 /\ callers[c].now <= firstSeen[d]

LEMMA SyncCommitted ==
    ASSUME TypeOK, SyncInv, NEW c \in Callers, NEW listed \in SUBSET Devices,
           CommitSync(c, listed)
    PROVE  SyncInv'
<1>1. /\ UNCHANGED <<clock, baseline, enabledAt>>
      /\ present' = listed
      /\ clock \in Nat /\ clock # 0
      /\ baseline \subseteq Devices
  BY DEF CommitSync, ghosts, TypeOK
<1>2. ASSUME NEW d \in Devices
      PROVE  /\ firstSeen[d] \in Nat
             /\ firstSeen[d] # 0 => firstSeen'[d] = firstSeen[d]
             /\ firstSeen[d] = 0 => firstSeen'[d] = IF d \in listed THEN clock ELSE 0
  <2>1. firstSeen[d] \in Nat
    BY DEF TypeOK
  <2>2. firstSeen'[d] = IF d \in listed /\ firstSeen[d] = 0 THEN clock ELSE firstSeen[d]
    BY DEF CommitSync, Sighted
  <2> QED
    BY <2>1, <2>2
<1>3. ASSUME NEW b \in Callers, NEW d \in callers'[b].new
      PROVE  firstSeen'[d] # 0 /\ callers'[b].now <= firstSeen'[d]
  <2>1. CASE b = c
    <3>1. callers'[c].new = NewDevices(firstSeen', callers[c].now)
          /\ callers'[c].now = callers[c].now
      BY DEF CommitSync, TypeOK, Caller
    <3> QED
      BY <1>3, <2>1, <3>1 DEF NewDevices, TypeOK, Caller
  <2>2. CASE b # c
    <3>1. callers'[b] = callers[b] /\ callers[b].new \subseteq Devices
      BY <2>2 DEF CommitSync, TypeOK, Caller
    <3>2. d \in Devices /\ firstSeen[d] # 0 /\ callers[b].now <= firstSeen[d]
      BY <1>3, <3>1 DEF SyncInv
    <3>3. firstSeen'[d] = firstSeen[d]
      BY <1>2, <3>2
    <3> QED
      BY <3>1, <3>2, <3>3
  <2> QED
    BY <2>1, <2>2
<1>4. ASSUME NEW d \in Devices PROVE firstSeen'[d] <= clock'
  <2>1. firstSeen[d] <= clock
    BY DEF SyncInv
  <2> QED
    BY <1>1, <1>2, <2>1
<1>5. ASSUME NEW d \in present' PROVE firstSeen'[d] # 0
  <2>1. d \in Devices /\ d \in listed
    BY <1>1, <1>5
  <2> QED
    BY <1>1, <1>2, <2>1
<1>6. ASSUME NEW d \in baseline' PROVE firstSeen'[d] # 0 /\ firstSeen'[d] <= enabledAt'
  <2>1. d \in Devices /\ firstSeen[d] # 0 /\ firstSeen[d] <= enabledAt
    BY <1>1, <1>6 DEF SyncInv
  <2> QED
    BY <1>1, <1>2, <2>1
<1> QED
  BY <1>3, <1>4, <1>5, <1>6 DEF SyncInv

\* Every other step leaves the disks table alone, starts no new list and
\* shrinks or empties the lists there are.
LEMMA SyncKept ==
    ASSUME TypeOK, SyncInv, UNCHANGED <<clock, firstSeen, present, enabledAt>>,
           baseline' \subseteq baseline,
           \A c \in Callers : \/ callers'[c].new = {}
                              \/ /\ callers'[c].new \subseteq callers[c].new
                                 /\ callers'[c].now = callers[c].now
    PROVE  SyncInv'
BY DEF SyncInv

LEMMA SyncInvStep ==
    ASSUME TypeOK, SyncInv, [Next]_vars
    PROVE  SyncInv'
<1>1. ASSUME NEW d \in Devices, UserFormat(d) \/ UserSmart(d) PROVE SyncInv'
  BY <1>1, SyncKept DEF UserFormat, UserSmart, ghosts
<1>2. ASSUME NEW d \in Devices, Attach(d) \/ Detach(d) PROVE SyncInv'
  BY <1>2, SyncKept DEF Attach, Detach, tables
<1>3. ASSUME NEW w \in workers, WorkerStep(w) PROVE SyncInv'
  BY <1>3, SyncKept DEF WorkerStep, WorkerValidates, HelperStarts, HelperEnds, WorkerFails
<1>4. ASSUME NEW id \in 1..MaxOps, StopTask(id) PROVE SyncInv'
  BY <1>4, SyncKept DEF StopTask, ghosts
<1>5. ASSUME ClearHistory \/ Boot PROVE SyncInv'
  BY <1>5, SyncKept DEF ClearHistory, Boot, ghosts
<1>6. ASSUME NEW c \in Callers, NEW e \in BOOLEAN, BeginSync(c, e) PROVE SyncInv'
  <2>1. \A b \in Callers : callers'[b].new = {} \/ callers'[b] = callers[b]
    BY <1>6 DEF BeginSync, Idle, TypeOK
  <2> QED
    BY <1>6, <2>1, SyncKept DEF BeginSync, tables, ghosts
<1>7. ASSUME SwitchOff \/ Crash PROVE SyncInv'
  BY <1>7 DEF SwitchOff, Crash, tables, Idle, SyncInv
<1>8. ASSUME NEW c \in Callers, SyncListed(c) \/ SyncUnlisted(c) PROVE SyncInv'
  BY <1>8, SyncCommitted DEF SyncListed, SyncUnlisted, TypeOK
<1>9. ASSUME NEW c \in Callers, LockTables(c) \/ AbortSync(c) \/ ReadAutoFlag(c) \/ AutoDone(c) PROVE SyncInv'
  <2> DEFINE v == callers'[c]
  <2>1. v.new = {} \/ (v.new = callers[c].new /\ v.now = callers[c].now)
    <3>1. AfterSync(c).new = {} /\ Idle.new = {}
      BY DEF AfterSync, Idle
    <3>2. CASE AbortSync(c) \/ AutoDone(c)
      BY <3>1, <3>2 DEF AbortSync, AutoDone, TypeOK
    <3>3. CASE ReadAutoFlag(c)
      BY <3>1, <3>3 DEF ReadAutoFlag, TypeOK, Caller
    <3>4. CASE LockTables(c)
      BY <3>4 DEF LockTables, TypeOK, Caller
    <3> QED
      BY <1>9, <3>2, <3>3, <3>4
  <2>2. ASSUME NEW b \in Callers, b # c PROVE callers'[b] = callers[b]
    BY <1>9, <2>2 DEF LockTables, AbortSync, ReadAutoFlag, AutoDone, TypeOK
  <2>3. \A b \in Callers : \/ callers'[b].new = {}
                           \/ callers'[b].new = callers[b].new /\ callers'[b].now = callers[b].now
    BY <2>1, <2>2
  <2> QED
    BY <1>9, <2>3, SyncKept DEF LockTables, AbortSync, ReadAutoFlag, AutoDone, tables, ghosts
<1>10. ASSUME NEW c \in Callers, NEW d \in Devices, AutoFormat(c, d) PROVE SyncInv'
  <2>1. \A b \in Callers : /\ callers'[b].new \subseteq callers[b].new
                           /\ callers'[b].now = callers[b].now
    BY <1>10 DEF AutoFormat, TypeOK, Caller
  <2> QED
    BY <1>10, <2>1, SyncKept DEF AutoFormat
<1>11. ASSUME NEW c \in Callers, AutoSmart(c) PROVE SyncInv'
  <2>1. \A b \in Callers : callers'[b].new = callers[b].new /\ callers'[b].now = callers[b].now
    BY <1>11 DEF AutoSmart, TypeOK, Caller
  <2> QED
    BY <1>11, <2>1, SyncKept DEF AutoSmart, ghosts
<1>12. ASSUME NEW c \in Callers, FinishEnable(c) PROVE SyncInv'
  <2>1. \A b \in Callers : callers'[b].new = {} \/ callers'[b] = callers[b]
    BY <1>12 DEF FinishEnable, Idle, TypeOK
  <2>2. CASE autoEnabled
    BY <1>12, <2>1, <2>2, SyncKept DEF FinishEnable, tables
  <2>3. CASE ~autoEnabled
    BY <1>12, <2>1, <2>3 DEF FinishEnable, tables, SyncInv, TypeOK
  <2> QED
    BY <2>2, <2>3
<1>escapes. ASSUME NEW c \in Callers, LoopEscapes(c) PROVE SyncInv'
  <2>1. \A b \in Callers : callers'[b].new = {} \/ callers'[b] = callers[b]
    BY <1>escapes DEF LoopEscapes, Idle, TypeOK
  <2> QED
    BY <1>escapes, <2>1, SyncKept DEF LoopEscapes, tables
<1>13. ASSUME Tick PROVE SyncInv'
  BY <1>13 DEF Tick, tables, ghosts, SyncInv, TypeOK
<1>14. CASE UNCHANGED vars
  BY <1>14, SyncKept DEF vars, tables, ghosts
<1>15. CASE Next
  BY <1>15, <1>1, <1>2, <1>3, <1>4, <1>5, <1>6, <1>7, <1>8, <1>9, <1>10, <1>11, <1>12, <1>13,
     <1>escapes, NextCases DEF WorkerStep
<1> QED
  BY <1>14, <1>15

\* From the second after the switch on, no sync holds a disk of the baseline
\* as new: what it holds was recorded at or after its own timestamp, the
\* baseline at or before the switch.
THEOREM BaselineIsSafe == Spec => []BaselineSafeAfterItsSecond
<1>1. Init => SyncInv
  BY DEF Init, SyncInv, Idle
<1>2. TypeOK /\ SyncInv => BaselineSafeAfterItsSecond
  BY DEF TypeOK, SyncInv, BaselineSafeAfterItsSecond, Caller
<1> QED
  BY <1>1, <1>2, SyncInvStep, DiskTypeCorrect, PTL DEF Spec

-----------------------------------------------------------------------------
(* The audit log.                                                              *)
AuditTypeOK ==
    /\ events \in SUBSET Event /\ nextEvent \in 1 .. MaxEvents + 1
    /\ stamp \in [Recorders -> Times \cup {Nothing}]
    /\ machineTime \in Times /\ late \in BOOLEAN

NumbersBelow == \A e \in events : e.id < nextEvent
Ordered == \A e, f \in events : e.id <= f.id => e.at <= f.at
HasLast == events # {} => \E e \in events : \A f \in events : f.id <= e.id

(* As long as no event is late, the ids' order is the times': what prune()      *)
(* leaves is an end of the chain, and the event with the highest id is in it.   *)
AuditInv == AuditTypeOK /\ NumbersBelow /\ (~late => Ordered /\ HasLast /\ ChainHolds)

-----------------------------------------------------------------------------
(* prune() leaves a verifying chain when the times are in order.                *)
LEMMA PrunedVerifies ==
    ASSUME AuditInv, NEW days \in Retentions, events' = Pruned(days),
           UNCHANGED <<nextEvent, late, machineTime>>, stamp' \in [Recorders -> Times \cup {Nothing}]
    PROVE  AuditInv'
<1>1. days \in Nat /\ machineTime \in Int /\ events' \subseteq events
  BY AuditBounds DEF AuditInv, AuditTypeOK, Times, Pruned
<1>2. AuditTypeOK' /\ NumbersBelow'
  BY <1>1 DEF AuditInv, AuditTypeOK, NumbersBelow
<1>3. ASSUME ~late'
      PROVE  Ordered' /\ HasLast' /\ ChainHolds'
  <2>1. Ordered /\ HasLast /\ ChainHolds /\ events \in SUBSET Event
    BY <1>3 DEF AuditInv, AuditTypeOK
  <2>2. Ordered'
    BY <1>1, <2>1 DEF Ordered
  <2>3. HasLast'
    <3>1. SUFFICES ASSUME events' # {}
                   PROVE  \E e \in events' : \A f \in events' : f.id <= e.id
      BY DEF HasLast
    <3>2. PICK e \in events : \A f \in events : f.id <= e.id
      BY <1>1, <2>1, <3>1 DEF HasLast
    <3>3. PICK f \in events' : f.at >= machineTime - days
      BY <3>1 DEF Pruned
    <3>4. f.at <= e.at /\ f.at \in Int /\ e.at \in Int
      BY <1>1, <2>1, <3>2 DEF Ordered, Event, Times
    <3>5. e \in events'
      BY <1>1, <3>3, <3>4, <3>2 DEF Pruned
    <3> QED BY <1>1, <3>2, <3>5
  <2>4. ChainHolds'
    <3>1. SUFFICES ASSUME NEW e \in events', NEW f \in events', f.id < e.id, f.id # e.prev
                   PROVE  \E g \in events' : f.id < g.id /\ g.id < e.id
      BY DEF ChainHolds
    <3>2. PICK g \in events : f.id < g.id /\ g.id < e.id
      BY <1>1, <2>1, <3>1 DEF ChainHolds
    <3>3. f.at <= g.at /\ f.at \in Int /\ g.at \in Int /\ f.at >= machineTime - days
      BY <1>1, <2>1, <3>1, <3>2 DEF Ordered, Pruned, Event, Times, EventIds
    <3>4. g \in events'
      BY <1>1, <3>2, <3>3 DEF Pruned
    <3> QED BY <3>2, <3>4
  <2> QED BY <2>2, <2>3, <2>4
<1> QED BY <1>2, <1>3 DEF AuditInv

(* An event that is not late goes to the end, and names the one that was there. *)
LEMMA InsertVerifies ==
    ASSUME AuditInv, NEW w \in Recorders, Inserts(w)
    PROVE  AuditInv'
<1>1. PICK prev \in {e.id : e \in LastEvent(w)} \cup (IF LastEvent(w) = {} THEN {0} ELSE {}) :
         events' = events \cup {[id |-> nextEvent, at |-> stamp[w], prev |-> prev]}
  BY DEF Inserts
<1> DEFINE new == [id |-> nextEvent, at |-> stamp[w], prev |-> prev]
<1>2. MaxEvents \in Nat /\ events \in SUBSET Event /\ nextEvent \in EventIds /\ stamp[w] \in Times
  BY AuditBounds DEF AuditInv, AuditTypeOK, Inserts
<1>3. prev \in 0 .. MaxEvents
  BY <1>1, <1>2 DEF LastEvent, Event, EventIds
<1>4. new \in Event
  BY <1>2, <1>3 DEF Event
<1>5. AuditTypeOK'
  BY <1>1, <1>2, <1>4 DEF AuditInv, AuditTypeOK, Inserts, EventIds
<1>6. NumbersBelow'
  BY <1>1, <1>2 DEF AuditInv, NumbersBelow, Inserts, Event, EventIds
<1>7. ASSUME ~late'
      PROVE  Ordered' /\ HasLast' /\ ChainHolds'
  <2>1. Ordered /\ HasLast /\ ChainHolds /\ NumbersBelow
    BY <1>7 DEF AuditInv, Inserts, AuditTypeOK
  <2>2. \A e \in events : e.at <= stamp[w] /\ e.id < nextEvent
    <3> SUFFICES ASSUME NEW e \in events PROVE e.at <= stamp[w] /\ e.id < nextEvent
      OBVIOUS
    <3>1. ~(e.at > stamp[w])
      BY <1>7 DEF Inserts
    <3>2. e.at \in Int /\ stamp[w] \in Int
      BY <1>2 DEF Event, Times
    <3> QED BY <2>1, <3>1, <3>2 DEF NumbersBelow
  <2>3. Ordered'
    BY <1>1, <1>2, <2>1, <2>2 DEF Ordered, Event, EventIds, Times
  <2>4. HasLast'
    <3>1. new \in events' /\ new.id = nextEvent /\ nextEvent \in Int
      BY <1>1, <1>2 DEF EventIds
    <3>2. \A f \in events' : f.id <= new.id
      BY <1>1, <1>2, <2>2, <3>1 DEF Event, EventIds
    <3> QED BY <3>1, <3>2 DEF HasLast
  <2>5. ChainHolds'
    <3>1. SUFFICES ASSUME NEW e \in events', NEW f \in events', f.id < e.id, f.id # e.prev
                   PROVE  \E g \in events' : f.id < g.id /\ g.id < e.id
      BY DEF ChainHolds
    <3>2. CASE e \in events
      <4>1. f \in events
        BY <1>1, <1>2, <2>2, <3>1, <3>2 DEF Event, EventIds
      <4> QED BY <1>1, <2>1, <3>1, <3>2, <4>1 DEF ChainHolds
    <3>3. CASE e = new
      <4>1. f \in events
        BY <1>1, <1>2, <3>1, <3>3 DEF EventIds
      <4>2. PICK g \in LastEvent(w) : prev = g.id
        BY <1>1, <2>1, <4>1 DEF HasLast, LastEvent
      <4>3. g \in events /\ f.id <= g.id /\ f.id # g.id /\ g.id < nextEvent
        BY <2>2, <3>1, <3>3, <4>1, <4>2 DEF LastEvent
      <4>4. f.id < g.id
        BY <1>2, <4>1, <4>3 DEF Event, EventIds
      <4> QED BY <1>1, <3>3, <4>3, <4>4
    <3> QED BY <1>1, <3>2, <3>3
  <2> QED BY <2>3, <2>4, <2>5
<1> QED BY <1>5, <1>6, <1>7 DEF AuditInv

-----------------------------------------------------------------------------
(* As long as no event is inserted after one with a later timestamp,            *)
(* verify_chain() reports no tampering, whatever prune() has removed.           *)
THEOREM PruningKeepsTheChain == AuditSpec => []ChainVerifies
<1>1. AuditInit => AuditInv
  <2> SUFFICES ASSUME AuditInit PROVE AuditInv
    OBVIOUS
  <2>1. AuditTypeOK
    <3>1. nextEvent \in 1 .. MaxEvents + 1
      BY AuditBounds DEF AuditInit
    <3>2. stamp \in [Recorders -> Times \cup {Nothing}]
      BY DEF AuditInit
    <3>3. events \in SUBSET Event /\ machineTime \in Times /\ late \in BOOLEAN
      BY DEF AuditInit
    <3> QED BY <3>1, <3>2, <3>3 DEF AuditTypeOK
  <2> QED BY <2>1 DEF AuditInit, AuditInv, NumbersBelow, Ordered, HasLast, ChainHolds
<1>2. AuditInv /\ [AuditNext]_auditVars => AuditInv'
  <2> SUFFICES ASSUME AuditInv, [AuditNext]_auditVars
               PROVE  AuditInv'
    OBVIOUS
  <2>1. ASSUME NEW w \in Recorders, Stamps(w)
        PROVE  AuditInv'
    BY <2>1 DEF Stamps, AuditInv, AuditTypeOK, NumbersBelow, Ordered, HasLast, ChainHolds
  <2>2. ASSUME NEW w \in Recorders, Inserts(w)
        PROVE  AuditInv'
    BY <2>2, InsertVerifies
  <2>3. ASSUME NEW w \in Recorders, InsertFails(w)
        PROVE  AuditInv'
    BY <2>3 DEF InsertFails, AuditInv, AuditTypeOK, NumbersBelow, Ordered, HasLast, ChainHolds
  <2>4. ASSUME NEW days \in Retentions, Prunes(days)
        PROVE  AuditInv'
    BY <2>4, PrunedVerifies DEF Prunes, AuditInv, AuditTypeOK
  <2>5. ASSUME NEW days \in Retentions, AuditRestart(days)
        PROVE  AuditInv'
    BY <2>5, PrunedVerifies DEF AuditRestart
  <2>6. ASSUME NEW t \in Times, ClockMoves(t)
        PROVE  AuditInv'
    BY <2>6 DEF ClockMoves, AuditInv, AuditTypeOK, NumbersBelow, Ordered, HasLast, ChainHolds
  <2>7. CASE UNCHANGED auditVars
    BY <2>7 DEF auditVars, AuditInv, AuditTypeOK, NumbersBelow, Ordered, HasLast, ChainHolds
  <2> QED BY <2>1, <2>2, <2>3, <2>4, <2>5, <2>6, <2>7 DEF AuditNext
<1>3. AuditInv => ChainVerifies
  BY DEF AuditInv, ChainVerifies
<1> QED BY <1>1, <1>2, <1>3, PTL DEF AuditSpec

-----------------------------------------------------------------------------
(* FleetPilot's own updates.  A thread that waits for a command has begun one, *)
(* and the command is one of root's that are at work.                          *)
Tools == {"update", "upgrade", "autoremove", "check", "apply", "restart"}

JobsWait ==
    /\ tools \subseteq (1 .. MaxJobs) \X Tools
    /\ \A j \in jobs : j.busy => j.pc > 0

UpdateTypes == UpdateTypeOK /\ JobsWait
UpdateInv == UpdateTypes /\ AnnouncedRestartComes

LEMMA JobBoundNat == MaxJobs \in Nat
BY JobBound

LEMMA CommandsOf ==
    ASSUME NEW kind \in Kinds
    PROVE  /\ Len(Commands(kind)) \in 1 .. 3 /\ 1 <= Len(Commands(kind))
           /\ \A i \in 1 .. Len(Commands(kind)) : Commands(kind)[i] \in Tools
           /\ \A i \in 1 .. Len(Commands(kind)) :
                 Commands(kind)[i] \in {"check", "apply", "restart"} <=> kind # "packages"
BY DEF Kinds, Commands, Tools

LEMMA CommandOf ==
    ASSUME UpdateTypes, NEW j \in jobs, j.pc > 0
    PROVE  /\ Command(j) \in Tools
           /\ Command(j) \in {"check", "apply", "restart"} <=> j.kind # "packages"
<1>1. j \in JobType /\ j.pc <= Len(Commands(j.kind))
  BY DEF UpdateTypes, UpdateTypeOK
<1>2. j.kind \in Kinds /\ j.pc \in Nat
  BY <1>1 DEF JobType
<1>3. Len(Commands(j.kind)) \in 1 .. 3
  BY <1>2, CommandsOf
<1>4. j.pc \in 1 .. Len(Commands(j.kind))
  BY <1>1, <1>2, <1>3
<1> QED
  BY <1>2, <1>4, CommandsOf DEF Command

(* A thread moves on: as k it is still the only one of its number.             *)
LEMMA JobAdvances ==
    ASSUME UpdateTypes, NEW j \in jobs, NEW k \in JobType, Advance(j, k), k.id = j.id
    PROVE  /\ jobs' \subseteq JobType /\ \A x, y \in jobs' : x.id = y.id => x = y
           /\ \A x \in jobs' : x = k \/ (x \in jobs /\ x.id # j.id)
           /\ k \in jobs' /\ \A x \in jobs : x # j => x \in jobs'
<1>1. jobs' = (jobs \ {j}) \cup {k}
  BY DEF Advance
<1>2. jobs \subseteq JobType /\ \A x, y \in jobs : x.id = y.id => x = y
  BY DEF UpdateTypes, UpdateTypeOK
<1> QED
  BY <1>1, <1>2

LEMMA JobEnds ==
    ASSUME UpdateTypes, NEW j \in jobs, jobs' = jobs \ {j}
    PROVE  /\ jobs' \subseteq JobType /\ \A x, y \in jobs' : x.id = y.id => x = y
           /\ \A x \in jobs' : x \in jobs /\ x.id # j.id
           /\ \A x \in jobs : x # j => x \in jobs'
BY DEF UpdateTypes, UpdateTypeOK

(* What the thread does with a result: it ends, or has its next command before *)
(* it, and waits for none.                                                     *)
MovedOn(j, k) == /\ k.id = j.id /\ k.kind = j.kind /\ ~k.busy
                 /\ k.pc <= Len(Commands(k.kind))

LEMMA ContinueMoves ==
    ASSUME UpdateTypes, NEW j \in jobs, NEW ok \in BOOLEAN, Continue(j, ok)
    PROVE  \/ FinishUpdate(j)
           \/ \E k \in JobType : MovedOn(j, k) /\ Advance(j, k) /\ flag' = flag
<1>0. j \in JobType /\ j.pc \in Nat /\ Len(Commands(j.kind)) \in 1 .. 3
  BY CommandsOf DEF UpdateTypes, UpdateTypeOK, JobType
<1>1. CASE j.pc < Len(Commands(j.kind)) /\ Advance(j, [j EXCEPT !.pc = @ + 1, !.busy = FALSE]) /\ UNCHANGED flag
  <2> DEFINE k == [j EXCEPT !.pc = j.pc + 1, !.busy = FALSE]
  <2>1. j.pc + 1 \in 0 .. 3 /\ j.pc + 1 <= Len(Commands(j.kind))
    <3> DEFINE n == Len(Commands(j.kind))
               pc == j.pc
    <3>1. n \in 1 .. 3 /\ pc \in Nat /\ pc < n
      BY <1>0, <1>1
    <3> HIDE DEF n, pc
    <3>2. pc + 1 \in 0 .. 3 /\ pc + 1 <= n
      BY <3>1
    <3> QED
      BY <3>2 DEF n, pc
  <2>2. k \in JobType
    BY <1>0, <2>1 DEF JobType
  <2>3. k.id = j.id /\ k.kind = j.kind /\ ~k.busy /\ k.pc = j.pc + 1
    BY <1>0 DEF JobType
  <2>4. Advance(j, k) /\ flag' = flag
    BY <1>1
  <2> HIDE DEF k
  <2> QED
    BY <2>1, <2>2, <2>3, <2>4 DEF MovedOn
<1> QED
  BY <1>1 DEF Continue, Stops, Proceeds

(* The type of the state after a thread has become k, or has ended.            *)
LEMMA AdvancedTypes ==
    ASSUME UpdateTypes, NEW j \in jobs, NEW k \in JobType, Advance(j, k), k.id = j.id,
           k.pc <= Len(Commands(k.kind)), k.busy => k.pc > 0 /\ <<k.id, Command(k)>> \in tools',
           tools' \subseteq (1 .. MaxJobs) \X Tools, \A t \in tools : t[1] # j.id => t \in tools',
           flag' \in [Updaters -> BOOLEAN], admitted' = admitted,
           restartPending' \in BOOLEAN, timer' \in BOOLEAN
    PROVE  UpdateTypes'
<1>1. /\ jobs' \subseteq JobType /\ \A x, y \in jobs' : x.id = y.id => x = y
      /\ \A x \in jobs' : x = k \/ (x \in jobs /\ x.id # j.id)
  BY JobAdvances
<1>2. ASSUME NEW x \in jobs' PROVE x.pc <= Len(Commands(x.kind)) /\ (x.busy => x.pc > 0 /\ <<x.id, Command(x)>> \in tools')
  <2>1. CASE x = k
    BY <2>1
  <2>2. CASE x \in jobs /\ x.id # j.id
    BY <2>2 DEF UpdateTypes, UpdateTypeOK, JobsWait
  <2> QED
    BY <1>1, <2>1, <2>2
<1>3. admitted' \in [UpdateRequests -> Kinds \cup {"none"}]
  BY DEF UpdateTypes, UpdateTypeOK
<1> QED
  BY <1>1, <1>2, <1>3 DEF UpdateTypes, UpdateTypeOK, JobsWait, Command

LEMMA EndedTypes ==
    ASSUME UpdateTypes, NEW j \in jobs, FinishUpdate(j),
           tools' \subseteq (1 .. MaxJobs) \X Tools, \A t \in tools : t[1] # j.id => t \in tools',
           admitted' = admitted, restartPending' \in BOOLEAN, timer' \in BOOLEAN
    PROVE  UpdateTypes'
<1>1. /\ jobs' \subseteq JobType /\ \A x, y \in jobs' : x.id = y.id => x = y
      /\ \A x \in jobs' : x \in jobs /\ x.id # j.id
  BY JobEnds DEF FinishUpdate
<1>2. ASSUME NEW x \in jobs' PROVE x.pc <= Len(Commands(x.kind)) /\ (x.busy => x.pc > 0 /\ <<x.id, Command(x)>> \in tools')
  BY <1>1 DEF UpdateTypes, UpdateTypeOK, JobsWait
<1>3. flag' \in [Updaters -> BOOLEAN] /\ admitted' \in [UpdateRequests -> Kinds \cup {"none"}]
  BY DEF UpdateTypes, UpdateTypeOK, FinishUpdate
<1> QED
  BY <1>1, <1>2, <1>3 DEF UpdateTypes, UpdateTypeOK, JobsWait, Command

LEMMA JobStepTypes ==
    ASSUME UpdateTypes, NEW j \in jobs, JobStep(j)
    PROVE  UpdateTypes'
<1>0. /\ j \in JobType /\ j.id \in 1 .. MaxJobs /\ j.kind \in Kinds /\ j.pc \in Nat
      /\ j.pc <= Len(Commands(j.kind)) /\ Len(Commands(j.kind)) \in 1 .. 3
      /\ flag \in [Updaters -> BOOLEAN] /\ restartPending \in BOOLEAN /\ timer \in BOOLEAN
      /\ tools \subseteq (1 .. MaxJobs) \X Tools
  <2>1. /\ j \in JobType /\ j.pc <= Len(Commands(j.kind))
        /\ flag \in [Updaters -> BOOLEAN] /\ restartPending \in BOOLEAN /\ timer \in BOOLEAN
        /\ tools \subseteq (1 .. MaxJobs) \X Tools
    BY DEF UpdateTypes, UpdateTypeOK, JobsWait
  <2>2. j.id \in 1 .. MaxJobs /\ j.kind \in Kinds /\ j.pc \in Nat
    BY <2>1 DEF JobType
  <2>3. Len(Commands(j.kind)) \in 1 .. 3
    BY <2>2, CommandsOf
  <2> QED
    BY <2>1, <2>2, <2>3
<1>1. ASSUME Begin(j) PROVE UpdateTypes'
  <2> DEFINE k == [j EXCEPT !.pc = 1]
  <2>1. k \in JobType /\ k.id = j.id /\ k.kind = j.kind /\ k.pc = 1 /\ k.busy = j.busy
    BY <1>0 DEF JobType
  <2>2. ~j.busy
    BY <1>1 DEF Begin, UpdateTypes, JobsWait
  <2>3. Advance(j, k) /\ tools' = tools /\ admitted' = admitted /\ timer' = timer
    BY <1>1 DEF Begin
  <2>4. flag' \in [Updaters -> BOOLEAN] /\ restartPending' \in BOOLEAN
    BY <1>0, <1>1 DEF Begin, Updaters
  <2> HIDE DEF k
  <2>5. k.pc <= Len(Commands(k.kind))
    <3>1. Len(Commands(k.kind)) = Len(Commands(j.kind))
      BY <2>1
    <3>2. 1 <= Len(Commands(j.kind))
      BY <1>0, CommandsOf
    <3> QED
      BY <2>1, <3>1, <3>2
  <2> QED
    BY <1>0, <2>1, <2>2, <2>3, <2>4, <2>5, AdvancedTypes
<1>2. ASSUME Run(j) PROVE UpdateTypes'
  <2> DEFINE k == [j EXCEPT !.busy = TRUE]
  <2>1. k \in JobType /\ k.id = j.id /\ k.kind = j.kind /\ k.pc = j.pc
    BY <1>0 DEF JobType
  <2>2. Advance(j, k) /\ flag' = flag /\ admitted' = admitted /\ timer' = timer /\ k.pc > 0
    BY <1>2, <2>1 DEF Run
  <2>3. Command(k) = Command(j) /\ Command(j) \in Tools
    BY <1>2, <2>1, CommandOf DEF Run, Command
  <2>4. tools' = tools \cup {<<j.id, Command(j)>>} /\ restartPending' \in BOOLEAN
    BY <1>0, <1>2 DEF Run
  <2>5. k.pc <= Len(Commands(k.kind))
    BY <1>0, <2>1
  <2>6. tools' \subseteq (1 .. MaxJobs) \X Tools /\ (\A t \in tools : t \in tools') /\ <<k.id, Command(k)>> \in tools'
    BY <1>0, <2>1, <2>3, <2>4
  <2> HIDE DEF k
  <2> QED
    BY <1>0, <2>1, <2>2, <2>4, <2>5, <2>6, AdvancedTypes
<1>3. ASSUME NEW ok \in BOOLEAN, Continue(j, ok), admitted' = admitted, timer' \in BOOLEAN, Announced(j, ok),
             tools' \subseteq tools, \A t \in tools : t[1] # j.id => t \in tools'
      PROVE  UpdateTypes'
  <2>1. restartPending' \in BOOLEAN /\ tools' \subseteq (1 .. MaxJobs) \X Tools
    BY <1>0, <1>3 DEF Announced
  <2>2. CASE FinishUpdate(j)
    BY <1>3, <2>1, <2>2, EndedTypes
  <2>3. ASSUME NEW k \in JobType, MovedOn(j, k), Advance(j, k), flag' = flag PROVE UpdateTypes'
    BY <1>0, <1>3, <2>1, <2>3, AdvancedTypes DEF MovedOn
  <2> QED
    BY <1>3, <2>2, <2>3, ContinueMoves
<1>4. ASSUME NEW done \in BOOLEAN, NEW ok \in BOOLEAN, ToolEnds(j, done, ok) PROVE UpdateTypes'
  <2>1. timer' \in BOOLEAN
    BY <1>0, <1>4 DEF ToolEnds
  <2>2. tools' \subseteq tools /\ \A t \in tools : t[1] # j.id => t \in tools'
    BY <1>4 DEF ToolEnds
  <2> QED
    BY <1>3, <1>4, <2>1, <2>2 DEF ToolEnds
<1>5. ASSUME ToolTimesOut(j) PROVE UpdateTypes'
  BY <1>0, <1>3, <1>5 DEF ToolTimesOut
<1> QED
  BY <1>1, <1>2, <1>4, <1>5 DEF JobStep

LEMMA NewJobType ==
    ASSUME UpdateTypes, NEW r \in UpdateRequests, admitted[r] # "none", FreeIds # {}
    PROVE  LET id == CHOOSE id \in FreeIds : TRUE
               k == NewJob(id, admitted[r]) IN
           /\ k \in JobType /\ k.id = id /\ k.kind = admitted[r] /\ k.pc = 0 /\ ~k.busy
           /\ \A j \in jobs : j.id # id
           /\ \A t \in tools : t[1] # id
<1> DEFINE id == CHOOSE id \in FreeIds : TRUE
<1>1. id \in FreeIds
  OBVIOUS
<1>2. id \in 1 .. MaxJobs /\ (\A j \in jobs : j.id # id) /\ \A t \in tools : t[1] # id
  BY <1>1 DEF FreeIds
<1>3. admitted[r] \in Kinds
  BY DEF UpdateTypes, UpdateTypeOK
<1> HIDE DEF id
<1>4. NewJob(id, admitted[r]) \in JobType
  BY <1>2, <1>3 DEF NewJob, JobType
<1>5. LET k == NewJob(id, admitted[r]) IN k.id = id /\ k.kind = admitted[r] /\ k.pc = 0 /\ ~k.busy
  BY DEF NewJob
<1> QED
  BY <1>2, <1>4, <1>5 DEF id

LEMMA UpdateStepTypes == UpdateTypes /\ [UpdateNext]_updateVars => UpdateTypes'
<1> SUFFICES ASSUME UpdateTypes, [UpdateNext]_updateVars PROVE UpdateTypes'
  OBVIOUS
<1>1. CASE UNCHANGED updateVars
  BY <1>1 DEF updateVars, UpdateTypes, UpdateTypeOK, JobsWait, Command
<1>2. ASSUME NEW r \in UpdateRequests, Launch(r) PROVE UpdateTypes'
  <2> DEFINE id == CHOOSE id \in FreeIds : TRUE
             k == NewJob(id, admitted[r])
  <2>1. /\ k \in JobType /\ k.id = id /\ k.kind = admitted[r] /\ k.pc = 0 /\ ~k.busy
        /\ \A j \in jobs : j.id # id
    BY <1>2, NewJobType DEF Launch, Start
  <2>2. jobs' = jobs \cup {k}
    BY <1>2 DEF Launch, Start
  <2> HIDE DEF id, k
  <2>3. jobs' \subseteq JobType /\ \A x, y \in jobs' : x.id = y.id => x = y
    BY <2>1, <2>2 DEF UpdateTypes, UpdateTypeOK
  <2>4. Len(Commands(k.kind)) \in 1 .. 3
    BY <2>1, CommandsOf DEF JobType
  <2>5. k.pc <= Len(Commands(k.kind))
    BY <2>1, <2>4
  <2>6. tools' = tools /\ restartPending' = restartPending /\ timer' = timer
    BY <1>2 DEF Launch
  <2>7. ASSUME NEW x \in jobs' PROVE x.pc <= Len(Commands(x.kind)) /\ (x.busy => x.pc > 0 /\ <<x.id, Command(x)>> \in tools')
    BY <2>1, <2>2, <2>5, <2>6 DEF UpdateTypes, UpdateTypeOK, JobsWait
  <2>8. flag' \in [Updaters -> BOOLEAN] /\ admitted' \in [UpdateRequests -> Kinds \cup {"none"}]
    BY <1>2 DEF Launch, Start, UpdateTypes, UpdateTypeOK, Updaters
  <2> QED
    BY <2>3, <2>6, <2>7, <2>8 DEF UpdateTypes, UpdateTypeOK, JobsWait, Command
<1>3. ASSUME NEW r \in UpdateRequests, NEW kind \in Kinds, Admit(r, kind) PROVE UpdateTypes'
  BY <1>3 DEF Admit, UpdateTypes, UpdateTypeOK, JobsWait, Command
<1>4. ASSUME NEW t \in tools, StrayToolEnds(t) PROVE UpdateTypes'
  BY <1>4 DEF StrayToolEnds, UpdateTypes, UpdateTypeOK, JobsWait, Command
<1>5. CASE TimerFires \/ ServiceRestarts \/ Reboot
  <2>1. Restarts /\ timer' \in BOOLEAN
    BY <1>5 DEF TimerFires, ServiceRestarts, Reboot, UpdateTypes, UpdateTypeOK
  <2> QED
    BY <2>1 DEF Restarts, UpdateTypes, UpdateTypeOK, JobsWait
<1> QED
  BY <1>1, <1>2, <1>3, <1>4, <1>5, JobStepTypes DEF UpdateNext

LEMMA UpdateInitTypes == UpdateInit => UpdateTypes
BY DEF UpdateInit, UpdateTypes, UpdateTypeOK, JobsWait

(* The type of the state; update threads are told apart by their number, and   *)
(* one that waits for a command waits for one that is at work.                 *)
THEOREM UpdateTypeCorrect == UpdateSpec => []UpdateTypeOK
<1>1. UpdateTypes => UpdateTypeOK
  BY DEF UpdateTypes
<1> QED
  BY <1>1, UpdateInitTypes, UpdateStepTypes, PTL DEF UpdateSpec

(* The restart that is announced.  It comes or is being scheduled: the thread  *)
(* that schedules it is still there after any step of another.                 *)
Scheduling == \E j \in jobs : j.busy /\ Command(j) = "restart"

LEMMA SchedulingStays ==
    ASSUME UpdateTypes, Scheduling, NEW j \in jobs, ~(j.busy /\ Command(j) = "restart"),
           \A x \in jobs : x # j => x \in jobs'
    PROVE  Scheduling'
BY DEF Scheduling, Command

LEMMA JobStepAnnounces ==
    ASSUME UpdateTypes, AnnouncedRestartComes, NEW j \in jobs, JobStep(j)
    PROVE  AnnouncedRestartComes'
<1>0. j \in JobType /\ j.kind \in Kinds /\ (restartPending => timer \/ Scheduling)
  BY DEF UpdateTypes, UpdateTypeOK, JobType, AnnouncedRestartComes, Scheduling
<1>1. ASSUME Begin(j) PROVE AnnouncedRestartComes'
  <2>1. ~j.busy /\ \A x \in jobs : x # j => x \in jobs'
    BY <1>1 DEF Begin, Advance, UpdateTypes, JobsWait
  <2>2. restartPending' => restartPending /\ timer' = timer
    BY <1>1 DEF Begin
  <2> QED
    BY <1>0, <2>1, <2>2, SchedulingStays DEF AnnouncedRestartComes, Scheduling
<1>2. ASSUME Run(j) PROVE AnnouncedRestartComes'
  <2> DEFINE k == [j EXCEPT !.busy = TRUE]
  <2>1. k.busy /\ Command(k) = Command(j)
    BY <1>0 DEF JobType, Command
  <2>2. k \in jobs' /\ \A x \in jobs : x # j => x \in jobs'
    BY <1>2 DEF Run, Advance
  <2> HIDE DEF k
  <2>3. CASE Command(j) = "restart"
    BY <2>1, <2>2, <2>3 DEF AnnouncedRestartComes, Command
  <2>4. CASE Command(j) # "restart"
    <3>1. restartPending' = restartPending /\ timer' = timer
      BY <1>2, <2>4 DEF Run
    <3> QED
      BY <1>0, <2>2, <2>4, <3>1, SchedulingStays DEF AnnouncedRestartComes, Scheduling
  <2> QED
    BY <2>3, <2>4
<1>3. ASSUME NEW ok \in BOOLEAN, Continue(j, ok) PROVE \A x \in jobs : x # j => x \in jobs'
  <2>1. CASE FinishUpdate(j)
    BY <2>1 DEF FinishUpdate
  <2>2. ASSUME NEW k \in JobType, Advance(j, k) PROVE \A x \in jobs : x # j => x \in jobs'
    BY <2>2 DEF Advance
  <2> QED
    BY <1>3, <2>1, <2>2, ContinueMoves
<1>4. ASSUME NEW done \in BOOLEAN, NEW ok \in BOOLEAN, ToolEnds(j, done, ok) PROVE AnnouncedRestartComes'
  <2>1. \A x \in jobs : x # j => x \in jobs'
    BY <1>3, <1>4 DEF ToolEnds
  <2>2. CASE Command(j) = "restart"
    <3>1. restartPending' => ok /\ timer'
      BY <1>4, <2>2 DEF ToolEnds, Announced
    <3> QED
      BY <3>1 DEF AnnouncedRestartComes
  <2>3. CASE Command(j) # "restart"
    <3>1. restartPending' = restartPending /\ (timer => timer')
      BY <1>4, <2>3 DEF ToolEnds, Announced
    <3> QED
      BY <1>0, <2>1, <2>3, <3>1, SchedulingStays DEF AnnouncedRestartComes, Scheduling
  <2> QED
    BY <2>2, <2>3
<1>5. ASSUME ToolTimesOut(j) PROVE AnnouncedRestartComes'
  <2>1. \A x \in jobs : x # j => x \in jobs'
    BY <1>3, <1>5 DEF ToolTimesOut
  <2>2. Command(j) # "restart"
    BY <1>5, CommandOf DEF ToolTimesOut, GivesUp, UpdateTypes, JobsWait
  <2>3. restartPending' = restartPending /\ timer' = timer
    BY <1>5, <2>2 DEF ToolTimesOut, Announced
  <2> QED
    BY <1>0, <2>1, <2>2, <2>3, SchedulingStays DEF AnnouncedRestartComes, Scheduling
<1> QED
  BY <1>1, <1>2, <1>4, <1>5 DEF JobStep

LEMMA AnnouncedStep == UpdateTypes /\ AnnouncedRestartComes /\ [UpdateNext]_updateVars => AnnouncedRestartComes'
<1> SUFFICES ASSUME UpdateTypes, AnnouncedRestartComes, [UpdateNext]_updateVars PROVE AnnouncedRestartComes'
  OBVIOUS
<1>1. CASE UNCHANGED updateVars
  BY <1>1 DEF updateVars, AnnouncedRestartComes, Command
<1>2. ASSUME NEW r \in UpdateRequests, Launch(r) PROVE AnnouncedRestartComes'
  BY <1>2 DEF Launch, Start, AnnouncedRestartComes, Command
<1>3. ASSUME NEW r \in UpdateRequests, NEW kind \in Kinds, Admit(r, kind) PROVE AnnouncedRestartComes'
  BY <1>3 DEF Admit, AnnouncedRestartComes, Command
<1>4. ASSUME NEW t \in tools, StrayToolEnds(t) PROVE AnnouncedRestartComes'
  BY <1>4 DEF StrayToolEnds, AnnouncedRestartComes, Command
<1>5. CASE TimerFires \/ ServiceRestarts \/ Reboot
  BY <1>5 DEF TimerFires, ServiceRestarts, Reboot, Restarts, AnnouncedRestartComes
<1> QED
  BY <1>1, <1>2, <1>3, <1>4, <1>5, JobStepAnnounces DEF UpdateNext

(* The update page announces a restart (_fp_restart_pending in app.py): it is  *)
(* scheduled or being scheduled, whatever updates, time-outs and restarts of   *)
(* the service come in between.                                                *)
THEOREM RestartsComeAsAnnounced == UpdateSpec => []AnnouncedRestartComes
<1>1. UpdateInit => AnnouncedRestartComes
  BY DEF UpdateInit, AnnouncedRestartComes
<1> QED
  BY <1>1, UpdateInitTypes, UpdateStepTypes, AnnouncedStep, PTL DEF UpdateSpec

(* One request r at a time.  The page's flag covers its update from the launch *)
(* of the thread to its end, and a helper that checks or applies is waited for *)
(* however long it takes.                                                      *)
OwnJobs == {j \in jobs : j.kind # "packages"}

HelperInv(r) ==
    /\ \A j \in OwnJobs : flag["fleetpilot"] /\ \A k \in OwnJobs : k = j
    /\ admitted[r] \in Kinds \ {"packages"} => ~flag["fleetpilot"]
    /\ \A t \in tools : t[2] \in {"check", "apply"} => \E j \in jobs : j.busy /\ t = <<j.id, Command(j)>>

LEMMA WaitersAreOwn ==
    ASSUME UpdateTypes, NEW j \in jobs, j.busy, Command(j) \in {"check", "apply"}
    PROVE  j \in OwnJobs
BY CommandOf DEF UpdateTypes, JobsWait, OwnJobs

(* Whoever waits goes on waiting while another thread moves on.                *)
LEMMA HelpersAreAwaited ==
    ASSUME NEW r, HelperInv(r), NEW j \in jobs, \A x \in jobs : x # j => x \in jobs', NEW t \in tools,
           t[2] \in {"check", "apply"}, ~(j.busy /\ t = <<j.id, Command(j)>>)
    PROVE  \E x \in jobs' : x.busy /\ t = <<x.id, Command(x)>>
BY DEF HelperInv

LEMMA HelperContinues ==
    ASSUME UpdateTypes, NEW r, UpdateRequests = {r}, HelperInv(r), NEW j \in jobs, NEW ok \in BOOLEAN,
           Continue(j, ok), admitted' = admitted, tools' \subseteq tools,
           \A t \in tools' : t[2] \in {"check", "apply"} => ~(j.busy /\ t = <<j.id, Command(j)>>)
    PROVE  HelperInv(r)'
<1>0. flag \in [Updaters -> BOOLEAN] /\ j \in JobType
  BY DEF UpdateTypes, UpdateTypeOK
<1>1. CASE FinishUpdate(j)
  <2>1. jobs' = jobs \ {j} /\ OwnJobs' = OwnJobs \ {j}
    BY <1>1 DEF FinishUpdate, OwnJobs
  <2>2. CASE j.kind = "packages"
    <3>1. flag'["fleetpilot"] = flag["fleetpilot"] /\ j \notin OwnJobs
      BY <1>0, <1>1, <2>2 DEF FinishUpdate, UpdaterOf, Updaters, OwnJobs
    <3> QED
      BY <2>1, <3>1, HelpersAreAwaited DEF HelperInv, Command
  <2>3. CASE j.kind # "packages"
    <3>1. ~flag'["fleetpilot"] /\ j \in OwnJobs
      BY <1>0, <1>1, <2>3 DEF FinishUpdate, UpdaterOf, Updaters, OwnJobs
    <3>2. OwnJobs' = {}
      BY <2>1, <3>1 DEF HelperInv
    <3> QED
      BY <2>1, <3>1, <3>2, HelpersAreAwaited DEF HelperInv, Command
  <2> QED
    BY <2>2, <2>3
<1>2. ASSUME NEW k \in JobType, MovedOn(j, k), Advance(j, k), flag' = flag PROVE HelperInv(r)'
  <2>1. jobs' = (jobs \ {j}) \cup {k} /\ k.kind = j.kind
    BY <1>2 DEF Advance, MovedOn
  <2>2. /\ OwnJobs' \subseteq (OwnJobs \ {j}) \cup {k}
        /\ k \in OwnJobs' => j \in OwnJobs
    BY <2>1 DEF OwnJobs
  <2>3. \A x \in OwnJobs' : flag'["fleetpilot"] /\ \A y \in OwnJobs' : y = x
    BY <1>2, <2>2 DEF HelperInv
  <2>4. \A t \in tools' : t[2] \in {"check", "apply"} => \E x \in jobs' : x.busy /\ t = <<x.id, Command(x)>>
    BY <2>1, HelpersAreAwaited
  <2> QED
    BY <1>2, <2>3, <2>4 DEF HelperInv, Command
<1> QED
  BY <1>1, <1>2, ContinueMoves

LEMMA HelperJobStep ==
    ASSUME UpdateTypes, NEW r, UpdateRequests = {r}, HelperInv(r), NEW j \in jobs, JobStep(j)
    PROVE  HelperInv(r)'
<1>0. flag \in [Updaters -> BOOLEAN] /\ j \in JobType /\ tools \subseteq (1 .. MaxJobs) \X Tools
  BY DEF UpdateTypes, UpdateTypeOK, JobsWait
(* The thread takes a step of its own.                                         *)
<1>1. ASSUME NEW k \in JobType, Advance(j, k), k.kind = j.kind, admitted' = admitted,
             flag'["fleetpilot"] = flag["fleetpilot"], ~j.busy,
             \A t \in tools' : t \in tools \/ (k.busy /\ t = <<k.id, Command(k)>>)
      PROVE  HelperInv(r)'
  <2>1. jobs' = (jobs \ {j}) \cup {k}
    BY <1>1 DEF Advance
  <2>2. /\ OwnJobs' \subseteq (OwnJobs \ {j}) \cup {k}
        /\ k \in OwnJobs' => j \in OwnJobs
    BY <1>1, <2>1 DEF OwnJobs
  <2>3. \A x \in OwnJobs' : flag'["fleetpilot"] /\ \A y \in OwnJobs' : y = x
    BY <1>1, <2>2 DEF HelperInv
  <2>4. \A t \in tools' : t[2] \in {"check", "apply"} => \E x \in jobs' : x.busy /\ t = <<x.id, Command(x)>>
    BY <1>1, <2>1, HelpersAreAwaited
  <2> QED
    BY <1>1, <2>3, <2>4 DEF HelperInv, Command
<1>2. ASSUME Begin(j) PROVE HelperInv(r)'
  <2> DEFINE k == [j EXCEPT !.pc = 1]
  <2>1. k \in JobType /\ k.kind = j.kind
    BY <1>0 DEF JobType
  <2>2. ~j.busy
    BY <1>2 DEF Begin, UpdateTypes, JobsWait
  <2>3. Advance(j, k) /\ tools' = tools /\ admitted' = admitted
    BY <1>2 DEF Begin
  <2>4. flag'["fleetpilot"] = flag["fleetpilot"]
    BY <1>0, <1>2 DEF Begin, Updaters
  <2> HIDE DEF k
  <2> QED
    BY <1>1, <2>1, <2>2, <2>3, <2>4
<1>3. ASSUME Run(j) PROVE HelperInv(r)'
  <2> DEFINE k == [j EXCEPT !.busy = TRUE]
  <2>1. k \in JobType /\ k.kind = j.kind /\ k.id = j.id /\ k.busy /\ Command(k) = Command(j)
    BY <1>0 DEF JobType, Command
  <2>2. Advance(j, k) /\ tools' = tools \cup {<<j.id, Command(j)>>} /\ admitted' = admitted /\ flag' = flag /\ ~j.busy
    BY <1>3 DEF Run
  <2> HIDE DEF k
  <2> QED
    BY <1>1, <2>1, <2>2
<1>4. ASSUME NEW done \in BOOLEAN, NEW ok \in BOOLEAN, ToolEnds(j, done, ok) PROVE HelperInv(r)'
  <2>1. Continue(j, ok) /\ admitted' = admitted /\ tools' = tools \ {<<j.id, Command(j)>>}
    BY <1>4 DEF ToolEnds
  <2> QED
    BY <2>1, HelperContinues
<1>5. ASSUME ToolTimesOut(j) PROVE HelperInv(r)'
  <2>1. Continue(j, FALSE) /\ admitted' = admitted /\ tools' = tools /\ j.busy /\ j.kind = "packages"
    BY <1>5 DEF ToolTimesOut, GivesUp
  <2>2. Command(j) \notin {"check", "apply"}
    BY <2>1, WaitersAreOwn DEF OwnJobs
  <2>3. \A t \in tools' : t[2] \in {"check", "apply"} => t # <<j.id, Command(j)>>
    BY <2>2
  <2> QED
    BY <2>1, <2>3, HelperContinues
<1> QED
  BY <1>2, <1>3, <1>4, <1>5 DEF JobStep

(* "Update already running" (app.py): with requests that come one at a time    *)
(* there is never a second helper of root at work on the program directory,    *)
(* although a helper outlives its time-out and the service may restart.  Two   *)
(* requests that both find the flag clear would start two.                     *)
THEOREM OneHelperAtWork ==
    ASSUME NEW r, UpdateRequests = {r}
    PROVE  UpdateSpec => []OneHelper
<1>1. UpdateInit => HelperInv(r)
  BY DEF UpdateInit, HelperInv, OwnJobs, Updaters
<1>2. UpdateTypes /\ HelperInv(r) /\ [UpdateNext]_updateVars => HelperInv(r)'
  <2> SUFFICES ASSUME UpdateTypes, HelperInv(r), [UpdateNext]_updateVars PROVE HelperInv(r)'
    OBVIOUS
  <2>0. flag \in [Updaters -> BOOLEAN] /\ admitted \in [UpdateRequests -> Kinds \cup {"none"}]
    BY DEF UpdateTypes, UpdateTypeOK
  <2>1. CASE UNCHANGED updateVars
    BY <2>1 DEF updateVars, HelperInv, OwnJobs, Command
  <2>2. ASSUME Launch(r) PROVE HelperInv(r)'
    <3> DEFINE k == NewJob(CHOOSE id \in FreeIds : TRUE, admitted[r])
    <3>1. k.kind = admitted[r] /\ jobs' = jobs \cup {k} /\ admitted' = [admitted EXCEPT ![r] = "none"] /\ tools' = tools
      BY <2>2, NewJobType DEF Launch, Start
    <3> HIDE DEF k
    <3>2. admitted'[r] = "none" /\ "none" \notin Kinds
      BY <2>0, <3>1 DEF Kinds
    <3>3. CASE admitted[r] = "packages"
      BY <2>2, <3>1, <3>2, <3>3 DEF Launch, HelperInv, OwnJobs, Command
    <3>4. CASE admitted[r] # "packages"
      <4>1. OwnJobs = {} /\ flag'["fleetpilot"]
        BY <2>0, <2>2, <3>4 DEF Launch, HelperInv, Updaters
      <4>2. OwnJobs' = {k}
        BY <3>1, <3>4, <4>1 DEF OwnJobs
      <4> QED
        BY <3>1, <3>2, <4>1, <4>2 DEF HelperInv, Command
    <3> QED
      BY <3>3, <3>4
  <2>3. ASSUME NEW kind \in Kinds, Admit(r, kind) PROVE HelperInv(r)'
    BY <2>0, <2>3 DEF Admit, HelperInv, OwnJobs, Command, UpdaterOf
  <2>4. ASSUME NEW t \in tools, StrayToolEnds(t) PROVE HelperInv(r)'
    BY <2>4 DEF StrayToolEnds, HelperInv, OwnJobs, Command
  <2>5. CASE TimerFires \/ ServiceRestarts \/ Reboot
    BY <2>5 DEF TimerFires, ServiceRestarts, Reboot, Restarts, HelperInv, OwnJobs, Updaters, Kinds
  <2> QED
    BY <2>1, <2>2, <2>3, <2>4, <2>5, HelperJobStep DEF UpdateNext
<1>3. UpdateTypes /\ HelperInv(r) => OneHelper
  <2> SUFFICES ASSUME UpdateTypes, HelperInv(r) PROVE OneHelper
    OBVIOUS
  <2> DEFINE S == {t \in tools : t[2] \in {"apply", "check"}}
  <2>1. ASSUME NEW t \in S, NEW u \in S PROVE t = u
    <3>1. PICK j \in jobs : j.busy /\ t = <<j.id, Command(j)>>
      BY <2>1 DEF HelperInv
    <3>2. PICK k \in jobs : k.busy /\ u = <<k.id, Command(k)>>
      BY <2>1 DEF HelperInv
    <3>3. j \in OwnJobs /\ k \in OwnJobs
      BY <2>1, <3>1, <3>2, WaitersAreOwn
    <3> QED
      BY <3>1, <3>2, <3>3 DEF HelperInv
  <2> HIDE DEF S
  <2>2. S = {} \/ \E t : S = {t}
    BY <2>1
  <2>3. Cardinality(S) = 0 \/ Cardinality(S) = 1
    BY <2>2, FS_EmptySet, FS_Singleton
  <2> QED
    BY <2>3 DEF S, OneHelper
<1> QED
  BY <1>1, <1>2, <1>3, UpdateInitTypes, UpdateStepTypes, PTL DEF UpdateSpec

-----------------------------------------------------------------------------
(* The reverse proxy, for a single request p.  While a request is under way    *)
(* nothing was told yet.  Before its first apply reaches the configuration     *)
(* that is the one it found; later it is that or the registry's, and the       *)
(* registry is the one it found, unless a step took too long.                  *)
Stages == {"first", "rollback", "again"}
ApplySteps == {"loads", "checks", "replaces", "reloads"}
ChangeType == [pc : ApplySteps \cup {"none", "saves"}, several : BOOLEAN, todo : SUBSET RouteNames,
               previous : SUBSET RouteNames, stage : Stages, slow : BOOLEAN, late : BOOLEAN,
               routes : SUBSET RouteNames, told : {"nothing", "applied", "unchanged"},
               was : (SUBSET RouteNames) \cup {PackageConfig}]

RouteTypes ==
    /\ registry \in SUBSET RouteNames /\ config \in (SUBSET RouteNames) \cup {PackageConfig}
    /\ backup \in (SUBSET RouteNames) \cup {PackageConfig}
    /\ change \in [ProxyRequests -> ChangeType]

ToldAtTheEnd(q) == q.pc # "none" => q.told = "nothing"
SlowIsLate(q) == q.slow => q.late
SavingFirst(q) == q.pc = "saves" =>
    /\ q.stage = "first" /\ ~q.late /\ config = q.was
    /\ ~q.several => registry = q.previous /\ \E x \in q.todo : q.todo = {x}
FirstApply(q) == q.stage = "first" /\ q.pc \in ApplySteps =>
    IF q.pc = "reloads" THEN backup = q.was ELSE config = q.was
LaterApply(q) == q.stage # "first" /\ q.pc \in ApplySteps =>
    /\ registry = q.previous
    /\ config \in {q.was, registry} \/ q.late
    /\ q.pc = "reloads" => backup \in {q.was, registry} \/ q.late
HelperReads(q) ==
    /\ q.pc \in {"checks", "replaces"} => q.routes = registry
    /\ q.pc = "reloads" => config = registry
Told(q) ==
    /\ q.told = "applied" => config = registry /\ running = registry
    /\ q.told = "unchanged" => registry = q.previous
    /\ q.told = "unchanged" /\ ~q.late => config \in {q.was, registry}

ChangeInv(q) == ToldAtTheEnd(q) /\ SlowIsLate(q) /\ SavingFirst(q) /\ FirstApply(q) /\ LaterApply(q) /\ HelperReads(q) /\ Told(q)

ProxyInv == RouteTypes /\ \A p \in ProxyRequests : ChangeInv(change[p])

LEMMA NoChangeType ==
    /\ NoProxyChange \in ChangeType
    /\ NoProxyChange.pc = "none" /\ NoProxyChange.told = "nothing" /\ ~NoProxyChange.slow /\ ~NoProxyChange.late
    /\ NoProxyChange.stage = "first"
<1>0. "first" \in Stages
  BY DEF Stages
<1> HIDE DEF PackageConfig, Stages, ApplySteps
<1>1. "none" \in ApplySteps \cup {"none", "saves"} /\ "nothing" \in {"nothing", "applied", "unchanged"}
  OBVIOUS
<1>2. {} \in SUBSET RouteNames
  OBVIOUS
<1>3. PackageConfig \in (SUBSET RouteNames) \cup {PackageConfig}
  OBVIOUS
<1>4. NoProxyChange \in ChangeType
  BY ONLY <1>0, <1>1, <1>2, <1>3 DEF NoProxyChange, ChangeType
<1> QED
  BY <1>4 DEF NoProxyChange

LEMMA RestingHolds == ChangeInv(NoProxyChange)
BY NoChangeType DEF ChangeInv, ToldAtTheEnd, SlowIsLate, SavingFirst, FirstApply, LaterApply, HelperReads, Told, ApplySteps

(* How a request ends, and how it begins an apply: the fields it keeps.        *)
LEMMA AnsweredFields ==
    ASSUME RouteTypes, NEW p \in ProxyRequests, NEW answer \in {"applied", "unchanged"}, AnswersWith(p, answer)
    PROVE  /\ change' \in [ProxyRequests -> ChangeType]
           /\ change'[p].pc = "none" /\ change'[p].told = answer /\ change'[p].previous = change[p].previous
           /\ change'[p].was = change[p].was /\ change'[p].late = change[p].late
           /\ change'[p].slow = change[p].slow
<1> DEFINE r == [change[p] EXCEPT !.pc = "none", !.told = answer]
<1>0. change \in [ProxyRequests -> ChangeType] /\ change[p] \in ChangeType
  BY DEF RouteTypes
<1>1. r \in ChangeType
  BY <1>0 DEF ChangeType
<1>2. /\ r.pc = "none" /\ r.told = answer /\ r.previous = change[p].previous
      /\ r.was = change[p].was /\ r.late = change[p].late /\ r.slow = change[p].slow
  BY <1>0 DEF ChangeType
<1>3. change' = [change EXCEPT ![p] = r]
  BY DEF AnswersWith
<1> HIDE DEF r
<1> QED
  BY <1>0, <1>1, <1>2, <1>3

LEMMA AppliesFields ==
    ASSUME RouteTypes, NEW p \in ProxyRequests, NEW stage \in Stages, Applies(p, stage)
    PROVE  /\ change' \in [ProxyRequests -> ChangeType]
           /\ change'[p].pc = "loads" /\ change'[p].stage = stage /\ ~change'[p].slow
           /\ change'[p].told = change[p].told /\ change'[p].previous = change[p].previous
           /\ change'[p].was = change[p].was /\ change'[p].late = change[p].late
<1> DEFINE r == [change[p] EXCEPT !.pc = "loads", !.stage = stage, !.slow = FALSE]
<1>0. change \in [ProxyRequests -> ChangeType] /\ change[p] \in ChangeType
  BY DEF RouteTypes
<1>1. r \in ChangeType
  BY <1>0 DEF ChangeType, ApplySteps
<1>2. /\ r.pc = "loads" /\ r.stage = stage /\ ~r.slow /\ r.told = change[p].told /\ r.previous = change[p].previous
      /\ r.was = change[p].was /\ r.late = change[p].late
  BY <1>0 DEF ChangeType
<1>3. change' = [change EXCEPT ![p] = r]
  BY DEF Applies
<1> HIDE DEF r
<1> QED
  BY <1>0, <1>1, <1>2, <1>3

(* What an apply that ends leaves behind, by what the configuration is then:   *)
(* the helper has loaded the registry's routes, or nothing, or only the kept   *)
(* configuration again, unless a step took too long.                           *)
LEMMA AppliedAnswers ==
    ASSUME ProxyInv, NEW p, ProxyRequests = {p}, change[p].pc \in ApplySteps, ApplyEnds(p, TRUE),
           config' = config, backup' = backup, running' = config, config = registry
    PROVE  ProxyInv'
<1> DEFINE q == change[p]
           r == change'[p]
<1>0. p \in ProxyRequests /\ RouteTypes /\ q \in ChangeType /\ ChangeInv(q) /\ q.stage \in Stages
  BY DEF ProxyInv, RouteTypes, ChangeType
<1>1. SUFFICES change' \in [ProxyRequests -> ChangeType] /\ registry' \in SUBSET RouteNames /\ ChangeInv(change[p])'
  BY <1>0 DEF ProxyInv, RouteTypes
<1>2. CASE ~q.slow /\ q.stage = "first"
  <2>1. AnswersWith(p, "applied") /\ registry' = registry
    BY <1>2 DEF ApplyEnds
  <2> QED
    BY <1>0, <2>1, AnsweredFields
       DEF RouteTypes, ChangeInv, ToldAtTheEnd, SlowIsLate, SavingFirst, FirstApply, LaterApply, HelperReads, Told, ApplySteps
<1>3. CASE (q.stage = "rollback" /\ ~q.several) \/ q.stage = "again"
  <2>1. AnswersWith(p, "unchanged") /\ registry' = registry
    BY <1>3 DEF ApplyEnds, RollsBack
  <2> QED
    BY <1>0, <1>3, <2>1, AnsweredFields
       DEF RouteTypes, ChangeInv, ToldAtTheEnd, SlowIsLate, SavingFirst, FirstApply, LaterApply, HelperReads, Told, ApplySteps
<1>4. CASE q.stage = "rollback" /\ q.several
  <2>1. Applies(p, "again") /\ registry' = q.previous
    BY <1>4 DEF ApplyEnds, RollsBack
  <2> QED
    BY <1>0, <1>4, <2>1, AppliesFields
       DEF RouteTypes, Stages, ChangeType, ChangeInv, ToldAtTheEnd, SlowIsLate, SavingFirst, FirstApply, LaterApply, HelperReads, Told, ApplySteps
<1>5. CASE q.slow /\ q.stage = "first"
  <2>1. Applies(p, "rollback") /\ registry' = q.previous
    BY <1>5 DEF ApplyEnds, RollsBack
  <2> QED
    BY <1>0, <1>5, <2>1, AppliesFields
       DEF RouteTypes, Stages, ChangeType, ChangeInv, ToldAtTheEnd, SlowIsLate, SavingFirst, FirstApply, LaterApply, HelperReads, Told, ApplySteps
<1> QED
  BY <1>0, <1>2, <1>3, <1>4, <1>5 DEF ChangeType, Stages

LEMMA FailureRollsBack ==
    ASSUME ProxyInv, NEW p, ProxyRequests = {p}, change[p].pc \in ApplySteps, ApplyEnds(p, FALSE), backup' = backup,
           config' \in (SUBSET RouteNames) \cup {PackageConfig},
           \/ change[p].late
           \/ change[p].stage = "first" /\ config' = change[p].was
           \/ change[p].stage # "first" /\ config' \in {change[p].was, registry}
    PROVE  ProxyInv'
<1> DEFINE q == change[p]
<1>0. p \in ProxyRequests /\ RouteTypes /\ q \in ChangeType /\ ChangeInv(q) /\ q.stage \in Stages
  BY DEF ProxyInv, RouteTypes, ChangeType
<1>1. SUFFICES change' \in [ProxyRequests -> ChangeType] /\ registry' \in SUBSET RouteNames /\ ChangeInv(change[p])'
  BY <1>0 DEF ProxyInv, RouteTypes
<1>2. CASE q.stage = "first"
  <2>1. Applies(p, "rollback") /\ registry' = q.previous
    BY <1>2 DEF ApplyEnds, RollsBack
  <2> QED
    BY <1>0, <1>2, <2>1, AppliesFields
       DEF RouteTypes, Stages, ChangeType, ChangeInv, ToldAtTheEnd, SlowIsLate, SavingFirst, FirstApply, LaterApply, HelperReads, Told, ApplySteps
<1>3. CASE q.stage = "rollback" /\ q.several
  <2>1. Applies(p, "again") /\ registry' = q.previous
    BY <1>3 DEF ApplyEnds, RollsBack
  <2> QED
    BY <1>0, <1>3, <2>1, AppliesFields
       DEF RouteTypes, Stages, ChangeType, ChangeInv, ToldAtTheEnd, SlowIsLate, SavingFirst, FirstApply, LaterApply, HelperReads, Told, ApplySteps
<1>4. CASE (q.stage = "rollback" /\ ~q.several) \/ q.stage = "again"
  <2>1. AnswersWith(p, "unchanged") /\ registry' = registry
    BY <1>4 DEF ApplyEnds, RollsBack
  <2> QED
    BY <1>0, <1>4, <2>1, AnsweredFields
       DEF RouteTypes, ChangeInv, ToldAtTheEnd, SlowIsLate, SavingFirst, FirstApply, LaterApply, HelperReads, Told, ApplySteps
<1> QED
  BY <1>0, <1>2, <1>3, <1>4 DEF Stages

LEMMA ProxyStepHolds ==
    ASSUME ProxyInv, NEW p, ProxyRequests = {p}, ProxyStep(p)
    PROVE  ProxyInv'
<1> DEFINE q == change[p]
<1>0. p \in ProxyRequests /\ RouteTypes /\ q \in ChangeType /\ ChangeInv(q)
  BY DEF ProxyInv, RouteTypes
(* A step after which the one request is as it should be.                      *)
<1>1. ASSUME change' \in [ProxyRequests -> ChangeType], ChangeInv(change[p])', registry' \in SUBSET RouteNames,
             config' \in (SUBSET RouteNames) \cup {PackageConfig}, backup' \in (SUBSET RouteNames) \cup {PackageConfig}
      PROVE  ProxyInv'
  BY <1>1 DEF ProxyInv, RouteTypes
<1>2. ASSUME TakesLong(p) PROVE ProxyInv'
  <2> DEFINE r == [q EXCEPT !.slow = TRUE, !.late = TRUE]
  <2>1. r \in ChangeType
    BY <1>0 DEF ChangeType, ApplySteps
  <2>2. /\ r.slow = TRUE /\ r.late = TRUE
        /\ r.pc = q.pc /\ r.several = q.several /\ r.todo = q.todo /\ r.previous = q.previous
        /\ r.stage = q.stage /\ r.routes = q.routes /\ r.told = q.told /\ r.was = q.was
    BY <1>0 DEF ChangeType
  <2>3. change' = [change EXCEPT ![p] = r]
    BY <1>2 DEF TakesLong
  <2> HIDE DEF r
  <2>4. change' \in [ProxyRequests -> ChangeType] /\ change'[p] = r
    BY <1>0, <2>1, <2>3 DEF RouteTypes
  <2>5. ChangeInv(change[p])'
    BY <1>0, <1>2, <2>2, <2>4 DEF TakesLong, ChangeInv, ToldAtTheEnd, SlowIsLate, SavingFirst, FirstApply, LaterApply, HelperReads, Told, ApplySteps
  <2> QED
    BY <1>0, <1>1, <1>2, <2>4, <2>5 DEF TakesLong, RouteTypes
<1>3. ASSUME LoadsRoutes(p) PROVE ProxyInv'
  <2> DEFINE r == [q EXCEPT !.pc = "checks", !.routes = registry]
  <2>1. r \in ChangeType /\ registry \in SUBSET RouteNames
    BY <1>0 DEF ChangeType, ApplySteps, RouteTypes
  <2>2. /\ r.pc = "checks" /\ r.routes = registry
        /\ r.several = q.several /\ r.todo = q.todo /\ r.previous = q.previous /\ r.stage = q.stage
        /\ r.slow = q.slow /\ r.late = q.late /\ r.told = q.told /\ r.was = q.was
    BY <1>0 DEF ChangeType
  <2>3. change' = [change EXCEPT ![p] = r]
    BY <1>3 DEF LoadsRoutes
  <2> HIDE DEF r
  <2>4. change' \in [ProxyRequests -> ChangeType] /\ change'[p] = r
    BY <1>0, <2>1, <2>3 DEF RouteTypes
  <2>5. ChangeInv(change[p])'
    BY <1>0, <1>3, <2>2, <2>4 DEF LoadsRoutes, ChangeInv, ToldAtTheEnd, SlowIsLate, SavingFirst, FirstApply, LaterApply, HelperReads, Told, ApplySteps
  <2> QED
    BY <1>0, <1>1, <1>3, <2>4, <2>5 DEF LoadsRoutes, RouteTypes
<1>4. ASSUME Checks(p) PROVE ProxyInv'
  <2> DEFINE r == [q EXCEPT !.pc = "replaces"]
  <2>1. r \in ChangeType
    BY <1>0 DEF ChangeType, ApplySteps
  <2>2. /\ r.pc = "replaces"
        /\ r.several = q.several /\ r.todo = q.todo /\ r.previous = q.previous /\ r.stage = q.stage
        /\ r.slow = q.slow /\ r.late = q.late /\ r.routes = q.routes /\ r.told = q.told
        /\ r.was = q.was
    BY <1>0 DEF ChangeType
  <2>3. change' = [change EXCEPT ![p] = r]
    BY <1>4 DEF Checks
  <2> HIDE DEF r
  <2>4. change' \in [ProxyRequests -> ChangeType] /\ change'[p] = r
    BY <1>0, <2>1, <2>3 DEF RouteTypes
  <2>5. ChangeInv(change[p])'
    BY <1>0, <1>4, <2>2, <2>4 DEF Checks, ChangeInv, ToldAtTheEnd, SlowIsLate, SavingFirst, FirstApply, LaterApply, HelperReads, Told, ApplySteps
  <2> QED
    BY <1>0, <1>1, <1>4, <2>4, <2>5 DEF Checks, RouteTypes
<1>5. ASSUME Replaces(p) PROVE ProxyInv'
  <2> DEFINE r == [q EXCEPT !.pc = "reloads"]
  <2>1. r \in ChangeType
    BY <1>0 DEF ChangeType, ApplySteps
  <2>2. /\ r.pc = "reloads"
        /\ r.several = q.several /\ r.todo = q.todo /\ r.previous = q.previous /\ r.stage = q.stage
        /\ r.slow = q.slow /\ r.late = q.late /\ r.routes = q.routes /\ r.told = q.told
        /\ r.was = q.was
    BY <1>0 DEF ChangeType
  <2>3. change' = [change EXCEPT ![p] = r]
    BY <1>5 DEF Replaces
  <2> HIDE DEF r
  <2>4. change' \in [ProxyRequests -> ChangeType] /\ change'[p] = r
    BY <1>0, <2>1, <2>3 DEF RouteTypes
  <2>5. ChangeInv(change[p])'
    BY <1>0, <1>5, <2>2, <2>4 DEF Replaces, ChangeInv, ToldAtTheEnd, SlowIsLate, SavingFirst, FirstApply, LaterApply, HelperReads, Told, ApplySteps
  <2> QED
    BY <1>0, <1>1, <1>5, <2>4, <2>5 DEF Replaces, RouteTypes, ChangeType
<1>6. ASSUME HelperRefused(p) \/ CheckFails(p) PROVE ProxyInv'
  <2>1. /\ q.pc \in {"loads", "checks"} /\ ApplyEnds(p, FALSE) /\ backup' = backup /\ config' = config
    BY <1>6 DEF HelperRefused, CheckFails
  <2>2. \/ q.late
        \/ q.stage = "first" /\ config' = q.was
        \/ q.stage # "first" /\ config' \in {q.was, registry}
    <3>1. q.stage = "first" => config = q.was
      BY <1>0, <2>1 DEF ChangeInv, FirstApply, ApplySteps
    <3>2. q.stage # "first" => config \in {q.was, registry} \/ q.late
      BY <1>0, <2>1 DEF ChangeInv, LaterApply, ApplySteps
    <3> QED
      BY <2>1, <3>1, <3>2
  <2> QED
    BY <1>0, <2>1, <2>2, FailureRollsBack DEF RouteTypes, ApplySteps
<1>7. ASSUME Reloads(p) PROVE ProxyInv'
  <2>1. q.pc = "reloads" /\ config = registry
    BY <1>0, <1>7 DEF Reloads, ChangeInv, HelperReads
  <2> QED
    BY <1>7, <2>1, AppliedAnswers DEF Reloads, ApplySteps
<1>8. ASSUME ReloadFails(p) PROVE ProxyInv'
  <2>1. /\ q.pc = "reloads" /\ ApplyEnds(p, FALSE) /\ backup' = backup /\ config' = backup
    BY <1>8 DEF ReloadFails, PutsBack
  <2>2. \/ q.late
        \/ q.stage = "first" /\ config' = q.was
        \/ q.stage # "first" /\ config' \in {q.was, registry}
    <3>1. q.stage = "first" => backup = q.was
      BY <1>0, <2>1 DEF ChangeInv, FirstApply, ApplySteps
    <3>2. q.stage # "first" => backup \in {q.was, registry} \/ q.late
      BY <1>0, <2>1 DEF ChangeInv, LaterApply, ApplySteps
    <3> QED
      BY <2>1, <3>1, <3>2
  <2> QED
    BY <1>0, <2>1, <2>2, FailureRollsBack DEF RouteTypes, ApplySteps
<1>9. ASSUME ReloadHangs(p) PROVE ProxyInv'
  BY <1>0, <1>9, FailureRollsBack DEF ReloadHangs, RouteTypes, ApplySteps
<1>10. ASSUME NEW x \in RouteNames, SavesRoute(p, x) PROVE ProxyInv'
  <2>1. CASE x \notin registry
    <3> DEFINE r == [q EXCEPT !.todo = @ \ {x}, !.pc = IF q.todo = {x} THEN "loads" ELSE @]
    <3>1. r \in ChangeType
      BY <1>0 DEF ChangeType, ApplySteps
    <3>2. /\ r.todo = q.todo \ {x} /\ r.pc = IF q.todo = {x} THEN "loads" ELSE q.pc
          /\ r.several = q.several /\ r.previous = q.previous /\ r.stage = q.stage
          /\ r.slow = q.slow /\ r.late = q.late /\ r.routes = q.routes /\ r.told = q.told /\ r.was = q.was
      BY <1>0 DEF ChangeType
    <3>3. change' = [change EXCEPT ![p] = r]
      BY <1>10, <2>1 DEF SavesRoute
    <3> HIDE DEF r
    <3>4. change' \in [ProxyRequests -> ChangeType] /\ change'[p] = r
      BY <1>0, <3>1, <3>3 DEF RouteTypes
    <3>5. ChangeInv(change[p])'
      BY <1>0, <1>10, <2>1, <3>2, <3>4 DEF SavesRoute, ChangeInv, ToldAtTheEnd, SlowIsLate, SavingFirst, FirstApply, LaterApply, HelperReads, Told, ApplySteps
    <3>6. registry' \in SUBSET RouteNames
      BY <1>0, <1>10, <2>1 DEF SavesRoute, RouteTypes
    <3> QED
      BY <1>0, <1>1, <1>10, <3>4, <3>5, <3>6 DEF SavesRoute, RouteTypes
  <2>2. CASE x \in registry /\ q.several
    <3>1. registry' = q.previous /\ Applies(p, "again") /\ "again" \in Stages
      BY <1>10, <2>2 DEF SavesRoute, Stages
    <3>2. change' \in [ProxyRequests -> ChangeType] /\ ChangeInv(change[p])'
      BY <1>0, <1>10, <3>1, AppliesFields DEF SavesRoute, ChangeInv, ToldAtTheEnd, SlowIsLate, SavingFirst, FirstApply, LaterApply, HelperReads, Told, ApplySteps
    <3> QED
      BY <1>0, <1>10, <3>1, <3>2 DEF ProxyInv, RouteTypes, SavesRoute, ChangeType
  <2>3. CASE x \in registry /\ ~q.several
    <3>1. registry' = registry /\ AnswersWith(p, "unchanged")
      BY <1>10, <2>3 DEF SavesRoute
    <3>2. change' \in [ProxyRequests -> ChangeType] /\ ChangeInv(change[p])'
      BY <1>0, <1>10, <2>3, <3>1, AnsweredFields DEF SavesRoute, ChangeInv, ToldAtTheEnd, SlowIsLate, SavingFirst, FirstApply, LaterApply, HelperReads, Told, ApplySteps
    <3> QED
      BY <1>0, <1>10, <3>1, <3>2 DEF ProxyInv, RouteTypes, SavesRoute
  <2> QED
    BY <2>1, <2>2, <2>3
<1>11. ASSUME NEW several \in BOOLEAN, NEW names \in SUBSET RouteNames
       PROVE  LET r == Requesting(p, several, names) IN
              /\ r \in ChangeType /\ r.pc = "saves" /\ r.several = several /\ r.todo = names /\ r.previous = registry
              /\ r.was = config /\ r.told = "nothing" /\ r.stage = "first" /\ ~r.slow /\ ~r.late
  BY <1>0, NoChangeType DEF Requesting, ChangeType, RouteTypes
<1>12. ASSUME NEW x \in RouteNames, RemovesRoute(p, x) PROVE ProxyInv'
  <2> DEFINE b == Requesting(p, FALSE, {})
             r == [b EXCEPT !.pc = "loads"]
  <2>0. {} \in SUBSET RouteNames /\ FALSE \in BOOLEAN
    OBVIOUS
  <2>1. /\ b \in ChangeType /\ b.previous = registry /\ b.was = config /\ b.told = "nothing"
        /\ b.stage = "first" /\ ~b.slow /\ ~b.late
    BY <1>11, <2>0
  <2>2. change' = [change EXCEPT ![p] = r] /\ registry' = registry \ {x} /\ config' = config /\ backup' = backup
    BY <1>12 DEF RemovesRoute
  <2> HIDE DEF b
  <2>3. /\ r \in ChangeType /\ r.pc = "loads" /\ r.previous = registry /\ r.was = config /\ r.told = "nothing"
        /\ r.stage = "first" /\ ~r.slow /\ ~r.late
    BY <2>1 DEF ChangeType, ApplySteps
  <2> HIDE DEF r
  <2>4. change' \in [ProxyRequests -> ChangeType] /\ change'[p] = r
    BY <1>0, <2>2, <2>3 DEF RouteTypes
  <2>5. ChangeInv(change[p])'
    BY <2>2, <2>3, <2>4 DEF ChangeInv, ToldAtTheEnd, SlowIsLate, SavingFirst, FirstApply, LaterApply, HelperReads, Told, ApplySteps
  <2> QED
    BY <1>0, <1>1, <2>2, <2>4, <2>5 DEF RouteTypes
<1>13. ASSUME NEW several \in BOOLEAN, NEW names \in SUBSET RouteNames, AddsRoutes(p, several, names) PROVE ProxyInv'
  <2> DEFINE r == Requesting(p, several, names)
  <2>1. /\ r \in ChangeType /\ r.pc = "saves" /\ r.several = several /\ r.todo = names /\ r.previous = registry
        /\ r.was = config /\ r.told = "nothing" /\ r.stage = "first" /\ ~r.slow /\ ~r.late
    BY <1>11
  <2>2. /\ change' = [change EXCEPT ![p] = r] /\ registry' = registry /\ config' = config /\ backup' = backup
        /\ ~several => \E x \in names : names = {x}
    BY <1>13 DEF AddsRoutes
  <2> HIDE DEF r
  <2>3. change' \in [ProxyRequests -> ChangeType] /\ change'[p] = r
    BY <1>0, <2>1, <2>2 DEF RouteTypes
  <2>4. ChangeInv(change[p])'
    BY <2>1, <2>2, <2>3 DEF ChangeInv, ToldAtTheEnd, SlowIsLate, SavingFirst, FirstApply, LaterApply, HelperReads, Told, ApplySteps
  <2> QED
    BY <1>0, <1>1, <2>2, <2>3, <2>4 DEF RouteTypes
<1> QED
  BY <1>2, <1>3, <1>4, <1>5, <1>6, <1>7, <1>8, <1>9, <1>10, <1>12, <1>13 DEF ProxyStep

(* What a request that changes the proxy's routes answers is so                *)
(* (_apply_proxy_routes_or_rollback in app.py and scripts/fleetpilot-proxy-    *)
(* apply), for any set of routes and whichever step of the helper fails, as    *)
(* long as requests come one at a time: overlapping ones undo each other.      *)
THEOREM ProxyAnswersAreTrue ==
    ASSUME NEW p, ProxyRequests = {p}
    PROVE  ProxySpec => []AnswersAreTrue
<1>1. ProxyInit => ProxyInv
  BY NoChangeType, RestingHolds DEF ProxyInit, ProxyInv, RouteTypes, ChangeInv, ToldAtTheEnd, SlowIsLate, SavingFirst, FirstApply, LaterApply, HelperReads, Told, ApplySteps
<1>2. ProxyInv /\ [ProxyNext]_proxyVars => ProxyInv'
  <2> SUFFICES ASSUME ProxyInv, [ProxyNext]_proxyVars PROVE ProxyInv'
    OBVIOUS
  <2>1. CASE UNCHANGED proxyVars
    BY <2>1 DEF proxyVars, ProxyInv, RouteTypes, ChangeInv, ToldAtTheEnd, SlowIsLate, SavingFirst, FirstApply, LaterApply, HelperReads, Told
  <2>2. CASE ProxyRestart
    <3>1. change'[p] = NoProxyChange /\ change' \in [ProxyRequests -> ChangeType]
      BY <2>2, NoChangeType DEF ProxyRestart
    <3>2. ChangeInv(change[p])'
      BY <3>1, NoChangeType DEF ChangeInv, ToldAtTheEnd, SlowIsLate, SavingFirst, FirstApply, LaterApply, HelperReads, Told, ApplySteps
    <3> QED
      BY <2>2, <3>1, <3>2 DEF ProxyInv, RouteTypes, ProxyRestart
  <2> QED
    BY <2>1, <2>2, ProxyStepHolds DEF ProxyNext
<1>3. ProxyInv => AnswersAreTrue
  BY DEF ProxyInv, ChangeInv, Told, AnswersAreTrue
<1> QED
  BY <1>1, <1>2, <1>3, PTL DEF ProxySpec

(* Of requests that come one at a time, both promises at once: two updates of  *)
(* FleetPilot are never at work, and proxy routes are as was answered.         *)
THEOREM AloneRequestsAreRight ==
    ASSUME NEW r, UpdateRequests = {r}, NEW p, ProxyRequests = {p}
    PROVE  UpdateSpec /\ ProxySpec => []AloneIsRight
<1>1. UpdateSpec => []OneHelper
  BY OneHelperAtWork
<1>2. ProxySpec => []AnswersAreTrue
  BY ProxyAnswersAreTrue
<1> QED
  BY <1>1, <1>2, PTL DEF AloneIsRight

-----------------------------------------------------------------------------
(* The tasks of HW Monitor.  A task without a row whose thread has begun stays *)
(* without one; a result is only written after the action.                     *)
TaskThreads == {"unused", "begins", "acts", "ended"} \cup Results

TasksInv ==
    /\ taskRow \in [Tasks -> {"none", "running", "cancelled"} \cup Results]
    /\ taskThread \in [Tasks -> TaskThreads]
    /\ \A t \in Tasks :
          /\ taskThread[t] \in {"unused", "begins"} => taskRow[t] = "none"
          /\ taskRow[t] = "success" \/ taskThread[t] = "success" => t \in wentWell
          /\ taskRow[t] \in Results => taskThread[t] = "ended"

LEMMA TasksStep == TasksInv /\ [HwTasksNext]_taskVars => TasksInv'
<1> SUFFICES ASSUME TasksInv, [HwTasksNext]_taskVars PROVE TasksInv'
  OBVIOUS
<1>1. CASE UNCHANGED taskVars
  BY <1>1 DEF taskVars, TasksInv
<1>2. ASSUME NEW t \in Tasks, StartsTask(t) \/ TaskThreadStep(t) \/ CancelsTask(t) \/ DeletesTask(t)
      PROVE  TasksInv'
  <2> DEFINE rowThen == taskRow'[t]
             thread == taskThread'[t]
  <2>1. /\ taskRow' = [taskRow EXCEPT ![t] = rowThen] /\ taskThread' = [taskThread EXCEPT ![t] = thread]
        /\ wentWell \subseteq wentWell'
        /\ rowThen \in {"none", "running", "cancelled"} \cup Results /\ thread \in TaskThreads
        /\ thread \in {"unused", "begins"} => rowThen = "none"
        /\ rowThen = "success" \/ thread = "success" => t \in wentWell'
        /\ rowThen \in Results => thread = "ended"
    BY <1>2 DEF StartsTask, TaskThreadStep, CancelsTask, DeletesTask, InsertsRow, ActionEnds, ActionRaises, ThreadDies,
                WritesResult, Labels, ThreadGoes, Updated, Relabelled, Results, TaskThreads, TasksInv
  <2> HIDE DEF rowThen, thread
  <2>2. \A u \in Tasks : taskRow'[u] = (IF u = t THEN rowThen ELSE taskRow[u])
                         /\ taskThread'[u] = (IF u = t THEN thread ELSE taskThread[u])
    BY <2>1 DEF TasksInv
  <2> QED
    BY <2>1, <2>2 DEF TasksInv
<1>3. CASE ClearsTasks
  BY <1>3 DEF ClearsTasks, TasksInv, Results
<1>4. CASE TasksRestart
  BY <1>4 DEF TasksRestart, TasksInv, TaskThreads, Results
<1> QED
  BY <1>1, <1>2, <1>3, <1>4 DEF HwTasksNext

(* However cancelling, deleting and clearing fall between the steps of a       *)
(* task's thread (_task_run() in hw_monitor.py), for any number of tasks: a    *)
(* row says "success" only of an action that ran to its end, a result is never *)
(* relabelled, and a task that was deleted does not come back.                 *)
THEOREM TaskResultsStay == HwTasksSpec => ResultsStay
<1>1. HwTasksInit => TasksInv
  BY DEF HwTasksInit, TasksInv, TaskThreads, Results
<1>2. ASSUME TasksInv, TasksInv', [HwTasksNext]_taskVars, NEW t \in Tasks
      PROVE  /\ taskRow'[t] = "success" => t \in wentWell
             /\ taskRow[t] \in Results => taskRow'[t] \in {taskRow[t], "none"}
             /\ taskRow[t] # "none" /\ taskRow'[t] = "none" => taskThread'[t] # "begins"
             /\ taskRow[t] = "none" /\ taskThread[t] # "begins" => taskRow'[t] = "none"
  <2> QED
    BY <1>2 DEF HwTasksNext, taskVars, StartsTask, TaskThreadStep, CancelsTask, DeletesTask, InsertsRow, ActionEnds,
       ActionRaises, ThreadDies, WritesResult, Labels, ThreadGoes, Updated, Relabelled, Results, TaskThreads, TasksInv,
       ClearsTasks, TasksRestart
<1>3. TasksInv /\ TasksInv' /\ [HwTasksNext]_taskVars =>
        [\A t \in Tasks :
          /\ taskRow'[t] = "success" => t \in wentWell
          /\ taskRow[t] \in Results => taskRow'[t] \in {taskRow[t], "none"}
          /\ taskRow[t] # "none" /\ taskRow'[t] = "none" => taskThread'[t] # "begins"
          /\ taskRow[t] = "none" /\ taskThread[t] # "begins" => taskRow'[t] = "none"]_taskVars
  BY <1>2
<1> QED
  BY <1>1, <1>3, TasksStep, PTL DEF HwTasksSpec, ResultsStay

-----------------------------------------------------------------------------
(* The registry of servers.  Row ids are unique in the table and in each       *)
(* transaction, and a new row gets one that nobody knows.  What a sync has     *)
(* copied is in its transaction, under the names it has copied: a later entry  *)
(* can only rename such a row, to its own name.                                *)
RegModules == {"update_manager", "hw_monitor", "fan_control", "fan_controller", "backup", ""}
RegHost == (RegNames \cup {0}) \X (RegAddresses \cup {""})
RegEntry == (RegNames \cup {0}) \X (RegAddresses \cup {""}) \X RegModules
RegRow == [id : Nat \ {0}, name : RegNames \cup {0}, address : RegAddresses \cup {""}, modules : SUBSET RegModules]
RegTx == [state : {"none", "begun", "reads", "writes"}, rows : SUBSET RegRow]
RegOp == [pc : {"rests", "looks", "writes", "registers", "deletes", "saves", "commits"},
          kind : {"none", "save", "import", "add", "device", "api", "delete"},
          batch : BOOLEAN, todo : SUBSET RegEntry, entry : RegEntry, found : Nat,
          copied : SUBSET RegEntry, again : RegEntry]

RegTypes ==
    /\ regHosts \subseteq RegHost /\ regDevices \subseteq RegEntry /\ regDb \subseteq RegRow
    /\ regTx \in [RegThreads -> RegTx] /\ regOp \in [RegThreads -> RegOp]

UniqueIds(rows) == \A r, s \in rows : r.id = s.id => r = s
IdsOf(rows) == {r.id : r \in rows}
UniqueNames(entries) == \A e, f \in entries : e[1] = f[1] => e = f

Current(op) == IF op.pc \in {"looks", "writes", "registers"} THEN {op.entry} ELSE {}
DoneOf(op) == op.copied \ (op.todo \cup Current(op))
Named(op) == {e[1] : e \in IF op.pc = "registers" THEN DoneOf(op) \cup {op.entry} ELSE DoneOf(op)}
HeldIn(rows, e, names) ==
    \E r \in rows : r.address = e[2] /\ "update_manager" \in r.modules /\ r.name \in names

Saving(op, tx) == op.kind = "save" =>
    /\ op.batch /\ op.pc \in {"looks", "writes", "registers", "commits"}
    /\ op.todo \subseteq op.copied /\ UniqueNames(op.copied)
    /\ \A e \in op.copied : e[3] = "update_manager"
    /\ op.pc # "commits" => op.entry \in op.copied \ op.todo
    /\ op.pc = "commits" => op.todo = {}
    /\ DoneOf(op) # {} \/ op.pc = "registers" => tx.state = "writes"
    /\ \A e \in DoneOf(op) : HeldIn(tx.rows, e, Named(op))
    /\ op.pc = "writes" /\ tx.state = "writes" =>
          \A r \in tx.rows : r.id = op.found => r.name = op.entry[1] \/ r.address = op.entry[2]
    /\ op.pc = "registers" => \A r \in tx.rows : r.id = op.found => r.name = op.entry[1] /\ r.address = op.entry[2]

ImportAlone == \A t, u \in RegThreads : t # u /\ regOp[t].kind = "import" => regOp[u].pc = "rests"

RegInv ==
    /\ RegTypes /\ UniqueNames(regHosts) /\ ImportAlone
    /\ UsedIds \subseteq Nat /\ IsFiniteSet(UsedIds)
    /\ UniqueIds(regDb) /\ \A t \in RegThreads : UniqueIds(regTx[t].rows) /\ Saving(regOp[t], regTx[t])

LEMMA NewIdIsNew ==
    ASSUME UsedIds \subseteq Nat, IsFiniteSet(UsedIds)
    PROVE  NewRowId \in Nat \ {0} /\ NewRowId \notin UsedIds
<1> DEFINE n == Cardinality(UsedIds)
<1>1. n \in Nat
  BY FS_CardinalityType
<1>2. \E i \in 1 .. n + 1 : i \notin UsedIds
  <2> SUFFICES ASSUME 1 .. n + 1 \in SUBSET UsedIds PROVE FALSE
    OBVIOUS
  <2>1. Cardinality(1 .. n + 1) <= n
    BY FS_Subset
  <2>2. n + 1 \in Int /\ 1 \in Int /\ ~(1 > n + 1) /\ n + 1 - 1 + 1 = n + 1
    BY <1>1
  <2>3. Cardinality(1 .. n + 1) = n + 1
    BY <2>2, FS_Interval
  <2> QED
    BY <1>1, <2>1, <2>3
<1> HIDE DEF n
<1>3. NewRowId \in 1 .. n + 1 /\ NewRowId \notin UsedIds
  BY <1>2 DEF NewRowId, n
<1> QED
  BY <1>1, <1>3

LEMMA NoOpType == NoOp \in RegOp /\ NoTx \in RegTx /\ NoEntry \in RegEntry
<1>1. NoEntry \in RegEntry
  BY DEF NoEntry, RegEntry, RegModules
<1> QED
  BY <1>1 DEF NoOp, RegOp, NoTx, RegTx

(* What follows an entry.                                                      *)
LEMMA NextEntry ==
    ASSUME NEW op \in RegOp, NEW next \in NextEntries(op)
    PROVE  /\ next \in RegOp /\ next.kind = op.kind /\ next.batch = op.batch
           /\ next.copied = op.copied /\ next.again = op.again /\ next.found \in {0, op.found}
           /\ \/ next.pc = "looks" /\ next.entry \in op.todo /\ next.todo = op.todo \ {next.entry}
              \/ /\ next.pc = "commits" /\ next.todo = op.todo
                 /\ (\A e \in op.todo : e[3] = "update_manager") => op.todo = {}
<1> DEFINE First(i) == \E e \in op.todo : e[3] = ImportOrder[i] /\ \A f \in op.todo : \E k \in i .. 4 : f[3] = ImportOrder[k]
           some == {e \in op.todo : \E i \in 1 .. 4 : e[3] = ImportOrder[i] /\ First(i)}
<1>1. NextEntries(op) = IF some = {} THEN {[op EXCEPT !.pc = "commits"]}
                        ELSE {[op EXCEPT !.pc = "looks", !.entry = e, !.todo = op.todo \ {e}, !.found = 0] : e \in some}
  BY DEF NextEntries, RegOp
<1>2. (\A e \in op.todo : e[3] = "update_manager") /\ op.todo # {} => some # {}
  <2> SUFFICES ASSUME \A e \in op.todo : e[3] = "update_manager", NEW e \in op.todo PROVE e \in some
    OBVIOUS
  <2>1. ImportOrder[1] = "update_manager"
    BY DEF ImportOrder
  <2>2. First(1)
    BY <2>1
  <2> QED
    BY <2>1, <2>2
<1>3. some \subseteq op.todo
  OBVIOUS
<1> HIDE DEF some
<1>4. CASE some = {}
  <2>1. next = [op EXCEPT !.pc = "commits"]
    BY <1>1, <1>4
  <2> QED
    BY <1>2, <1>4, <2>1 DEF RegOp
<1>5. CASE some # {}
  <2>1. PICK e \in some : next = [op EXCEPT !.pc = "looks", !.entry = e, !.todo = op.todo \ {e}, !.found = 0]
    BY <1>1, <1>5
  <2>2. e \in RegEntry /\ op.todo \subseteq RegEntry
    BY <1>3 DEF RegOp
  <2> QED
    BY <1>3, <2>1, <2>2 DEF RegOp
<1> QED
  BY <1>4, <1>5

(* A step of one thread.                                                       *)
LEMMA RegTurn ==
    ASSUME RegInv, NEW t \in RegThreads, NEW op \in RegOp, NEW tx \in RegTx, NEW new \in Nat,
           regOp' = [regOp EXCEPT ![t] = op], regTx' = [regTx EXCEPT ![t] = tx],
           regHosts' \subseteq RegHost, UniqueNames(regHosts'),
           regDevices' \subseteq RegEntry, regDb' \subseteq RegRow,
           UniqueIds(regDb'), UniqueIds(tx.rows),
           \A r \in regDb' \cup tx.rows : r.id \in UsedIds \cup {new},
           op.found \in UsedIds \cup {0, new},
           Saving(op, tx),
           op.kind = "import" => regOp[t].kind = "import",
           regOp[t].pc # "rests" \/ \A u \in RegThreads : regOp[u].kind # "import"
    PROVE  RegInv'
<1>1. RegTypes'
  BY DEF RegInv, RegTypes
<1>2. /\ regOp'[t] = op /\ regTx'[t] = tx
      /\ \A u \in RegThreads \ {t} : regOp'[u] = regOp[u] /\ regTx'[u] = regTx[u]
  BY DEF RegInv, RegTypes
<1>3. ImportAlone'
  <2> SUFFICES ASSUME NEW a \in RegThreads, NEW b \in RegThreads, a # b, regOp'[a].kind = "import"
               PROVE  regOp'[b].pc = "rests"
    BY DEF ImportAlone
  <2>1. \A u \in RegThreads \ {a} : regOp[a].kind = "import" => regOp[u].pc = "rests"
    BY DEF RegInv, ImportAlone
  <2> QED
    BY <1>2, <2>1
<1>4. UsedIds' \subseteq UsedIds \cup {0, new}
  <2>1. UsedIds' = {r.id : r \in regDb' \cup UNION {regTx'[u].rows : u \in RegThreads}} \cup {regOp'[u].found : u \in RegThreads}
    BY DEF UsedIds
  <2>2. \A u \in RegThreads : regOp'[u].found \in UsedIds \cup {0, new}
    BY <1>2 DEF UsedIds
  <2>3. \A u \in RegThreads : \A r \in regTx'[u].rows : r.id \in UsedIds \cup {0, new}
    BY <1>2 DEF UsedIds
  <2> QED
    BY <2>1, <2>2, <2>3
<1>5. UsedIds' \subseteq Nat
  BY <1>4 DEF RegInv
<1>6. IsFiniteSet(UsedIds \cup {0})
  BY FS_AddElement DEF RegInv
<1>7. IsFiniteSet((UsedIds \cup {0}) \cup {new})
  BY <1>6, FS_AddElement
<1>8. IsFiniteSet(UsedIds')
  <2>1. UsedIds' \in SUBSET ((UsedIds \cup {0}) \cup {new})
    BY <1>4
  <2> QED
    BY <1>7, <2>1, FS_Subset
<1>9. \A u \in RegThreads : UniqueIds(regTx'[u].rows) /\ Saving(regOp'[u], regTx'[u])
  BY <1>2 DEF RegInv
<1> QED
  BY <1>1, <1>3, <1>5, <1>8, <1>9 DEF RegInv

(* What a thread sees of the table, ...                                        *)
LEMMA Views ==
    ASSUME RegInv, NEW t \in RegThreads
    PROVE  View(t) \subseteq RegRow /\ UniqueIds(View(t)) /\ \A r \in View(t) : r.id \in UsedIds /\ r.id \in Nat \ {0}
<1>1. regTx[t] \in RegTx
  BY DEF RegInv, RegTypes
<1>2. \A r \in regTx[t].rows \cup regDb : r.id \in UsedIds
  BY DEF UsedIds
<1>3. View(t) \subseteq RegRow /\ UniqueIds(View(t)) /\ \A r \in View(t) : r.id \in UsedIds
  BY <1>1, <1>2 DEF View, RegInv, RegTypes, RegTx
<1>4. \A r \in RegRow : r.id \in Nat \ {0}
  BY DEF RegRow
<1> QED
  BY <1>3, <1>4

(* ... and what its statement makes of it.                                     *)
LEMMA Statements ==
    ASSUME RegInv, NEW t \in RegThreads, NEW rows \in Statement(t)
    PROVE  rows \subseteq RegRow /\ UniqueIds(rows) /\ \A r \in rows : r.id \in UsedIds \cup {NewRowId}
<1> DEFINE op == regOp[t]
           e == regOp[t].entry
           viewed == View(t)
           new == [id |-> NewRowId, name |-> e[1], address |-> e[2], modules |-> {}]
<1>1. op \in RegOp /\ e \in RegEntry /\ e[1] \in RegNames \cup {0} /\ e[2] \in RegAddresses \cup {""} /\ e[3] \in RegModules
  BY DEF RegInv, RegTypes, RegOp, RegEntry
<1>2. viewed \subseteq RegRow /\ UniqueIds(viewed) /\ \A r \in viewed : r.id \in UsedIds
  BY Views
<1>3. NewRowId \in Nat \ {0} /\ NewRowId \notin UsedIds
  BY NewIdIsNew DEF RegInv
<1>4. new \in RegRow /\ new.id = NewRowId
  BY <1>1, <1>3 DEF RegRow
<1>5. \A r \in viewed : /\ [r EXCEPT !.name = e[1], !.address = e[2]] \in RegRow
                      /\ [r EXCEPT !.name = e[1], !.address = e[2]].id = r.id
  BY <1>1, <1>2 DEF RegRow
<1>6. \A r \in viewed : /\ [r EXCEPT !.modules = @ \cup {e[3]}] \in RegRow
                      /\ [r EXCEPT !.modules = @ \cup {e[3]}].id = r.id
  BY <1>1, <1>2 DEF RegRow
<1>7. CASE rows = viewed \cup {new}
  <2> HIDE DEF new
  <2> QED
    BY <1>2, <1>3, <1>4, <1>7 DEF UniqueIds
<1>8. CASE rows = {IF r.id = op.found THEN [r EXCEPT !.name = e[1], !.address = e[2]] ELSE r : r \in viewed}
  <2>1. \A x \in rows : \E r \in viewed : x.id = r.id /\ x \in RegRow /\ x = IF r.id = op.found THEN [r EXCEPT !.name = e[1], !.address = e[2]] ELSE r
    <3> TAKE x \in rows
    <3>1. PICK r \in viewed : x = IF r.id = op.found THEN [r EXCEPT !.name = e[1], !.address = e[2]] ELSE r
      BY <1>8
    <3>2. x.id = r.id /\ x \in RegRow
      BY <1>2, <1>5, <3>1
    <3> QED
      BY <3>1, <3>2
  <2>2. UniqueIds(rows)
    BY <1>2, <2>1 DEF UniqueIds
  <2> QED
    BY <1>2, <2>1, <2>2
<1>9. CASE rows = {IF r.id = op.found THEN [r EXCEPT !.modules = @ \cup {e[3]}] ELSE r : r \in viewed}
  <2>1. \A x \in rows : \E r \in viewed : x.id = r.id /\ x \in RegRow /\ x = IF r.id = op.found THEN [r EXCEPT !.modules = @ \cup {e[3]}] ELSE r
    <3> TAKE x \in rows
    <3>1. PICK r \in viewed : x = IF r.id = op.found THEN [r EXCEPT !.modules = @ \cup {e[3]}] ELSE r
      BY <1>9
    <3>2. x.id = r.id /\ x \in RegRow
      BY <1>2, <1>6, <3>1
    <3> QED
      BY <3>1, <3>2
  <2>2. UniqueIds(rows)
    BY <1>2, <2>1 DEF UniqueIds
  <2> QED
    BY <1>2, <2>1, <2>2
<1>10. CASE rows = {r \in viewed : r.id # op.found}
  BY <1>2, <1>10 DEF UniqueIds
<1>11. \/ rows \in Upserted(viewed, op) \/ rows \in Registered(viewed, op) \/ rows \in RowDeleted(viewed, op)
  BY DEF Statement
<1> QED
  BY <1>7, <1>8, <1>9, <1>10, <1>11 DEF Upserted, Registered, RowDeleted

(* What follows a statement.                                                   *)
LEMMA Followings ==
    ASSUME NEW op \in RegOp
    PROVE  /\ op.pc = "writes" =>
                 Following(op) = {[op EXCEPT !.pc = IF op.kind = "api" /\ ~op.batch THEN "saves" ELSE "registers"]}
           /\ op.pc = "deletes" => Following(op) = {[op EXCEPT !.pc = "saves"]}
           /\ op.pc = "registers" => Following(op) = IF op.batch THEN NextEntries(op) ELSE {NoOp}
<1>1. ASSUME op.pc = "writes"
      PROVE  Following(op) = {[op EXCEPT !.pc = IF op.kind = "api" /\ ~op.batch THEN "saves" ELSE "registers"]}
  BY <1>1 DEF Following
<1>2. ASSUME op.pc = "deletes" PROVE Following(op) = {[op EXCEPT !.pc = "saves"]}
  BY <1>2 DEF Following
<1>3. ASSUME op.pc = "registers" PROVE Following(op) = IF op.batch THEN NextEntries(op) ELSE {NoOp}
  BY <1>3 DEF Following
<1> QED
  BY <1>1, <1>2, <1>3

(* A statement of a sync keeps every entry that was copied, and the second one *)
(* of an entry completes it.                                                   *)
LEMMA SaveWrites ==
    ASSUME RegInv, NEW t \in RegThreads, regOp[t].kind = "save", regOp[t].pc \in {"writes", "registers"},
           NEW rows \in Statement(t), NEW op2 \in RegOp,
           op2 = [regOp[t] EXCEPT !.found = IF @ = 0 THEN NewRowId ELSE @],
           NEW next \in Following(op2)
    PROVE  Saving(next, [state |-> "writes", rows |-> rows])
<1> DEFINE op == regOp[t]
           e == regOp[t].entry
           tx == [state |-> "writes", rows |-> rows]
<1>1. op \in RegOp /\ e \in RegEntry
  BY DEF RegInv, RegTypes, RegOp
<1>2. Saving(op, regTx[t])
  BY DEF RegInv
<1>3. /\ op.batch /\ op.todo \subseteq op.copied /\ UniqueNames(op.copied) /\ e \in op.copied \ op.todo
      /\ \A d \in op.copied : d[3] = "update_manager"
      /\ Current(op) = {e}
  BY <1>2 DEF Saving, Current
<1>4. DoneOf(op) = op.copied \ (op.todo \cup {e})
  BY <1>3 DEF DoneOf
<1>5. /\ op2.kind = "save" /\ op2.batch /\ op2.pc = op.pc /\ op2.todo = op.todo /\ op2.entry = e /\ op2.copied = op.copied
      /\ op2.found = IF op.found = 0 THEN NewRowId ELSE op.found
  BY <1>1, <1>3 DEF RegOp
<1>6. View(t) \subseteq RegRow /\ UniqueIds(View(t)) /\ \A r \in View(t) : r.id \in UsedIds
  BY Views
<1>7. NewRowId \in Nat \ {0} /\ NewRowId \notin UsedIds
  BY NewIdIsNew DEF RegInv
<1>8. regTx[t].state = "writes" => View(t) = regTx[t].rows
  BY DEF View
<1>9. tx.state = "writes" /\ tx.rows = rows
  OBVIOUS
<1>10. CASE op.pc = "writes"
  <2>0. op2.pc = "writes" /\ op2.kind # "api"
    BY <1>5, <1>10
  <2>1. next = [op2 EXCEPT !.pc = "registers"]
    <3>1. next \in {[op2 EXCEPT !.pc = IF op2.kind = "api" /\ ~op2.batch THEN "saves" ELSE "registers"]}
      BY <2>0, Followings
    <3> QED
      BY <2>0, <3>1
  <2>2. /\ next.kind = "save" /\ next.batch /\ next.pc = "registers" /\ next.todo = op.todo /\ next.entry = e
        /\ next.copied = op.copied /\ next.found = op2.found
    BY <1>5, <2>1 DEF RegOp
  <2> HIDE DEF op, tx
  <2>3. Current(next) = {e} /\ DoneOf(next) = DoneOf(op)
    BY <1>4, <2>2 DEF Current, DoneOf
  <2>4. Named(op) = {d[1] : d \in DoneOf(op)} /\ Named(next) = {d[1] : d \in DoneOf(op) \cup {e}}
    BY <1>10, <2>2, <2>3 DEF Named
  <2>5. rows \in Upserted(View(t), op)
    BY <1>10 DEF Statement, op
  <2>6. \/ op.found = 0 /\ rows = View(t) \cup {[id |-> NewRowId, name |-> e[1], address |-> e[2], modules |-> {}]}
        \/ /\ op.found # 0
           /\ rows = {IF r.id = op.found THEN [r EXCEPT !.name = e[1], !.address = e[2]] ELSE r : r \in View(t)}
    BY <2>5 DEF Upserted, op
  <2>7. \A r \in rows : r.id = next.found => r.name = e[1] /\ r.address = e[2]
    <3>1. CASE op.found = 0
      <4>1. next.found = NewRowId
        BY <1>5, <2>2, <3>1
      <4> QED
        BY <1>6, <1>7, <2>6, <3>1, <4>1
    <3>2. CASE op.found # 0
      <4>1. next.found = op.found
        BY <1>5, <2>2, <3>2
      <4>2. \A r \in rows : \E x \in View(t) : r = IF x.id = op.found THEN [x EXCEPT !.name = e[1], !.address = e[2]] ELSE x
        BY <2>6, <3>2
      <4> QED
        BY <1>6, <4>1, <4>2 DEF RegRow
    <3> QED
      BY <3>1, <3>2
  <2>8. ASSUME NEW d \in DoneOf(op) PROVE HeldIn(rows, d, Named(next))
    <3>1. regTx[t].state = "writes" /\ HeldIn(regTx[t].rows, d, Named(op))
      BY <1>2, <1>9 DEF Saving, op
    <3>2. PICK r \in View(t) : r.address = d[2] /\ "update_manager" \in r.modules /\ r.name \in Named(op)
      BY <1>8, <3>1 DEF HeldIn
    <3>3. CASE r \in rows
      BY <2>4, <3>2, <3>3 DEF HeldIn
    <3>4. CASE r \notin rows
      <4>1. op.found # 0 /\ r.id = op.found /\ [r EXCEPT !.name = e[1], !.address = e[2]] \in rows
        BY <2>6, <3>4
      <4>2. r.name = e[1] \/ r.address = e[2]
        BY <1>2, <1>8, <1>10, <3>1, <4>1 DEF Saving, op
      <4>3. r.name # e[1]
        <5> SUFFICES ASSUME r.name = e[1] PROVE FALSE
          OBVIOUS
        <5>1. PICK f \in DoneOf(op) : f[1] = e[1]
          BY <2>4, <3>2
        <5>2. f \in op.copied /\ f # e
          BY <1>4
        <5> QED
          BY <1>3, <5>1, <5>2 DEF UniqueNames
      <4>4. e[1] \in Named(next)
        BY <2>4
      <4>5. /\ [r EXCEPT !.name = e[1], !.address = e[2]].address = e[2]
            /\ [r EXCEPT !.name = e[1], !.address = e[2]].name = e[1]
            /\ [r EXCEPT !.name = e[1], !.address = e[2]].modules = r.modules
        BY <1>6 DEF RegRow
      <4> QED
        BY <3>2, <4>1, <4>2, <4>3, <4>4, <4>5 DEF HeldIn
    <3> QED
      BY <3>3, <3>4
  <2> QED
    BY <1>3, <1>9, <2>2, <2>3, <2>7, <2>8 DEF Saving
<1>11. CASE op.pc = "registers"
  <2>1. next \in NextEntries(op2)
    BY <1>5, <1>11, Followings
  <2>2. /\ next.kind = "save" /\ next.batch /\ next.copied = op.copied
        /\ \/ next.pc = "looks" /\ next.entry \in op.todo /\ next.todo = op.todo \ {next.entry}
           \/ /\ next.pc = "commits" /\ next.todo = op.todo
              /\ (\A d \in op.todo : d[3] = "update_manager") => op.todo = {}
    <3>1. /\ next.kind = op2.kind /\ next.batch = op2.batch /\ next.copied = op2.copied
          /\ \/ next.pc = "looks" /\ next.entry \in op2.todo /\ next.todo = op2.todo \ {next.entry}
             \/ /\ next.pc = "commits" /\ next.todo = op2.todo
                /\ (\A d \in op2.todo : d[3] = "update_manager") => op2.todo = {}
      BY <2>1, NextEntry
    <3> HIDE DEF op, tx
    <3> QED
      BY <1>5, <3>1
  <2> HIDE DEF op, tx
  <2>3. DoneOf(next) = DoneOf(op) \cup {e}
    BY <1>3, <1>4, <2>2 DEF DoneOf, Current
  <2>4. Named(op) = {d[1] : d \in DoneOf(op) \cup {e}} /\ Named(next) = {d[1] : d \in DoneOf(op) \cup {e}}
    BY <1>11, <2>2, <2>3 DEF Named, op
  <2>13. Named(next) = Named(op) /\ e[1] \in Named(op)
    BY <2>4
  <2>5. regTx[t].state = "writes" /\ \A r \in View(t) : r.id = op.found => r.name = e[1] /\ r.address = e[2]
    BY <1>2, <1>8, <1>11 DEF Saving, op
  <2>6. rows \in Registered(View(t), op)
    BY <1>11 DEF Statement, op
  <2>7. /\ \E r \in View(t) : r.id = op.found
        /\ rows = {IF r.id = op.found THEN [r EXCEPT !.modules = @ \cup {e[3]}] ELSE r : r \in View(t)}
    BY <2>6 DEF Registered, op
  <2>8. \A r \in View(t) : /\ [r EXCEPT !.modules = @ \cup {e[3]}].address = r.address
                           /\ [r EXCEPT !.modules = @ \cup {e[3]}].name = r.name
                           /\ [r EXCEPT !.modules = @ \cup {e[3]}].modules = r.modules \cup {e[3]}
    BY <1>6 DEF RegRow
  <2>9. ASSUME NEW r \in View(t)
        PROVE  \E x \in rows : /\ x.address = r.address /\ x.name = r.name /\ r.modules \subseteq x.modules
                                /\ (r.id = op.found => e[3] \in x.modules)
    <3>1. CASE r.id = op.found
      <4>1. [r EXCEPT !.modules = @ \cup {e[3]}] \in rows
        BY <2>7, <3>1
      <4> QED
        BY <2>8, <4>1
    <3>2. CASE r.id # op.found
      <4>1. r \in rows
        BY <2>7, <3>2
      <4> QED
        BY <3>2, <4>1
    <3> QED
      BY <3>1, <3>2
  <2>10. ASSUME NEW d \in DoneOf(op) PROVE HeldIn(rows, d, Named(next))
    <3>1. HeldIn(View(t), d, Named(op))
      BY <1>2, <1>8, <2>5 DEF Saving, op
    <3>2. PICK r \in View(t) : r.address = d[2] /\ "update_manager" \in r.modules /\ r.name \in Named(op)
      BY <3>1 DEF HeldIn
    <3>3. PICK x \in rows : /\ x.address = r.address /\ x.name = r.name /\ r.modules \subseteq x.modules
                             /\ (r.id = op.found => e[3] \in x.modules)
      BY <2>9
    <3>4. x.address = d[2] /\ "update_manager" \in x.modules /\ x.name \in Named(next)
      BY <2>13, <3>2, <3>3
    <3> QED
      BY <3>4 DEF HeldIn
  <2>11. HeldIn(rows, e, Named(next))
    <3>1. e[3] = "update_manager" /\ e[1] \in Named(next)
      BY <1>3, <2>13
    <3>2. PICK r \in View(t) : r.id = op.found
      BY <2>7
    <3>3. r.name = e[1] /\ r.address = e[2]
      BY <2>5, <3>2
    <3>4. PICK x \in rows : /\ x.address = r.address /\ x.name = r.name /\ r.modules \subseteq x.modules
                             /\ (r.id = op.found => e[3] \in x.modules)
      BY <2>9
    <3>5. x.address = e[2] /\ x.name \in Named(next)
      BY <3>1, <3>3, <3>4
    <3>6. "update_manager" \in x.modules
      BY <3>1, <3>2, <3>4
    <3> QED
      BY <3>5, <3>6 DEF HeldIn
  <2>12. \A d \in DoneOf(next) : HeldIn(rows, d, Named(next))
    BY <2>3, <2>10, <2>11
  <2> QED
    BY <1>3, <1>9, <2>2, <2>12 DEF Saving
<1> QED
  BY <1>10, <1>11

(* The row that an entry is found in has its name or its address.              *)
LEMMA Matches ==
    ASSUME NEW rows, NEW e, NEW i \in Matching(rows, e)
    PROVE  i = 0 \/ \E r \in rows : r.id = i /\ (r.name = e[1] \/ r.address = e[2])
  BY DEF Matching, RowsOf

LEMMA KnownIds ==
    /\ \A r \in regDb : r.id \in UsedIds
    /\ \A t \in RegThreads : regOp[t].found \in UsedIds /\ \A r \in regTx[t].rows : r.id \in UsedIds
  BY DEF UsedIds

LEMMA AfterBatchType ==
    ASSUME NEW op \in RegOp
    PROVE  AfterBatch(op) \in RegOp /\ AfterBatch(op).kind \in {"none", "add"} /\ AfterBatch(op).found = 0
<1>1. op.again \in RegEntry
  BY DEF RegOp
<1>2. CASE op.again = NoEntry
  <2>1. AfterBatch(op) = NoOp
    BY <1>2 DEF AfterBatch
  <2> QED
    BY <2>1, NoOpType DEF NoOp
<1>3. CASE op.again # NoEntry
  <2>1. AfterBatch(op) = [NoOp EXCEPT !.pc = "looks", !.kind = "add", !.entry = op.again]
    BY <1>3 DEF AfterBatch
  <2> QED
    BY <1>1, <2>1, NoOpType DEF NoOp, RegOp
<1> QED
  BY <1>2, <1>3

LEMMA FollowingType ==
    ASSUME NEW op \in RegOp, op.pc \in {"writes", "registers", "deletes"}, NEW next \in Following(op)
    PROVE  next \in RegOp /\ next.kind \in {"none", op.kind} /\ next.found \in {0, op.found}
<1>1. CASE op.pc = "writes"
  <2>1. next = [op EXCEPT !.pc = IF op.kind = "api" /\ ~op.batch THEN "saves" ELSE "registers"]
    BY <1>1, Followings
  <2> QED
    BY <2>1 DEF RegOp
<1>2. CASE op.pc = "deletes"
  <2>1. next = [op EXCEPT !.pc = "saves"]
    BY <1>2, Followings
  <2> QED
    BY <2>1 DEF RegOp
<1>3. CASE op.pc = "registers" /\ op.batch
  <2>1. next \in NextEntries(op)
    BY <1>3, Followings
  <2> QED
    BY <2>1, NextEntry
<1>4. CASE op.pc = "registers" /\ ~op.batch
  <2>1. next = NoOp
    BY <1>4, Followings
  <2> QED
    BY <2>1, NoOpType DEF NoOp
<1> QED
  BY <1>1, <1>2, <1>3, <1>4

LEMMA NotSaving == ASSUME NEW op, NEW tx, op.kind # "save" PROVE Saving(op, tx)
  BY DEF Saving

LEMMA LookUpStep == ASSUME RegInv, NEW t \in RegThreads, RegLooksUp(t) PROVE RegInv'
<1>1. regOp[t] \in RegOp /\ regTx[t] \in RegTx /\ Saving(regOp[t], regTx[t]) /\ UniqueIds(regTx[t].rows)
  BY DEF RegInv, RegTypes
<1>2. PICK i \in Matching(View(t), regOp[t].entry) : regOp' = [regOp EXCEPT ![t].pc = "writes", ![t].found = i]
  BY DEF RegLooksUp
<1>3. i = 0 \/ \E r \in View(t) : r.id = i /\ (r.name = regOp[t].entry[1] \/ r.address = regOp[t].entry[2])
  BY Matches
<1>4. View(t) \subseteq RegRow /\ UniqueIds(View(t)) /\ \A r \in View(t) : r.id \in UsedIds /\ r.id \in Nat \ {0}
  BY Views
<1>5. i \in Nat /\ i \in UsedIds \cup {0}
  BY <1>3, <1>4
<1> DEFINE op == [regOp[t] EXCEPT !.pc = "writes", !.found = i]
           tx == IF regTx[t].state = "begun" THEN [state |-> "reads", rows |-> regDb] ELSE regTx[t]
<1>6. op \in RegOp /\ op.found = i /\ op.kind = regOp[t].kind /\ op.pc = "writes" /\ op.batch = regOp[t].batch
      /\ op.todo = regOp[t].todo /\ op.copied = regOp[t].copied /\ op.entry = regOp[t].entry
  BY <1>1, <1>5 DEF RegOp
<1>7. tx \in RegTx /\ UniqueIds(tx.rows) /\ \A r \in tx.rows : r.id \in UsedIds
  BY <1>1, KnownIds DEF RegTx, RegInv, RegTypes
<1>8. regOp' = [regOp EXCEPT ![t] = op] /\ regTx' = [regTx EXCEPT ![t] = tx]
  BY <1>2 DEF RegLooksUp, RegInv, RegTypes
<1>9. tx.state = "writes" => tx = regTx[t] /\ View(t) = regTx[t].rows
  BY DEF View
<1>10. regTx[t].state = "writes" => tx = regTx[t]
  OBVIOUS
<1>11. regOp[t].pc = "looks"
  BY DEF RegLooksUp
<1>12. Saving(op, tx)
  <2> HIDE DEF op, tx
  <2> SUFFICES ASSUME op.kind = "save" PROVE Saving(op, tx)
    BY NotSaving
  <2>1. DoneOf(op) = DoneOf(regOp[t]) /\ Named(op) = Named(regOp[t])
    BY <1>6, <1>11 DEF DoneOf, Current, Named
  <2>2. /\ op.batch /\ op.todo \subseteq op.copied /\ UniqueNames(op.copied)
        /\ \A e \in op.copied : e[3] = "update_manager"
        /\ op.entry \in op.copied \ op.todo
    BY <1>1, <1>6, <1>11 DEF Saving
  <2>3. DoneOf(op) # {} => tx.state = "writes"
    BY <1>1, <1>6, <1>10, <2>1 DEF Saving
  <2>4. \A e \in DoneOf(op) : HeldIn(tx.rows, e, Named(op))
    BY <1>1, <1>6, <1>10, <2>1 DEF Saving
  <2>5. tx.state = "writes" => \A r \in tx.rows : r.id = op.found => r.name = op.entry[1] \/ r.address = op.entry[2]
    <3> SUFFICES ASSUME tx.state = "writes", NEW r \in View(t), r.id = i
                 PROVE  r.name = regOp[t].entry[1] \/ r.address = regOp[t].entry[2]
      BY <1>6, <1>9
    <3>1. r.id # 0
      BY <1>4
    <3> QED
      BY <1>3, <1>4, <3>1 DEF UniqueIds
  <2> QED
    BY <1>6, <2>2, <2>3, <2>4, <2>5 DEF Saving
<1>13. /\ regHosts' = regHosts /\ regDevices' = regDevices /\ regDb' = regDb
  BY DEF RegLooksUp
<1>14. regHosts \subseteq RegHost /\ UniqueNames(regHosts) /\ regDevices \subseteq RegEntry /\ regDb \subseteq RegRow /\ UniqueIds(regDb)
  BY DEF RegInv, RegTypes
<1> HIDE DEF op, tx
<1>15. NewRowId \in Nat
  BY NewIdIsNew DEF RegInv
<1>16. \A r \in regDb' \cup tx.rows : r.id \in UsedIds \cup {NewRowId}
  BY <1>7, <1>13, KnownIds
<1>17. op.found \in UsedIds \cup {0, NewRowId} /\ (op.kind = "import" => regOp[t].kind = "import") /\ regOp[t].pc # "rests"
  BY <1>5, <1>6, <1>11
<1>18. regHosts' \subseteq RegHost /\ UniqueNames(regHosts') /\ regDevices' \subseteq RegEntry /\ regDb' \subseteq RegRow /\ UniqueIds(regDb')
  BY <1>13, <1>14
<1> QED
  BY <1>6, <1>7, <1>8, <1>12, <1>15, <1>16, <1>17, <1>18, RegTurn

LEMMA Standing ==
    ASSUME RegInv
    PROVE  /\ regHosts \subseteq RegHost /\ UniqueNames(regHosts) /\ regDevices \subseteq RegEntry
           /\ regDb \subseteq RegRow /\ UniqueIds(regDb) /\ \A r \in regDb : r.id \in UsedIds
           /\ NewRowId \in Nat
           /\ \A t \in RegThreads : /\ regOp[t] \in RegOp /\ regTx[t] \in RegTx
                                    /\ Saving(regOp[t], regTx[t]) /\ UniqueIds(regTx[t].rows)
                                    /\ regOp[t].found \in UsedIds /\ \A r \in regTx[t].rows : r.id \in UsedIds
<1>1. NewRowId \in Nat
  BY NewIdIsNew DEF RegInv
<1> QED
  BY <1>1, KnownIds DEF RegInv, RegTypes

LEMMA WriteStep == ASSUME RegInv, NEW t \in RegThreads, RegWrites(t) PROVE RegInv'
<1> DEFINE op2 == [regOp[t] EXCEPT !.found = IF @ = 0 THEN NewRowId ELSE @]
<1>1. regOp[t] \in RegOp /\ regTx[t] \in RegTx /\ Saving(regOp[t], regTx[t]) /\ regOp[t].found \in UsedIds /\ NewRowId \in Nat
  BY Standing
<1>2. PICK rows \in Statement(t) :
          IF CommitsNow(regOp[t]) THEN regDb' = rows /\ regTx' = [regTx EXCEPT ![t] = NoTx]
          ELSE regTx' = [regTx EXCEPT ![t] = [state |-> "writes", rows |-> rows]] /\ UNCHANGED regDb
  BY DEF RegWrites
<1>3. PICK next \in Following(op2) : regOp' = [regOp EXCEPT ![t] = next]
  BY DEF RegWrites
<1>4. op2 \in RegOp /\ op2.kind = regOp[t].kind /\ op2.pc = regOp[t].pc /\ op2.found \in UsedIds \cup {NewRowId}
  BY <1>1 DEF RegOp
<1>5. regOp[t].pc \in {"writes", "registers", "deletes"}
  BY <1>2 DEF Statement
<1>6. next \in RegOp /\ next.kind \in {"none", regOp[t].kind} /\ next.found \in UsedIds \cup {0, NewRowId}
  <2> HIDE DEF op2
  <2> QED
    BY <1>3, <1>4, <1>5, FollowingType
<1>7. rows \subseteq RegRow /\ UniqueIds(rows) /\ \A r \in rows : r.id \in UsedIds \cup {NewRowId}
  BY Statements
<1> DEFINE tx == IF CommitsNow(regOp[t]) THEN NoTx ELSE [state |-> "writes", rows |-> rows]
<1>8. tx \in RegTx /\ UniqueIds(tx.rows) /\ \A r \in tx.rows : r.id \in UsedIds \cup {NewRowId}
  BY <1>7 DEF RegTx, NoTx, UniqueIds
<1>9. regTx' = [regTx EXCEPT ![t] = tx] /\ regDb' \in {rows, regDb} /\ regHosts' = regHosts /\ regDevices' = regDevices
  BY <1>2 DEF RegWrites
<1>10. Saving(next, tx)
  <2> SUFFICES ASSUME next.kind = "save" PROVE Saving(next, tx)
    BY NotSaving
  <2>1. regOp[t].kind = "save"
    BY <1>6
  <2>2. regOp[t].batch /\ regOp[t].pc \in {"writes", "registers"}
    BY <1>1, <1>5, <2>1 DEF Saving
  <2>3. tx = [state |-> "writes", rows |-> rows]
    BY <2>2 DEF CommitsNow
  <2> HIDE DEF tx
  <2> QED
    BY <1>3, <1>4, <2>1, <2>2, <2>3, SaveWrites
<1> HIDE DEF tx, op2
<1>11. regHosts' \subseteq RegHost /\ UniqueNames(regHosts') /\ regDevices' \subseteq RegEntry /\ regDb' \subseteq RegRow /\ UniqueIds(regDb')
  BY <1>7, <1>9, Standing
<1>12. \A r \in regDb' \cup tx.rows : r.id \in UsedIds \cup {NewRowId}
  BY <1>7, <1>8, <1>9, KnownIds
<1>13. (next.kind = "import" => regOp[t].kind = "import") /\ regOp[t].pc # "rests"
  BY <1>5, <1>6
<1> QED
  BY <1>1, <1>3, <1>6, <1>8, <1>9, <1>10, <1>11, <1>12, <1>13, RegTurn

LEMMA GivesUpStep ==
    ASSUME RegInv, NEW t \in RegThreads, NEW left \in RegTx, UniqueIds(left.rows), \A r \in left.rows : r.id \in UsedIds,
           regOp[t].pc # "rests", RegGivesUp(t, left)
    PROVE  RegInv'
<1> DEFINE tx == IF regOp[t].batch /\ regOp[t].kind # "import" THEN NoTx ELSE left
<1>1. regOp[t] \in RegOp /\ regOp[t].found \in UsedIds /\ NewRowId \in Nat
  BY Standing
<1>2. PICK next \in CASE regOp[t].kind = "import" -> NextEntries(regOp[t])
                      [] regOp[t].kind # "import" /\ regOp[t].batch -> {AfterBatch(regOp[t])}
                      [] OTHER -> {NoOp} : regOp' = [regOp EXCEPT ![t] = next]
  BY DEF RegGivesUp
<1>3. /\ next \in RegOp /\ next.kind # "save" /\ (next.kind = "import" => regOp[t].kind = "import")
      /\ next.found \in UsedIds \cup {0, NewRowId}
  <2>1. CASE regOp[t].kind = "import"
    <3>1. next \in NextEntries(regOp[t])
      BY <1>2, <2>1
    <3> QED
      BY <1>1, <2>1, <3>1, NextEntry
  <2>2. CASE regOp[t].kind # "import" /\ regOp[t].batch
    <3>1. next = AfterBatch(regOp[t])
      BY <1>2, <2>2
    <3> QED
      BY <1>1, <3>1, AfterBatchType
  <2>3. CASE regOp[t].kind # "import" /\ ~regOp[t].batch
    <3>1. next = NoOp
      BY <1>2, <2>3
    <3> QED
      BY <3>1, NoOpType DEF NoOp
  <2> QED
    BY <2>1, <2>2, <2>3
<1>4. regTx' = [regTx EXCEPT ![t] = tx] /\ regDb' = regDb /\ regHosts' = regHosts /\ regDevices' = regDevices
  BY DEF RegGivesUp
<1>5. tx \in RegTx /\ UniqueIds(tx.rows) /\ \A r \in tx.rows : r.id \in UsedIds
  BY NoOpType DEF NoTx, UniqueIds
<1>6. Saving(next, tx)
  BY <1>3, NotSaving
<1> HIDE DEF tx
<1>7. regHosts' \subseteq RegHost /\ UniqueNames(regHosts') /\ regDevices' \subseteq RegEntry /\ regDb' \subseteq RegRow /\ UniqueIds(regDb')
  BY <1>4, Standing
<1>8. \A r \in regDb' \cup tx.rows : r.id \in UsedIds \cup {NewRowId}
  BY <1>4, <1>5, KnownIds
<1> QED
  BY <1>1, <1>2, <1>3, <1>4, <1>5, <1>6, <1>7, <1>8, RegTurn

LEMMA FailureStep ==
    ASSUME RegInv, NEW t \in RegThreads, ConstraintFails(t) \/ RegLocked(t)
    PROVE  RegInv'
<1>1. CASE ConstraintFails(t)
  <2> DEFINE left == [state |-> "writes", rows |-> View(t)]
  <2>1. RegGivesUp(t, left) /\ regOp[t].pc # "rests"
    BY <1>1 DEF ConstraintFails
  <2>2. left \in RegTx /\ UniqueIds(left.rows) /\ \A r \in left.rows : r.id \in UsedIds
    BY Views DEF RegTx
  <2> HIDE DEF left
  <2> QED
    BY <2>1, <2>2, GivesUpStep
<1>2. CASE RegLocked(t)
  <2> DEFINE left == IF regTx[t].state = "none" THEN [state |-> "begun", rows |-> {}] ELSE regTx[t]
  <2>1. RegGivesUp(t, left) /\ regOp[t].pc # "rests"
    BY <1>2 DEF RegLocked
  <2>2. left \in RegTx /\ UniqueIds(left.rows) /\ \A r \in left.rows : r.id \in UsedIds
    BY Standing DEF RegTx, UniqueIds
  <2> HIDE DEF left
  <2> QED
    BY <2>1, <2>2, GivesUpStep
<1> QED
  BY <1>1, <1>2

LEMMA CommitStep == ASSUME RegInv, NEW t \in RegThreads, RegCommits(t) PROVE RegInv'
<1> DEFINE op == AfterBatch(regOp[t])
<1>1. /\ regDb' = IF regTx[t].state = "writes" THEN regTx[t].rows ELSE regDb
      /\ regTx' = [regTx EXCEPT ![t] = NoTx] /\ regOp' = [regOp EXCEPT ![t] = op]
      /\ regHosts' = regHosts /\ regDevices' = regDevices /\ regOp[t].pc # "rests"
  BY DEF RegCommits
<1>2. op \in RegOp /\ op.kind \in {"none", "add"} /\ op.found = 0
  BY Standing, AfterBatchType
<1>3. Saving(op, NoTx)
  BY <1>2, NotSaving
<1>4. NoTx \in RegTx /\ UniqueIds(NoTx.rows) /\ NoTx.rows = {}
  BY NoOpType DEF NoTx, UniqueIds
<1> HIDE DEF op
<1>5. regHosts' \subseteq RegHost /\ UniqueNames(regHosts') /\ regDevices' \subseteq RegEntry /\ regDb' \subseteq RegRow /\ UniqueIds(regDb')
  BY <1>1, Standing DEF RegTx
<1>6. \A r \in regDb' \cup NoTx.rows : r.id \in UsedIds \cup {NewRowId}
  BY <1>1, <1>4, KnownIds
<1>7. NewRowId \in Nat
  BY Standing
<1>8. op.found \in UsedIds \cup {0, NewRowId} /\ op.kind # "import"
  BY <1>2
<1> QED
  BY <1>1, <1>2, <1>3, <1>4, <1>5, <1>6, <1>7, <1>8, RegTurn

LEMMA Triples == ASSUME NEW A, NEW B, NEW C, NEW h \in A \X B, NEW c \in C PROVE <<h[1], h[2], c>> \in A \X B \X C
  OBVIOUS

LEMMA NamesStayUnique ==
    ASSUME NEW hosts, UniqueNames(hosts), NEW name, NEW address
    PROVE  UniqueNames({h \in hosts : h[1] # name} \cup {<<name, address>>})
  BY DEF UniqueNames

(* save_hosts() with its sync, whoever asks for it.                            *)
LEMMA RegSyncStep ==
    ASSUME RegInv, NEW t \in RegThreads, NEW hosts, hosts \subseteq RegHost, UniqueNames(hosts), NEW again \in RegEntry,
           Syncs(t, hosts, again),
           regOp[t].pc # "rests" \/ \A u \in RegThreads : regOp[u].kind # "import"
    PROVE  RegInv'
<1> DEFINE entries == HostEntries(hosts)
           base == [NoOp EXCEPT !.kind = "save", !.batch = TRUE, !.todo = entries, !.copied = entries, !.again = again]
<1>1. entries \subseteq RegEntry
  <2>1. "update_manager" \in RegModules
    BY DEF RegModules
  <2>2. \A h \in RegHost : <<h[1], h[2], "update_manager">> \in RegEntry
    BY <2>1, Triples DEF RegHost, RegEntry
  <2> QED
    BY <2>2 DEF HostEntries
<1>2. UniqueNames(entries) /\ \A e \in entries : e[3] = "update_manager"
  <2>1. \A e \in entries : \E h \in hosts : e = <<h[1], h[2], "update_manager">>
    BY DEF HostEntries
  <2> HIDE DEF entries
  <2>2. \A e \in entries : e[3] = "update_manager"
    BY <2>1
  <2>3. ASSUME NEW e \in entries, NEW f \in entries, e[1] = f[1] PROVE e = f
    <3>1. PICK g \in hosts : e = <<g[1], g[2], "update_manager">>
      BY <2>1
    <3>2. PICK h \in hosts : f = <<h[1], h[2], "update_manager">>
      BY <2>1
    <3>3. g = h
      BY <2>3, <3>1, <3>2 DEF UniqueNames
    <3> QED
      BY <3>1, <3>2, <3>3
  <2> QED
    BY <2>2, <2>3 DEF UniqueNames
<1> HIDE DEF entries
<1>3. base \in RegOp /\ base.kind = "save" /\ base.batch /\ base.todo = entries /\ base.copied = entries /\ base.found = 0
  BY <1>1, NoOpType DEF NoOp, RegOp
<1>4. PICK next \in NextEntries(base) : regOp' = [regOp EXCEPT ![t] = next]
  BY DEF Syncs, entries
<1> HIDE DEF base
<1>5. /\ next \in RegOp /\ next.kind = "save" /\ next.batch /\ next.copied = entries /\ next.found = 0
      /\ \/ next.pc = "looks" /\ next.entry \in entries /\ next.todo = entries \ {next.entry}
         \/ next.pc = "commits" /\ next.todo = {} /\ entries = {}
  BY <1>2, <1>3, <1>4, NextEntry
<1>6. DoneOf(next) = {}
  BY <1>5 DEF DoneOf, Current
<1>7. Saving(next, regTx[t])
  BY <1>2, <1>5, <1>6 DEF Saving
<1>8. regHosts' = hosts /\ regDevices' = regDevices /\ regDb' = regDb /\ regTx' = [regTx EXCEPT ![t] = regTx[t]]
  BY DEF Syncs, RegInv, RegTypes
<1>9. regTx[t] \in RegTx /\ UniqueIds(regTx[t].rows) /\ NewRowId \in Nat
  BY Standing
<1>10. regHosts' \subseteq RegHost /\ UniqueNames(regHosts') /\ regDevices' \subseteq RegEntry /\ regDb' \subseteq RegRow /\ UniqueIds(regDb')
  BY <1>8, Standing
<1>11. \A r \in regDb' \cup regTx[t].rows : r.id \in UsedIds \cup {NewRowId}
  BY <1>8, KnownIds
<1>12. next.found \in UsedIds \cup {0, NewRowId} /\ next.kind # "import"
  BY <1>5
<1> QED
  BY <1>4, <1>5, <1>7, <1>8, <1>9, <1>10, <1>11, <1>12, RegTurn

LEMMA WithType ==
    ASSUME RegInv, NEW name \in RegNames \cup {0}, NEW address \in RegAddresses \cup {""}
    PROVE  /\ With(name, address) \subseteq RegHost /\ UniqueNames(With(name, address))
           /\ HostsWithout(name) \subseteq RegHost /\ UniqueNames(HostsWithout(name))
<1>1. regHosts \subseteq RegHost /\ UniqueNames(regHosts)
  BY Standing
<1>2. <<name, address>> \in RegHost
  BY DEF RegHost
<1>3. With(name, address) \subseteq RegHost /\ HostsWithout(name) \subseteq RegHost
  BY <1>1, <1>2 DEF With, HostsWithout
<1>4. UniqueNames(HostsWithout(name))
  BY <1>1 DEF UniqueNames, HostsWithout
<1>5. UniqueNames(With(name, address))
  BY <1>1, NamesStayUnique DEF With
<1> QED
  BY <1>3, <1>4, <1>5

(* A request begins: an operation of its own kind, or none.                    *)
LEMMA BeginStep ==
    ASSUME RegInv, NEW t \in RegThreads, NEW op \in RegOp, op.kind \notin {"save", "import"},
           op.found \in UsedIds \cup {0}, NEW tx \in {regTx[t], [state |-> "reads", rows |-> regDb]},
           regOp' = [regOp EXCEPT ![t] = op], regTx' = [regTx EXCEPT ![t] = tx],
           regHosts' = regHosts, regDevices' \subseteq RegEntry, regDb' = regDb, Asked(t)
    PROVE  RegInv'
<1>1. tx \in RegTx /\ UniqueIds(tx.rows) /\ \A r \in tx.rows : r.id \in UsedIds
  BY Standing DEF RegTx
<1>2. Saving(op, tx)
  BY NotSaving
<1>3. \A u \in RegThreads : regOp[u].kind # "import"
  BY DEF Asked
<1>4. regHosts' \subseteq RegHost /\ UniqueNames(regHosts') /\ regDb' \subseteq RegRow /\ UniqueIds(regDb') /\ NewRowId \in Nat
  BY Standing
<1>5. \A r \in regDb' \cup tx.rows : r.id \in UsedIds \cup {NewRowId}
  BY <1>1, KnownIds
<1> QED
  BY <1>1, <1>2, <1>3, <1>4, <1>5, RegTurn

LEMMA EntryType ==
    ASSUME NEW name \in RegNames \cup {0}, NEW address \in RegAddresses \cup {""}, NEW m \in RegModules
    PROVE  <<name, address, m>> \in RegEntry
<1>1. <<name, address>> \in (RegNames \cup {0}) \X (RegAddresses \cup {""})
  OBVIOUS
<1> QED
  BY <1>1, Triples DEF RegEntry

LEMMA EntryParts ==
    ASSUME NEW e \in RegEntry
    PROVE  e[1] \in RegNames \cup {0} /\ e[2] \in RegAddresses \cup {""}
  BY DEF RegEntry

LEMMA RowParts ==
    ASSUME NEW r \in RegRow
    PROVE  r.name \in RegNames \cup {0} /\ r.address \in RegAddresses \cup {""} /\ r.id \in Nat
  BY DEF RegRow

LEMMA RegModuleNames ==
    {"update_manager", "hw_monitor", "fan_control", "fan_controller", "backup", ""} \subseteq RegModules
  BY DEF RegModules

LEMMA RegRequestStep == ASSUME RegInv, NEW t \in RegThreads, RegRequest(t) PROVE RegInv'
<1>1. Asked(t)
  BY DEF RegRequest, RegAdds, RegAddsDevice, ApiAsks, RegAddsElsewhere, RegEdits, RegRemoves, ApiDeletes
<1>2. \A u \in RegThreads : regOp[u].kind # "import"
  BY <1>1 DEF Asked
<1>3. ASSUME NEW name \in RegNames, NEW address \in RegAddresses, NEW old \in RegNames,
             RegAdds(t, name, address) \/ RegEdits(t, old, name, address) \/ RegRemoves(t, name)
      PROVE  RegInv'
  <2>1. /\ With(name, address) \subseteq RegHost /\ UniqueNames(With(name, address))
        /\ HostsWithout(name) \subseteq RegHost /\ UniqueNames(HostsWithout(name))
    BY WithType
  <2>2. <<name, address, "update_manager">> \in RegEntry /\ NoEntry \in RegEntry
    BY EntryType, RegModuleNames, NoOpType
  <2>3. CASE RegAdds(t, name, address)
    BY <1>2, <2>1, <2>2, <2>3, RegSyncStep DEF RegAdds
  <2>4. CASE RegEdits(t, old, name, address)
    <3> DEFINE hosts == {h \in With(name, address) : h[1] = old => h[1] = name}
    <3>1. hosts \subseteq RegHost /\ UniqueNames(hosts)
      BY <2>1 DEF UniqueNames
    <3>2. Syncs(t, hosts, NoEntry)
      BY <2>4 DEF RegEdits
    <3> HIDE DEF hosts
    <3> QED
      BY <1>2, <2>2, <3>1, <3>2, RegSyncStep
  <2>5. CASE RegRemoves(t, name)
    BY <1>2, <2>1, <2>2, <2>5, RegSyncStep DEF RegRemoves
  <2> QED
    BY <1>3, <2>3, <2>4, <2>5
<1>4. regOp[t] \in RegOp /\ regOp[t].kind \notin {"save", "import"} /\ regOp[t].found \in UsedIds
  BY <1>1, Standing DEF Asked, Saving
<1>5. ASSUME NEW name \in RegNames, NEW address \in RegAddresses,
             RegAddsDevice(t, name, address) \/ ApiAsks(t, name, address)
      PROVE  RegInv'
  <2>1. \A m \in RegModules : <<name, address, m>> \in RegEntry
    BY EntryType
  <2>2. regTx' = [regTx EXCEPT ![t] = regTx[t]] /\ regHosts' = regHosts /\ regDb' = regDb
    BY <1>5 DEF RegAddsDevice, ApiAsks, RegInv, RegTypes
  <2>3. regDevices' \subseteq RegEntry
    <3>1. <<name, address, "fan_control">> \in RegEntry
      BY <2>1, RegModuleNames
    <3>2. regDevices' \in {regDevices, regDevices \cup {<<name, address, "fan_control">>}}
      BY <1>5 DEF RegAddsDevice, ApiAsks
    <3>3. regDevices \subseteq RegEntry
      BY Standing
    <3> QED
      BY <3>1, <3>2, <3>3
  <2>4. ASSUME NEW kind \in {"device", "api"}, NEW entry \in RegEntry,
               regOp' = [regOp EXCEPT ![t] = [NoOp EXCEPT !.pc = "looks", !.kind = kind, !.entry = entry]]
        PROVE  RegInv'
    <3> DEFINE op == [NoOp EXCEPT !.pc = "looks", !.kind = kind, !.entry = entry]
    <3>1. op \in RegOp /\ op.kind = kind /\ op.found = 0
      BY NoOpType DEF NoOp, RegOp
    <3>2. regOp' = [regOp EXCEPT ![t] = op]
      BY <2>4
    <3> HIDE DEF op
    <3> QED
      BY <1>1, <2>2, <2>3, <3>1, <3>2, BeginStep
  <2> QED
    BY <1>5, <2>1, <2>4, RegModuleNames DEF RegAddsDevice, ApiAsks
<1>6. ASSUME NEW name \in RegNames, NEW address \in RegAddresses, RegAddsElsewhere(t, name, address) PROVE RegInv'
  <2>1. \A m \in RegModules : <<name, address, m>> \in RegEntry
    BY EntryType
  <2>2. /\ regTx' = [regTx EXCEPT ![t] = regTx[t]] /\ regOp' = [regOp EXCEPT ![t] = regOp[t]]
        /\ regHosts' = regHosts /\ regDb' = regDb
    BY <1>6 DEF RegAddsElsewhere, RegInv, RegTypes
  <2>3. regDevices' \subseteq RegEntry
    BY <1>6, <2>1, Standing, RegModuleNames DEF RegAddsElsewhere
  <2> QED
    BY <1>1, <1>4, <2>2, <2>3, BeginStep
<1>7. ASSUME NEW old \in View(t), ApiDeletes(t, old) PROVE RegInv'
  <2>1. old \in RegRow /\ old.id \in UsedIds
    BY Views
  <2>2. <<old.name, old.address, "">> \in RegEntry /\ old.id \in Nat
    BY <2>1, RowParts, EntryType, RegModuleNames
  <2> DEFINE op == [NoOp EXCEPT !.pc = "deletes", !.kind = "delete", !.found = old.id,
                                !.entry = <<old.name, old.address, "">>]
             tx == IF regTx[t].state = "begun" THEN [state |-> "reads", rows |-> regDb] ELSE regTx[t]
  <2>3. op \in RegOp /\ op.kind = "delete" /\ op.found = old.id
    BY <2>2, NoOpType DEF NoOp, RegOp
  <2>4. /\ regTx' = [regTx EXCEPT ![t] = tx] /\ regOp' = [regOp EXCEPT ![t] = op]
        /\ regHosts' = regHosts /\ regDevices' = regDevices /\ regDb' = regDb
    BY <1>7 DEF ApiDeletes, RegInv, RegTypes
  <2>5. tx \in {regTx[t], [state |-> "reads", rows |-> regDb]}
    OBVIOUS
  <2> HIDE DEF op, tx
  <2>6. regDevices' \subseteq RegEntry
    BY <2>4, Standing
  <2> QED
    BY <1>1, <2>1, <2>3, <2>4, <2>5, <2>6, BeginStep
<1> QED
  <2>1. CASE \E n \in RegNames, a \in RegAddresses : RegAdds(t, n, a)
    BY <1>3, <2>1
  <2>2. CASE \E n \in RegNames, a \in RegAddresses : RegAddsDevice(t, n, a) \/ ApiAsks(t, n, a)
    BY <1>5, <2>2
  <2>3. CASE \E n \in RegNames, a \in RegAddresses : RegAddsElsewhere(t, n, a)
    BY <1>6, <2>3
  <2>4. CASE \E n \in RegNames, a \in RegAddresses : \E old \in RegNames : RegEdits(t, old, n, a)
    BY <1>3, <2>4
  <2>5. CASE \E n \in RegNames : RegRemoves(t, n)
    <3>1. PICK n \in RegNames : RegRemoves(t, n)
      BY <2>5
    <3>2. HostsWithout(n) \subseteq RegHost /\ UniqueNames(HostsWithout(n)) /\ NoEntry \in RegEntry
      BY NoOpType, Standing DEF HostsWithout, UniqueNames
    <3> QED
      BY <1>2, <3>1, <3>2, RegSyncStep DEF RegRemoves
  <2>6. CASE \E old \in View(t) : ApiDeletes(t, old)
    BY <1>7, <2>6
  <2> QED
    BY <2>1, <2>2, <2>3, <2>4, <2>5, <2>6 DEF RegRequest

LEMMA ApiSaveStep == ASSUME RegInv, NEW t \in RegThreads, ApiSaves(t) PROVE RegInv'
<1> DEFINE e == regOp[t].entry
           hosts == IF regOp[t].kind = "api" THEN With(e[1], e[2]) ELSE HostsWithout(e[1])
<1>1. regOp[t].pc # "rests" /\ Syncs(t, hosts, NoEntry)
  BY DEF ApiSaves
<1>2. e \in RegEntry /\ NoEntry \in RegEntry
  BY Standing, NoOpType DEF RegOp
<1>3. e[1] \in RegNames \cup {0} /\ e[2] \in RegAddresses \cup {""}
  BY <1>2, EntryParts
<1>4. hosts \subseteq RegHost /\ UniqueNames(hosts)
  BY <1>3, WithType
<1> HIDE DEF hosts
<1> QED
  BY <1>1, <1>2, <1>4, RegSyncStep

LEMMA RestartStep == ASSUME RegInv, RegRestart PROVE RegInv'
<1> DEFINE main == CHOOSE t \in RegThreads : TRUE
           listedOnes == HostsToImport \cup MonitoredToImport \cup FansToImport \cup BackupsToImport
           base == [NoOp EXCEPT !.kind = "import", !.batch = TRUE, !.todo = listedOnes]
<1>1. /\ regTx' = [t \in RegThreads |-> NoTx]
      /\ regHosts' = regHosts /\ regDevices' = regDevices /\ regDb' = regDb
  BY DEF RegRestart
<1>2. PICK next \in NextEntries(base) : regOp' = [t \in RegThreads |-> IF t = main THEN next ELSE NoOp]
  BY DEF RegRestart
<1>3. listedOnes \subseteq RegEntry
  <2>1. "update_manager" \in RegModules
    BY RegModuleNames
  <2>2. \A h \in RegHost : <<h[1], h[2], "update_manager">> \in RegEntry
    BY <2>1, Triples DEF RegHost, RegEntry
  <2>3. regHosts \subseteq RegHost /\ regDevices \subseteq RegEntry
    BY Standing
  <2> QED
    BY <2>2, <2>3 DEF HostsToImport, HostEntries, MonitoredToImport, FansToImport, BackupsToImport
<1> HIDE DEF listedOnes, main
<1>4. base \in RegOp /\ base.kind = "import" /\ base.found = 0
  BY <1>3, NoOpType DEF NoOp, RegOp
<1> HIDE DEF base
<1>5. next \in RegOp /\ next.kind = "import" /\ next.found = 0
  BY <1>2, <1>4, NextEntry
<1>6. \A t \in RegThreads : /\ regTx'[t] = NoTx /\ regOp'[t] \in {next, NoOp} /\ regOp'[t].kind # "save"
                            /\ regOp'[t].found = 0
  BY <1>1, <1>2, <1>5 DEF NoOp
<1>7. NoTx \in RegTx /\ UniqueIds(NoTx.rows) /\ NoTx.rows = {}
  BY NoOpType DEF NoTx, UniqueIds
<1>8. RegTypes'
  <2>1. regTx' \in [RegThreads -> RegTx]
    BY <1>1, <1>7
  <2>2. regOp' \in [RegThreads -> RegOp]
    BY <1>2, <1>5, NoOpType
  <2> QED
    BY <1>1, <2>1, <2>2, Standing DEF RegTypes
<1>9. ImportAlone'
  <2> SUFFICES ASSUME NEW a \in RegThreads, NEW b \in RegThreads, a # b, regOp'[a].kind = "import"
               PROVE  regOp'[b].pc = "rests"
    BY DEF ImportAlone
  <2>1. NoOp.kind # "import" /\ NoOp.pc = "rests"
    BY DEF NoOp
  <2>2. a = main
    BY <1>2, <2>1
  <2> QED
    BY <1>2, <2>1, <2>2
<1>10. UsedIds' \subseteq UsedIds \cup {0}
  <2>1. UsedIds' = {r.id : r \in regDb' \cup UNION {regTx'[u].rows : u \in RegThreads}} \cup {regOp'[u].found : u \in RegThreads}
    BY DEF UsedIds
  <2>2. regDb' \cup UNION {regTx'[u].rows : u \in RegThreads} = regDb
    BY <1>1, <1>6, <1>7
  <2> QED
    BY <1>6, <2>1, <2>2, KnownIds
<1>11. IsFiniteSet(UsedIds \cup {0}) /\ UsedIds \subseteq Nat
  BY FS_AddElement DEF RegInv
<1>12. IsFiniteSet(UsedIds')
  BY <1>10, <1>11, FS_Subset
<1>13. UsedIds' \subseteq Nat
  BY <1>10, <1>11
<1>14. \A t \in RegThreads : UniqueIds(regTx'[t].rows) /\ Saving(regOp'[t], regTx'[t])
  BY <1>6, <1>7, NotSaving
<1>15. UniqueNames(regHosts') /\ UniqueIds(regDb')
  BY <1>1, Standing
<1> QED
  BY <1>8, <1>9, <1>12, <1>13, <1>14, <1>15 DEF RegInv

LEMMA RegInvHolds == RegSpec => []RegInv
<1>1. ASSUME RegInit PROVE RegInv
  <2>1. PICK names \in SUBSET RegNames : \E address \in [names -> RegAddresses] :
           /\ regHosts = {<<n, address[n]>> : n \in names}
           /\ regDb = {[id |-> n, name |-> n, address |-> address[n], modules |-> {"update_manager"}] : n \in names}
    BY <1>1 DEF RegInit
  <2>2. PICK address \in [names -> RegAddresses] :
           /\ regHosts = {<<n, address[n]>> : n \in names}
           /\ regDb = {[id |-> n, name |-> n, address |-> address[n], modules |-> {"update_manager"}] : n \in names}
    BY <2>1
  <2>3. names \subseteq 1 .. MaxRegNames /\ names \subseteq Nat \ {0}
    BY RegBounds DEF RegNames
  <2>4. \A n \in names : n \in RegNames /\ address[n] \in RegAddresses
    BY <2>2
  <2>5. \A n \in names : <<n, address[n]>> \in RegHost
    BY <2>4 DEF RegHost
  <2>6. \A n \in names : [id |-> n, name |-> n, address |-> address[n], modules |-> {"update_manager"}] \in RegRow
    <3> SUFFICES ASSUME NEW n \in names
                 PROVE  [id |-> n, name |-> n, address |-> address[n], modules |-> {"update_manager"}] \in RegRow
      OBVIOUS
    <3>1. n \in Nat \ {0} /\ n \in RegNames \cup {0} /\ address[n] \in RegAddresses \cup {""}
      BY <2>3, <2>4
    <3>2. {"update_manager"} \in SUBSET RegModules
      BY RegModuleNames
    <3> QED
      BY <3>1, <3>2 DEF RegRow
  <2>7. UniqueIds(regDb) /\ UniqueNames(regHosts)
    BY <2>2 DEF UniqueIds, UniqueNames
  <2>8. /\ regTx = [t \in RegThreads |-> NoTx] /\ regOp = [t \in RegThreads |-> NoOp] /\ regDevices = {}
    BY <1>1 DEF RegInit
  <2>9. RegTypes
    BY <2>2, <2>5, <2>6, <2>8, NoOpType DEF RegTypes
  <2>10. NoOp.kind = "none" /\ NoOp.found = 0 /\ NoTx.rows = {}
    BY DEF NoOp, NoTx
  <2>11. ImportAlone
    BY <2>8, <2>10 DEF ImportAlone
  <2>12. UsedIds \subseteq 0 .. MaxRegNames
    <3>1. \A r \in regDb : r.id \in names
      BY <2>2
    <3>2. \A t \in RegThreads : regTx[t].rows = {} /\ regOp[t].found = 0
      BY <2>8, <2>10
    <3>3. 0 \in 0 .. MaxRegNames /\ names \subseteq 0 .. MaxRegNames
      BY <2>3, RegBounds
    <3>4. \A r \in regDb \cup UNION {regTx[t].rows : t \in RegThreads} : r.id \in names
      BY <3>1, <3>2
    <3> QED
      BY <3>2, <3>3, <3>4 DEF UsedIds
  <2>13. IsFiniteSet(0 .. MaxRegNames) /\ 0 .. MaxRegNames \subseteq Nat
    BY RegBounds, FS_Interval
  <2>14. IsFiniteSet(UsedIds) /\ UsedIds \subseteq Nat
    BY <2>12, <2>13, FS_Subset
  <2>15. \A t \in RegThreads : UniqueIds(regTx[t].rows) /\ Saving(regOp[t], regTx[t])
    BY <2>8, <2>10, NotSaving DEF UniqueIds
  <2> QED
    BY <2>7, <2>9, <2>11, <2>14, <2>15 DEF RegInv
<1>2. ASSUME RegInv, [RegNext]_regVars PROVE RegInv'
  <2>1. CASE UNCHANGED regVars
    BY <1>2, <2>1 DEF regVars, RegInv, RegTypes, ImportAlone, UsedIds
  <2>2. CASE RegRestart
    BY <1>2, <2>2, RestartStep
  <2>3. ASSUME NEW t \in RegThreads,
               RegRequest(t) \/ RegLooksUp(t) \/ RegWrites(t) \/ ConstraintFails(t) \/ RegLocked(t) \/ RegCommits(t) \/ ApiSaves(t)
        PROVE  RegInv'
    BY <1>2, <2>3, RegRequestStep, LookUpStep, WriteStep, FailureStep, CommitStep, ApiSaveStep
  <2> QED
    BY <1>2, <2>1, <2>2, <2>3 DEF RegNext
<1> QED
  BY <1>1, <1>2, PTL DEF RegSpec

(* A step leaves the operations of other threads alone, and touches the table  *)
(* only where a transaction ends.                                              *)
LEMMA SyncSteps ==
    ASSUME RegInv, [RegNext]_regVars, NEW t \in RegThreads, regOp[t].kind = "save", regOp'[t] # regOp[t]
    PROVE  IF regOp[t].pc = "commits" /\ \A u \in RegThreads : regOp'[u].kind # "import"
           THEN \A e \in regOp[t].copied : \E r \in regDb' : r.address = e[2] /\ e[3] \in r.modules
           ELSE regDb' = regDb
<1>1. Saving(regOp[t], regTx[t]) /\ regOp \in [RegThreads -> RegOp]
  BY DEF RegInv, RegTypes
<1>2. /\ regOp[t].batch /\ regOp[t].pc \in {"looks", "writes", "registers", "commits"}
      /\ \A e \in regOp[t].copied : e[3] = "update_manager"
  BY <1>1 DEF Saving
<1>3. CASE RegRestart
  <2> DEFINE main == CHOOSE u \in RegThreads : TRUE
             base == [NoOp EXCEPT !.kind = "import", !.batch = TRUE,
                                  !.todo = HostsToImport \cup MonitoredToImport \cup FansToImport \cup BackupsToImport]
  <2>1. PICK next \in NextEntries(base) : regOp' = [u \in RegThreads |-> IF u = main THEN next ELSE NoOp]
    BY <1>3 DEF RegRestart
  <2>2. base \in RegOp /\ base.kind = "import"
    <3>1. "update_manager" \in RegModules
      BY RegModuleNames
    <3>2. \A h \in RegHost : <<h[1], h[2], "update_manager">> \in RegEntry
      BY <3>1, Triples DEF RegHost, RegEntry
    <3>3. HostsToImport \cup MonitoredToImport \cup FansToImport \cup BackupsToImport \subseteq RegEntry
      BY <3>2, Standing DEF HostsToImport, HostEntries, MonitoredToImport, FansToImport, BackupsToImport
    <3> QED
      BY <3>3, NoOpType DEF NoOp, RegOp
  <2>3. main \in RegThreads
    OBVIOUS
  <2> HIDE DEF base, main
  <2>4. next.kind = "import"
    BY <2>1, <2>2, NextEntry
  <2>5. \E u \in RegThreads : regOp'[u].kind = "import"
    BY <2>1, <2>3, <2>4
  <2>6. regDb' = regDb
    BY <1>3 DEF RegRestart
  <2> QED
    BY <2>5, <2>6
<1>4. ASSUME NEW u \in RegThreads,
             RegRequest(u) \/ RegLooksUp(u) \/ RegWrites(u) \/ ConstraintFails(u) \/ RegLocked(u) \/ RegCommits(u) \/ ApiSaves(u)
      PROVE  u = t
  <2> SUFFICES \A v \in RegThreads \ {u} : regOp'[v] = regOp[v]
    OBVIOUS
  <2>1. \/ regOp' = regOp
        \/ \E op : regOp' = [regOp EXCEPT ![u] = op]
    <3>1. CASE RegRequest(u)
      BY <3>1 DEF RegRequest, RegAdds, RegAddsDevice, ApiAsks, RegAddsElsewhere, RegEdits, RegRemoves, ApiDeletes, Syncs
    <3>2. CASE RegLooksUp(u)
      <4>1. PICK i \in Matching(View(u), regOp[u].entry) : regOp' = [regOp EXCEPT ![u].pc = "writes", ![u].found = i]
        BY <3>2 DEF RegLooksUp
      <4>2. regOp' = [regOp EXCEPT ![u] = [regOp[u] EXCEPT !.pc = "writes", !.found = i]]
        BY <1>1, <4>1
      <4> QED
        BY <4>2
    <3>3. CASE RegWrites(u)
      BY <3>3 DEF RegWrites
    <3>4. CASE ConstraintFails(u)
      BY <3>4 DEF ConstraintFails, RegGivesUp
    <3>5. CASE RegLocked(u)
      BY <3>5 DEF RegLocked, RegGivesUp
    <3>6. CASE RegCommits(u)
      BY <3>6 DEF RegCommits
    <3>7. CASE ApiSaves(u)
      BY <3>7 DEF ApiSaves, Syncs
    <3> QED
      BY <1>4, <3>1, <3>2, <3>3, <3>4, <3>5, <3>6, <3>7
  <2> QED
    BY <1>1, <2>1
<1>5. CASE RegCommits(t)
  <2>1. regOp[t].pc = "commits" /\ regOp' = [regOp EXCEPT ![t] = AfterBatch(regOp[t])]
    BY <1>5 DEF RegCommits
  <2>2. \A u \in RegThreads : regOp'[u].kind # "import"
    <3>1. \A u \in RegThreads \ {t} : regOp[u].kind # "import"
      BY <2>1 DEF RegInv, ImportAlone
    <3>2. AfterBatch(regOp[t]).kind # "import"
      BY <1>1, AfterBatchType
    <3> QED
      BY <1>1, <2>1, <3>1, <3>2
  <2>3. DoneOf(regOp[t]) = regOp[t].copied
    BY <1>1, <2>1 DEF DoneOf, Current, Saving
  <2>4. ASSUME NEW e \in regOp[t].copied PROVE \E r \in regDb' : r.address = e[2] /\ e[3] \in r.modules
    <3>1. regTx[t].state = "writes" /\ HeldIn(regTx[t].rows, e, Named(regOp[t]))
      BY <1>1, <2>3 DEF Saving
    <3>2. regDb' = regTx[t].rows
      BY <1>5, <3>1 DEF RegCommits
    <3> QED
      BY <1>2, <3>1, <3>2 DEF HeldIn
  <2> QED
    BY <2>1, <2>2, <2>4
<1>6. ASSUME RegRequest(t) \/ RegLooksUp(t) \/ RegWrites(t) \/ ConstraintFails(t) \/ RegLocked(t) \/ ApiSaves(t)
      PROVE  regOp[t].pc # "commits" /\ regDb' = regDb
  <2>1. CASE RegRequest(t)
    <3>1. regOp[t].pc = "rests"
      BY <2>1 DEF RegRequest, RegAdds, RegAddsDevice, ApiAsks, RegAddsElsewhere, RegEdits, RegRemoves, ApiDeletes, Asked
    <3> QED
      BY <1>2, <3>1
  <2>2. CASE RegLooksUp(t)
    BY <2>2 DEF RegLooksUp
  <2>3. CASE RegWrites(t)
    <3>1. regOp[t].pc # "commits"
      BY <2>3 DEF RegWrites, Statement
    <3> QED
      BY <1>2, <2>3, <3>1 DEF RegWrites, CommitsNow
  <2>4. CASE ConstraintFails(t)
    BY <2>4 DEF ConstraintFails, RegGivesUp
  <2>5. CASE RegLocked(t)
    BY <2>5 DEF RegLocked, RegGivesUp
  <2>6. CASE ApiSaves(t)
    BY <2>6 DEF ApiSaves, Syncs
  <2> QED
    BY <1>6, <2>1, <2>2, <2>3, <2>4, <2>5, <2>6
<1>7. ~UNCHANGED regVars
  BY DEF regVars
<1>8. \/ RegRestart \/ RegCommits(t)
      \/ RegRequest(t) \/ RegLooksUp(t) \/ RegWrites(t) \/ ConstraintFails(t) \/ RegLocked(t) \/ ApiSaves(t)
  BY <1>4, <1>7 DEF RegNext
<1> QED
  BY <1>3, <1>5, <1>6, <1>8

(* A sync of the host list arrives as a whole: one that ends without an        *)
(* exception leaves every address of its list in the registry as a server of   *)
(* the update manager, and one that fails leaves nothing, however many threads *)
(* add, rename and delete servers meanwhile (server_registry.py).              *)
THEOREM SyncsAreWhole == RegSpec => SyncIsWhole
<1>1. ASSUME RegInv, [RegNext]_regVars
      PROVE  [\A t \in RegThreads : LET op == regOp[t] IN op.kind = "save" /\ regOp'[t] # op =>
                IF op.pc = "commits" /\ \A u \in RegThreads : regOp'[u].kind # "import"
                THEN \A e \in op.copied : \E r \in regDb' : r.address = e[2] /\ e[3] \in r.modules
                ELSE regDb' = regDb]_regVars
  BY <1>1, SyncSteps
<1> QED
  BY <1>1, RegInvHolds, PTL DEF RegSpec, SyncIsWhole

(* Tasks of HW Monitor keep their result, and a sync of the host list arrives  *)
(* in the registry as a whole or not at all.                                   *)
THEOREM WritesStay == HwTasksSpec /\ RegSpec => WritesAreKept
  BY TaskResultsStay, SyncsAreWhole DEF WritesAreKept

(* Each part of what requests do keeps its types, whatever the others do       *)
(* meanwhile: format tasks, restores, updates of FleetPilot, accounts.         *)
THEOREM RequestsTypeCorrect == Spec /\ RestoreSpec /\ UpdateSpec /\ AccountSpec => []RequestsTypeOK
<1> QED
  BY DiskTypeCorrect, RestoreTypeCorrect, UpdateTypeCorrect, AccountsTypeCorrect, PTL DEF RequestsTypeOK
=============================================================================

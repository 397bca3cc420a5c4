------------------------------ MODULE HwTasks ------------------------------
(***************************************************************************)
(* The task manager of HW Monitor (hw_monitor.py): each task has a thread, *)
(* which inserts the task's row, appends to its log and writes its result, *)
(* and requests that relabel and delete rows.                              *)
(***************************************************************************)
CONSTANT Tasks   \* bound: the tasks ever started; uuid4() gives each an id of its own

VARIABLES taskRow,     \* hw_tasks: the status of each id, "none" if there is no row
          taskThread,  \* what each task's thread is doing
          wentWell     \* history: the tasks whose action ran to its end

taskVars == <<taskRow, taskThread, wentWell>>

Results == {"success", "failed"}

HwTasksInit ==
    /\ taskRow = [t \in Tasks |-> "none"] /\ taskThread = [t \in Tasks |-> "unused"] /\ wentWell = {}

ThreadGoes(t, pc) == taskThread' = [taskThread EXCEPT ![t] = pc]
Labels(t, status) == taskRow' = [taskRow EXCEPT ![t] = status]

-----------------------------------------------------------------------------
(* api_hw_action() and start_task(): the id is answered before the row is     *)
(* there.                                                                     *)
StartsTask(t) ==
    /\ taskThread[t] = "unused" /\ ThreadGoes(t, "begins")
    /\ UNCHANGED <<taskRow, wentWell>>

(* _task_run()                                                                *)
InsertsRow(t) ==
    /\ taskThread[t] = "begins" /\ Labels(t, "running") /\ ThreadGoes(t, "acts")
    /\ UNCHANGED wentWell

(* The action ends, and what the remote command answered is a success; only an*)
(* exception is none, of which the log alone has any.                         *)
ActionEnds(t) ==
    /\ taskThread[t] = "acts" /\ ThreadGoes(t, "success") /\ wentWell' = wentWell \cup {t}
    /\ UNCHANGED taskRow

ActionRaises(t) ==
    /\ taskThread[t] = "acts" /\ ThreadGoes(t, "failed")
    /\ UNCHANGED <<taskRow, wentWell>>

(* The database stays locked: the thread dies of it.                          *)
ThreadDies(t) ==
    /\ taskThread[t] \in {"begins", "acts"} \cup Results /\ ThreadGoes(t, "ended")
    /\ UNCHANGED <<taskRow, wentWell>>

\* Mutant: the result is written with a new row.
Replaced(t) == taskThread[t]

(* UPDATE hw_tasks: over "cancelled" too, but a row that is gone stays so.    *)
Updated(t) == IF taskRow[t] = "none" THEN "none" ELSE taskThread[t]

WritesResult(t) ==
    /\ taskThread[t] \in Results /\ Labels(t, Updated(t)) /\ ThreadGoes(t, "ended")
    /\ UNCHANGED wentWell

-----------------------------------------------------------------------------
\* Mutant: whatever the row's status.
RelabelsAny(t) == IF taskRow[t] # "none" THEN "cancelled" ELSE "none"

(* "WHERE id=? AND status='running'"; the thread goes on.                     *)
Relabelled(t) == IF taskRow[t] = "running" THEN "cancelled" ELSE taskRow[t]

(* api_hw_task_cancel()                                                       *)
CancelsTask(t) ==
    /\ taskRow[t] # "none" /\ Labels(t, Relabelled(t))
    /\ UNCHANGED <<taskThread, wentWell>>

(* api_hw_task_delete(), of a row the page shows                              *)
DeletesTask(t) ==
    /\ taskRow[t] # "none" /\ Labels(t, "none")
    /\ UNCHANGED <<taskThread, wentWell>>

(* api_hw_tasks_clear()                                                       *)
ClearsTasks ==
    /\ taskRow' = [t \in Tasks |-> IF taskRow[t] = "running" THEN "running" ELSE "none"]
    /\ UNCHANGED <<taskThread, wentWell>>

(* The process stops and starts: rows that say "running" stay.                *)
TasksRestart ==
    /\ taskThread' = [t \in Tasks |-> IF taskThread[t] = "unused" THEN "unused" ELSE "ended"]
    /\ UNCHANGED <<taskRow, wentWell>>

TaskThreadStep(t) == InsertsRow(t) \/ ActionEnds(t) \/ ActionRaises(t) \/ ThreadDies(t) \/ WritesResult(t)

HwTasksNext ==
    \/ ClearsTasks \/ TasksRestart
    \/ \E t \in Tasks : StartsTask(t) \/ TaskThreadStep(t) \/ CancelsTask(t) \/ DeletesTask(t)

HwTasksSpec == HwTasksInit /\ [][HwTasksNext]_taskVars

-----------------------------------------------------------------------------
(* However cancelling, deleting and clearing fall between the steps of a      *)
(* task's thread: a row says "success" only of an action that ran to its end, *)
(* a result is never relabelled, and a task that was deleted from the list    *)
(* does not come back.                                                        *)
ResultsStay ==
    [][\A t \in Tasks :
        /\ taskRow'[t] = "success" => t \in wentWell
        /\ taskRow[t] \in Results => taskRow'[t] \in {taskRow[t], "none"}
        /\ taskRow[t] # "none" /\ taskRow'[t] = "none" => taskThread'[t] # "begins"
        /\ taskRow[t] = "none" /\ taskThread[t] # "begins" => taskRow'[t] = "none"]_taskVars
=============================================================================

-------------------------- MODULE ShutdownSchedule --------------------------
(***************************************************************************)
(* Scheduled power-off of remote hosts (scheduled_shutdown.py and its      *)
(* routes in app.py).                                                      *)
(*                                                                         *)
(* A polling thread wakes every 30 seconds, reads the whole schedules      *)
(* table, and runs one after the other the schedules due in the minute in  *)
(* which the pass began, over SSH.  _fired, in memory, remembers the last  *)
(* minute each schedule was fired in.  Request threads add, edit, toggle,  *)
(* delete and run schedules meanwhile.                                     *)
(*                                                                         *)
(* Time is counted in units of 30 seconds, two to a minute.  A pass takes  *)
(* no time but for the SSH commands it waits for: a command to a host in   *)
(* Slow takes up to Patience units (ssh_helper.create_client() allows 15 s *)
(* to connect, 15 s for the banner, 30 s for the sign-in, then, after a    *)
(* failed handshake, all of that again, and the command its own timeout),  *)
(* others none that matters.                                               *)
(***************************************************************************)
EXTENDS Naturals, FiniteSets

CONSTANTS Ids,            \* schedule ids, given out once (AUTOINCREMENT)
          Slow,           \* schedules whose host can take long to answer
          Patience,       \* the units such a host can take
          MinutesPerDay,  \* a short day
          DaysPerWeek,    \* a short week
          MaxTime,        \* bound: the last unit of time
          MaxEdits,       \* bound: operator actions, changes to the table and runs by hand
          NoRow

ASSUME ClockConstants == /\ MinutesPerDay \in Nat \ {0} /\ DaysPerWeek \in Nat \ {0}
                         /\ MaxTime \in Nat /\ MaxEdits \in Nat /\ Patience \in Nat
ASSUME ScheduleConstants == Slow \subseteq Ids /\ NoRow \notin Ids

VARIABLES now,     \* wall clock
          up,      \* the process runs
          rows,    \* the schedules table
          edits,   \* operator actions so far
          log,     \* the shutdown_log table
          fired,   \* _fired: minute after which a schedule may fire again, 0 if none
          poller,  \* the polling thread
          manual,  \* the run_now request in progress, a schedule or NoRow
          sent,    \* history: commands the poller issued per schedule and minute, in this run
          since,   \* history: when a row, or the process, last changed
          failed,  \* history: whether the database refused something, in this run
          outlasted \* history: minutes half over when a pass from before was still waiting

table == <<rows, edits, since>>
history == <<sent, failed, outlasted>>
vars == <<now, up, table, log, fired, poller, manual, history>>

Minutes == 0 .. MaxTime \div 2
Minute(t) == t \div 2
Row == [at : 0 .. MinutesPerDay - 1, days : SUBSET (0 .. DaysPerWeek - 1), enabled : BOOLEAN]

(* The conditions of the loop body of _run_due. *)
Due(row, m) == /\ row # NoRow /\ row.enabled
               /\ row.at = m % MinutesPerDay
               /\ (m \div MinutesPerDay) % DaysPerWeek \in row.days

(* fired.get(id) == current_minute; minutes are stored shifted by one so that 0 means none. *)
FiredIn(id, m) == fired[id] = m + 1

Asleep(t) == [pc |-> "sleep", wake |-> t, list |-> {}, minute |-> 0, cur |-> NoRow]
NothingSent == [id \in Ids |-> [m \in Minutes |-> 0]]

Init == /\ now = 0 /\ up = TRUE
        /\ rows \in [Ids -> {r \in Row : r.days # {}} \cup {NoRow}]
        /\ edits = 0 /\ log = {}
        /\ fired = [id \in Ids |-> 0]
        /\ poller = Asleep(0)
        /\ manual = NoRow
        /\ sent = NothingSent
        /\ since = [id \in Ids |-> 0] /\ failed = FALSE /\ outlasted = {}

-----------------------------------------------------------------------------
(* The pages.  The form accepts at least one day. *)
Change(id, row) ==
    /\ up /\ edits < MaxEdits
    /\ rows' = [rows EXCEPT ![id] = row]
    /\ edits' = edits + 1
    /\ since' = [since EXCEPT ![id] = now]

SaveSchedule(id, row) ==
    /\ row.days # {} /\ Change(id, row)
    /\ UNCHANGED <<now, up, log, fired, poller, manual, history>>

ToggleSchedule(id) ==
    /\ rows[id] # NoRow /\ Change(id, [rows[id] EXCEPT !.enabled = ~@])
    /\ UNCHANGED <<now, up, log, fired, poller, manual, history>>

DeleteSchedule(id) ==
    /\ rows[id] # NoRow /\ Change(id, NoRow)
    /\ log' = {e \in log : e.id # id}
    /\ UNCHANGED <<now, up, fired, poller, manual, history>>

LogRow(id, by, m, ok) == [id |-> id, by |-> by, minute |-> m, ok |-> ok]

(* run_now reads the schedule, executes it, and logs; it does not look at _fired. *)
RunNow(id) ==
    /\ up /\ manual = NoRow /\ rows[id] # NoRow /\ edits < MaxEdits
    /\ manual' = id
    /\ edits' = edits + 1
    /\ UNCHANGED <<now, up, rows, since, log, fired, poller, history>>

RunNowLogs(ok) ==
    /\ manual # NoRow
    /\ log' = log \cup {LogRow(manual, "user", Minute(now), ok)}
    /\ manual' = NoRow
    /\ UNCHANGED <<now, up, table, fired, poller, history>>

-----------------------------------------------------------------------------
(* The polling thread. *)
PassBegins ==
    /\ up /\ poller.pc = "sleep" /\ poller.wake <= now
    /\ poller' = [pc |-> "pass", wake |-> now, minute |-> Minute(now), cur |-> NoRow,
                  list |-> {id \in Ids : Due(rows[id], Minute(now)) /\ ~FiredIn(id, Minute(now))}]
    /\ UNCHANGED <<now, up, table, log, fired, manual, history>>

Waits(id) == 0 .. IF id \in Slow THEN Patience ELSE 0

\* Mutant: the schedule counts as fired only once its run is logged.
FireUnmarked(id) ==
    /\ poller.pc = "pass" /\ id \in poller.list
    /\ sent' = [sent EXCEPT ![id][poller.minute] = @ + 1]
    /\ \E wait \in Waits(id) :
         /\ now + wait <= MaxTime
         /\ poller' = [poller EXCEPT !.pc = "exec", !.wake = now + wait, !.cur = id, !.list = @ \ {id}]
    /\ UNCHANGED <<now, up, table, log, fired, manual, failed, outlasted>>

Fire(id) ==
    /\ poller.pc = "pass" /\ id \in poller.list
    /\ fired' = [fired EXCEPT ![id] = poller.minute + 1]
    /\ sent' = [sent EXCEPT ![id][poller.minute] = @ + 1]
    /\ \E wait \in Waits(id) :
         /\ now + wait <= MaxTime
         /\ poller' = [poller EXCEPT !.pc = "exec", !.wake = now + wait, !.cur = id, !.list = @ \ {id}]
    /\ UNCHANGED <<now, up, table, log, manual, failed, outlasted>>

\* Mutant: only a command that worked is logged.
LogsSuccess(ok) ==
    /\ poller.pc = "exec" /\ poller.wake <= now
    /\ log' = IF ok THEN log \cup {LogRow(poller.cur, "poller", poller.minute, ok)} ELSE log
    /\ poller' = [poller EXCEPT !.pc = "pass", !.cur = NoRow]
    /\ UNCHANGED <<now, up, table, fired, manual, history>>

(* _log_run, also for a schedule deleted during the command. *)
Logs(ok) ==
    /\ poller.pc = "exec" /\ poller.wake <= now
    /\ log' = log \cup {LogRow(poller.cur, "poller", poller.minute, ok)}
    /\ poller' = [poller EXCEPT !.pc = "pass", !.cur = NoRow]
    /\ UNCHANGED <<now, up, table, fired, manual, history>>

Sleeps == poller' = Asleep(now + 1)

\* Mutant: the thread sleeps a whole minute.
PassEndsDay ==
    /\ poller.pc = "pass" /\ poller.list = {}
    /\ poller' = Asleep(now + 2)
    /\ UNCHANGED <<now, up, table, log, fired, manual, history>>

PassEnds ==
    /\ poller.pc = "pass" /\ poller.list = {}
    /\ Sleeps
    /\ UNCHANGED <<now, up, table, log, fired, manual, history>>

\* Mutant: the exception ends the thread.
PassDies ==
    /\ poller.pc \in {"pass", "exec"} /\ poller.wake <= now
    /\ poller' = [poller EXCEPT !.pc = "dead"]
    /\ failed' = TRUE
    /\ UNCHANGED <<now, up, table, log, fired, manual, sent, outlasted>>

(* An exception of list_schedules or _log_run ends the pass; the loop logs it   *)
(* and sleeps.                                                                  *)
PassFails ==
    /\ poller.pc \in {"pass", "exec"} /\ poller.wake <= now
    /\ Sleeps
    /\ failed' = TRUE
    /\ UNCHANGED <<now, up, table, log, fired, manual, sent, outlasted>>

-----------------------------------------------------------------------------
Stop == /\ up
        /\ up' = FALSE /\ manual' = NoRow /\ poller' = Asleep(0)
        /\ fired' = [id \in Ids |-> 0]
        /\ sent' = NothingSent /\ failed' = FALSE /\ outlasted' = {}
        /\ UNCHANGED <<now, table, log>>

(* init_db clears _fired, start_polling starts the thread. *)
Boot == /\ ~up
        /\ up' = TRUE /\ poller' = Asleep(now)
        /\ since' = [id \in Ids |-> now]
        /\ UNCHANGED <<now, rows, edits, log, fired, manual, history>>

(* Time does not pass a moment at which the polling thread has something to do. *)
Tick == /\ now < MaxTime
        /\ up => poller.pc = "dead" \/ (poller.pc \in {"sleep", "exec"} /\ now < poller.wake)
        /\ now' = now + 1
        /\ outlasted' = IF poller.pc = "exec" /\ poller.minute < Minute(now') /\ now' = 2 * Minute(now') + 1
                        THEN outlasted \cup {Minute(now')} ELSE outlasted
        /\ UNCHANGED <<up, table, log, fired, poller, manual, sent, failed>>

Polling == \/ PassBegins \/ PassEnds
           \/ \E id \in Ids : Fire(id)
           \/ \E ok \in BOOLEAN : Logs(ok)

Next == \/ \E id \in Ids : (\E row \in Row : SaveSchedule(id, row)) \/ ToggleSchedule(id)
                           \/ DeleteSchedule(id) \/ RunNow(id)
        \/ \E ok \in BOOLEAN : RunNowLogs(ok)
        \/ Polling \/ PassFails
        \/ Stop \/ Boot \/ Tick

Spec == Init /\ [][Next]_vars

(* The thread runs and the clock goes on; systemd starts the service again.     *)
(* Nobody has to use the pages, and nothing has to fail.                        *)
Fairness == WF_vars(Polling) /\ WF_vars(Tick) /\ WF_vars(Boot)
FairSpec == Spec /\ Fairness

-----------------------------------------------------------------------------
LogEntry == [id : Ids, by : {"user", "poller"}, minute : Minutes, ok : BOOLEAN]

(* The type of the state; what a pass still has to fire is not yet fired in its *)
(* minute.                                                                      *)
TypeOK ==
    /\ now \in 0 .. MaxTime /\ up \in BOOLEAN
    /\ rows \in [Ids -> Row \cup {NoRow}] /\ edits \in 0 .. MaxEdits
    /\ log \subseteq LogEntry
    /\ fired \in [Ids -> 0 .. MaxTime \div 2 + 1]
    /\ poller \in [pc : {"sleep", "pass", "exec"}, wake : 0 .. MaxTime + 1, list : SUBSET Ids,
                   minute : Minutes, cur : Ids \cup {NoRow}]
    /\ \A id \in poller.list : ~FiredIn(id, poller.minute)
    /\ poller.pc = "exec" => poller.cur \in Ids
    /\ manual \in Ids \cup {NoRow}
    /\ sent \in [Ids -> [Minutes -> 0 .. 2]]
    /\ since \in [Ids -> 0 .. MaxTime] /\ failed \in BOOLEAN /\ outlasted \subseteq Minutes

(* One run of the process powers a host off at most once for one occurrence of  *)
(* a schedule, although two or three passes fall into its minute, a pass can be *)
(* cut short by the database, and the row can be edited in between.             *)
OncePerMinute == \A id \in Ids, m \in Minutes : sent[id][m] <= 1

(* "checks every minute whether any schedule is due and executes the shutdown   *)
(* command" (scheduled_shutdown.py): a schedule that stood in the table, due in *)
(* the last minute, since before that minute has been fired, or is on the list  *)
(* of the pass that began in that minute.  Besides a database that refuses      *)
(* something, one thing alone makes the thread miss a minute: hosts that hold a *)
(* pass begun earlier until the minute is half over.                            *)
DueIsFired ==
    now >= 2 /\ up /\ ~failed => LET last == Minute(now) - 1 IN
        \A id \in Ids : Due(rows[id], last) /\ since[id] < 2 * last
            => sent[id][last] > 0 \/ (poller.minute = last /\ id \in poller.list) \/ last \in outlasted

(* "Recent Activity shows what ran and whether it worked" (docs/user-guide.md): *)
(* every command the poller is done with has its row, unless the schedule was   *)
(* deleted with its log or the database refused it.                             *)
LogShowsRuns ==
    \A id \in Ids, m \in Minutes :
        sent[id][m] > 0 /\ ~failed /\ since[id] < 2 * m /\ poller.cur # id
            => \E e \in log : e.id = id /\ e.by = "poller" /\ e.minute = m

(* A pass ends, whatever the database or the hosts do, and the thread is there  *)
(* for the next one.                                                            *)
PassesEnd == (poller.pc # "sleep") ~> (poller.pc = "sleep")
=============================================================================

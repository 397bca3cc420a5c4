---------------------------- MODULE BackupPolling ----------------------------
(***************************************************************************)
(* The backup servers that FleetPilot watches (backup_controller.py and    *)
(* its routes in app.py): one polling thread for each, pages that poll as  *)
(* well, and one lock around everything that writes the database.          *)
(*                                                                         *)
(* A poll reads the server's row, asks the server, replaces the jobs and   *)
(* snapshots it had of it, and writes the status.  Some kinds are asked    *)
(* for more while the lock is held.  Threads are kept in dictionaries by   *)
(* the server's number, and are told to stop by an event.                  *)
(***************************************************************************)
EXTENDS Naturals

CONSTANTS MaxServers,   \* bound: servers ever added
          ServerTypes,  \* the types in use
          Pages,        \* request threads that poll
          MaxPollStops  \* bound: restarts of the process

ASSUME BackupBounds ==
    /\ MaxServers \in Nat \ {0} /\ MaxPollStops \in Nat
    /\ ServerTypes \subseteq {"pbs", "duplicati", "restic", "borgwarehouse", "urbackup", "bacula", "ssh_generic"}
    /\ Pages \cap (0 .. MaxServers) = {}

VARIABLES type,       \* backup_servers: the server's type, "none" if there is no row
          nextId,     \* its AUTOINCREMENT counter
          shown,      \* backup_servers.last_status
          starting,   \* added, and start_polling() to be called
          deleting,   \* stop_polling() was called, delete_server() is to be
          loop,       \* _poll_threads
          stop,       \* _poll_stop: the events that are set
          poll,       \* the poll that a thread or a page is at
          dbLock,     \* who holds _db_lock, 0 for nobody
          pollStops

backupVars == <<type, nextId, shown, starting, deleting, loop, stop, poll, dbLock, pollStops>>

ServerIds == 1 .. MaxServers
Pollers == ServerIds \cup Pages
Replies == {"certificate", "silence", "refusal", "data"}

NoPoll == [pc |-> "none", id |-> 1, type |-> "none", ok |-> FALSE]
Existing(id) == type[id] # "none"

BackupInit ==
    /\ type = [id \in ServerIds |-> "none"] /\ nextId = 1
    /\ shown = [id \in ServerIds |-> "unknown"]
    /\ starting = {} /\ deleting = {}
    /\ loop = [id \in ServerIds |-> "none"] /\ stop = {}
    /\ poll = [p \in Pollers |-> NoPoll] /\ dbLock = 0 /\ pollStops = 0

serverTable == <<type, nextId>>
requests == <<starting, deleting>>
threads == <<loop, stop>>

-----------------------------------------------------------------------------
\* Mutant: the number of a deleted server is given out again.
NewIdReused == IF nextId > MaxServers THEN nextId ELSE CHOOSE id \in ServerIds : ~Existing(id)

NewId == nextId

(* backup_add(): the row.  The form's notes are passed where use_sudo is      *)
(* expected: only notes that are a number get this far.                       *)
Adds(t) ==
    /\ NewId \in ServerIds /\ ~Existing(NewId) /\ dbLock = 0
    /\ type' = [type EXCEPT ![NewId] = t] /\ nextId' = nextId + 1
    /\ shown' = [shown EXCEPT ![NewId] = "unknown"]
    /\ starting' = starting \cup {NewId}
    /\ UNCHANGED <<deleting, threads, poll, dbLock, pollStops>>

Alive(id) == loop[id] # "none"

(* start_polling(): nothing if the server's thread is alive.                  *)
Starts(id) ==
    /\ id \in starting /\ starting' = starting \ {id}
    /\ IF Alive(id) THEN UNCHANGED threads
       ELSE loop' = [loop EXCEPT ![id] = "sleeps"] /\ stop' = stop \ {id}
    /\ UNCHANGED <<serverTable, shown, deleting, poll, dbLock, pollStops>>

Edits(id, t) ==
    /\ Existing(id) /\ dbLock = 0
    /\ type' = [type EXCEPT ![id] = t]
    /\ UNCHANGED <<nextId, shown, requests, threads, poll, dbLock, pollStops>>

(* backup_delete(): stop_polling(), then delete_server().  SQLite's foreign   *)
(* keys are off: jobs and snapshots stay.                                     *)
StopsPolling(id) ==
    /\ Existing(id) /\ id \notin deleting /\ deleting' = deleting \cup {id}
    /\ stop' = stop \cup {id}
    /\ UNCHANGED <<serverTable, shown, starting, loop, poll, dbLock, pollStops>>

Deletes(id) ==
    /\ id \in deleting /\ deleting' = deleting \ {id} /\ dbLock = 0
    /\ type' = [type EXCEPT ![id] = "none"]
    /\ UNCHANGED <<nextId, shown, starting, threads, poll, dbLock, pollStops>>

(* _poll_loop(): five seconds' sleep, then a poll whenever the event is not   *)
(* set, which also ends the wait.                                             *)
LoopTests(id) ==
    /\ loop[id] \in {"sleeps", "waits"}
    /\ IF id \in stop
       THEN loop' = [loop EXCEPT ![id] = "none"] /\ UNCHANGED poll
       ELSE /\ loop' = [loop EXCEPT ![id] = "polls"]
            /\ poll' = [poll EXCEPT ![id] = [NoPoll EXCEPT !.pc = "gets", !.id = id]]
    /\ UNCHANGED <<serverTable, shown, requests, stop, dbLock, pollStops>>

(* backup_refresh()                                                           *)
PageRefreshes(p, id) ==
    /\ poll[p].pc = "none"
    /\ poll' = [poll EXCEPT ![p] = [NoPoll EXCEPT !.pc = "gets", !.id = id]]
    /\ UNCHANGED <<serverTable, shown, requests, threads, dbLock, pollStops>>

PollEnds(p) == /\ poll' = [poll EXCEPT ![p] = NoPoll]
               /\ loop' = IF p \in ServerIds THEN [loop EXCEPT ![p] = "waits"] ELSE loop

(* poll_server(): the row, if it is there ...                                 *)
Gets(p) ==
    /\ poll[p].pc = "gets"
    /\ IF Existing(poll[p].id)
       THEN poll' = [poll EXCEPT ![p].pc = "asks", ![p].type = type[poll[p].id]] /\ UNCHANGED loop
       ELSE PollEnds(p)
    /\ UNCHANGED <<serverTable, shown, requests, stop, dbLock, pollStops>>

(* ... the server's answer: what each type takes for a failure, before it     *)
(* touches the database.  Only a certificate that is refused fails the Proxmox*)
(* Backup Server: it takes no answer, and any HTTP error, for an empty list, as*)
(* Duplicati does with an error; Bacula's exit status is that of "head".      *)
PbsFails(a)           == a = "certificate"
DuplicatiFails(a)     == a \in {"certificate", "silence"}
ResticFails(a)        == a # "data"
BorgwarehouseFails(a) == a # "data"
UrbackupFails(a)      == a # "data"
BaculaFails(a)        == a = "silence"
SshFails(a)           == FALSE

PollFails(t, a) == CASE t = "pbs"           -> PbsFails(a)
                     [] t = "duplicati"     -> DuplicatiFails(a)
                     [] t = "restic"        -> ResticFails(a)
                     [] t = "borgwarehouse" -> BorgwarehouseFails(a)
                     [] t = "urbackup"      -> UrbackupFails(a)
                     [] t = "bacula"        -> BaculaFails(a)
                     [] OTHER               -> SshFails(a)

AsksServer(p, a) ==
    LET t == poll[p].type IN
    /\ poll[p].pc = "asks"
    /\ a = "certificate" => t \notin {"bacula", "ssh_generic"}
    /\ poll' = [poll EXCEPT ![p].pc = IF PollFails(t, a) THEN "shows" ELSE "locks",
                            ![p].ok = ~PollFails(t, a) /\ (t = "ssh_generic" => a = "data")]
    /\ UNCHANGED <<serverTable, shown, requests, threads, dbLock, pollStops>>

(* "with _db_lock": DELETE, INSERT and, for some types, more requests; ...    *)
Locks(p) ==
    /\ poll[p].pc = "locks" /\ dbLock = 0
    /\ dbLock' = p /\ poll' = [poll EXCEPT ![p].pc = "stores"]
    /\ UNCHANGED <<serverTable, shown, requests, threads, pollStops>>

\* Mutant: the lock is released after the commit, by hand.
UnlockedHolds(p) == dbLock

Unlocked(p) == 0

(* ... then the commit, or an exception for data nobody expected, which rolls *)
(* back.                                                                      *)
Stores(p) ==
    /\ poll[p].pc = "stores"
    /\ poll' = [poll EXCEPT ![p].pc = "shows"] /\ dbLock' = 0
    /\ UNCHANGED <<serverTable, shown, requests, threads, pollStops>>

StoreRaises(p) ==
    /\ poll[p].pc = "stores"
    /\ poll' = [poll EXCEPT ![p].pc = "shows", ![p].ok = FALSE] /\ dbLock' = Unlocked(p)
    /\ UNCHANGED <<serverTable, shown, requests, threads, pollStops>>

(* ... and the status.                                                        *)
Shows(p) ==
    /\ poll[p].pc = "shows" /\ dbLock = 0
    /\ shown' = IF Existing(poll[p].id)
                THEN [shown EXCEPT ![poll[p].id] = IF poll[p].ok THEN "ok" ELSE "error"] ELSE shown
    /\ PollEnds(p)
    /\ UNCHANGED <<serverTable, requests, stop, dbLock, pollStops>>

(* The process restarts: start_all_polling().                                 *)
PollRestart ==
    /\ pollStops < MaxPollStops /\ pollStops' = pollStops + 1
    /\ loop' = [id \in ServerIds |-> IF Existing(id) THEN "sleeps" ELSE "none"] /\ stop' = {}
    /\ poll' = [p \in Pollers |-> NoPoll] /\ dbLock' = 0
    /\ starting' = {} /\ deleting' = {}
    /\ UNCHANGED <<serverTable, shown>>

PollStep(p) == Gets(p) \/ (\E a \in Replies : AsksServer(p, a)) \/ Locks(p) \/ Stores(p) \/ StoreRaises(p) \/ Shows(p)
BackupNext ==
    \/ \E p \in Pollers : PollStep(p)
    \/ \E id \in ServerIds : \/ Starts(id) \/ StopsPolling(id) \/ Deletes(id) \/ LoopTests(id)
                             \/ \E t \in ServerTypes : Edits(id, t)
                             \/ \E p \in Pages : PageRefreshes(p, id)
    \/ \E t \in ServerTypes : Adds(t)
    \/ PollRestart

BackupSpec == BackupInit /\ [][BackupNext]_backupVars

-----------------------------------------------------------------------------
PollType == [pc : {"none", "gets", "asks", "locks", "stores", "shows"}, id : ServerIds,
             type : ServerTypes \cup {"none"}, ok : BOOLEAN]

(* The type of the state; the lock's holder is the one poll that stores.      *)
BackupTypeOK ==
    /\ type \in [ServerIds -> ServerTypes \cup {"none"}] /\ nextId \in 1 .. MaxServers + 1
    /\ shown \in [ServerIds -> {"unknown", "ok", "error"}]
    /\ starting \subseteq ServerIds /\ deleting \subseteq ServerIds
    /\ loop \in [ServerIds -> {"none", "sleeps", "polls", "waits"}] /\ stop \subseteq ServerIds
    /\ poll \in [Pollers -> PollType] /\ pollStops \in 0 .. MaxPollStops
    /\ \A p \in Pollers : poll[p].pc = "stores" <=> dbLock = p
    /\ dbLock \in Pollers \cup {0}
    /\ \A id \in ServerIds : loop[id] = "polls" <=> poll[id].pc # "none"

(* A server that is listed is polled: its thread is alive and not told to stop,*)
(* whatever was deleted, added and restarted before, unless a request is at   *)
(* work on just that.                                                         *)
ServersArePolled ==
    \A id \in ServerIds : Existing(id) => \/ id \in starting \cup deleting
                                          \/ Alive(id) /\ id \notin stop
=============================================================================

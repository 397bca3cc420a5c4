--------------------------- MODULE ServerRegistry ---------------------------
(***************************************************************************)
(* The central registry of servers (server_registry.py): a SQLite table    *)
(* that each save of the host list is copied into, that pages add to and   *)
(* delete from, and that a start fills from the databases of the modules.  *)
(*                                                                         *)
(* Each thread of the server keeps a connection of its own.  A change is a *)
(* SELECT and then an INSERT or UPDATE, which begins a transaction: it is  *)
(* committed at once, or at the end of batch(), which alone rolls back     *)
(* when something fails.                                                   *)
(***************************************************************************)
EXTENDS Naturals, FiniteSets

CONSTANTS RegThreads,    \* threads of requests
          MaxRegNames,   \* bound: names of servers
          RegAddresses,
          MaxRegRequests \* bound

ASSUME RegBounds == MaxRegNames \in Nat

VARIABLES regHosts,    \* the host list: names and addresses
          regDevices,  \* the tables of the other modules: names, addresses and modules
          regDb,       \* the table, as committed
          regTx,       \* the transaction that each thread's connection is in
          regOp,       \* what each thread is at
          regCount

regVars == <<regHosts, regDevices, regDb, regTx, regOp, regCount>>

RegNames == 1 .. MaxRegNames
NoEntry == <<0, "", "">>

\* todo: entries still to copy, as name, address and module; found: the row that the entry was found in, or is;
\* copied: what batch() is to commit; again: what is copied once more after it
NoOp == [pc |-> "rests", kind |-> "none", batch |-> FALSE, todo |-> {}, entry |-> NoEntry, found |-> 0,
         copied |-> {}, again |-> NoEntry]
NoTx == [state |-> "none", rows |-> {}]

(* Hosts that were saved before, each with its entry.                         *)
RegInit ==
    /\ \E names \in SUBSET RegNames : \E address \in [names -> RegAddresses] :
           /\ regHosts = {<<n, address[n]>> : n \in names}
           /\ regDb = {[id |-> n, name |-> n, address |-> address[n], modules |-> {"update_manager"}] : n \in names}
    /\ regDevices = {}
    /\ regTx = [t \in RegThreads |-> NoTx]
    /\ regOp = [t \in RegThreads |-> NoOp] /\ regCount = 0

-----------------------------------------------------------------------------
(* _conn(): inside a transaction a thread sees its own changes, or the table  *)
(* as it was at its first SELECT.                                             *)
View(t) == IF regTx[t].state \in {"reads", "writes"} THEN regTx[t].rows ELSE regDb

(* A number that nobody knows: AUTOINCREMENT gives none out twice.            *)
UsedIds == {r.id : r \in regDb \cup UNION {regTx[t].rows : t \in RegThreads}} \cup {regOp[t].found : t \in RegThreads}
NewRowId == CHOOSE i \in 1 .. Cardinality(UsedIds) + 1 : i \notin UsedIds

RowsOf(rows) == {r.id : r \in rows}

(* "WHERE name=? OR host=?", of which SQLite tries the name first.            *)
Matching(rows, e) ==
    LET named == RowsOf({r \in rows : r.name = e[1]})
        addressed == RowsOf({r \in rows : r.address = e[2]}) IN
    IF named # {} THEN named ELSE IF addressed # {} THEN addressed ELSE {0}

(* upsert_server(): the SELECT.                                               *)
RegLooksUp(t) ==
    /\ regOp[t].pc = "looks"
    /\ \E i \in Matching(View(t), regOp[t].entry) : regOp' = [regOp EXCEPT ![t].pc = "writes", ![t].found = i]
    /\ regTx' = IF regTx[t].state = "begun" THEN [regTx EXCEPT ![t] = [state |-> "reads", rows |-> regDb]] ELSE regTx
    /\ UNCHANGED <<regHosts, regDevices, regDb, regCount>>

(* What each statement makes of the table, in a set that is empty if a        *)
(* constraint fails: a name that is taken, a registration for a row that is   *)
(* gone.                                                                      *)
Upserted(rows, op) ==
    LET e == op.entry IN
    IF \E r \in rows : r.name = e[1] /\ r.id # op.found THEN {}
    ELSE IF op.found = 0 THEN {rows \cup {[id |-> NewRowId, name |-> e[1], address |-> e[2], modules |-> {}]}}
    ELSE {{IF r.id = op.found THEN [r EXCEPT !.name = e[1], !.address = e[2]] ELSE r : r \in rows}}

Registered(rows, op) ==
    IF \A r \in rows : r.id # op.found THEN {}
    ELSE {{IF r.id = op.found THEN [r EXCEPT !.modules = @ \cup {op.entry[3]}] ELSE r : r \in rows}}

RowDeleted(rows, op) == {{r \in rows : r.id # op.found}}

Statement(t) ==
    CASE regOp[t].pc = "writes"    -> Upserted(View(t), regOp[t])
      [] regOp[t].pc = "registers" -> Registered(View(t), regOp[t])
      [] regOp[t].pc = "deletes"   -> RowDeleted(View(t), regOp[t])
      [] OTHER                     -> {}

-----------------------------------------------------------------------------
(* The order in which a start imports them; within one, any entry is next.    *)
ImportOrder == <<"update_manager", "hw_monitor", "fan_control", "backup">>

NextEntries(op) ==
    LET First(i) == \E e \in op.todo : e[3] = ImportOrder[i] /\ \A f \in op.todo : \E k \in i .. 4 : f[3] = ImportOrder[k]
        next == {e \in op.todo : \E i \in 1 .. 4 : e[3] = ImportOrder[i] /\ First(i)} IN
    IF next = {} THEN {[op EXCEPT !.pc = "commits"]}
    ELSE {[op EXCEPT !.pc = "looks", !.entry = e, !.todo = @ \ {e}, !.found = 0] : e \in next}

Following(op) ==
    CASE op.pc = "writes" -> {[op EXCEPT !.pc = IF op.kind = "api" /\ ~op.batch THEN "saves" ELSE "registers"]}
      [] op.pc = "deletes" -> {[op EXCEPT !.pc = "saves"]}
      [] op.pc = "registers" /\ op.batch -> NextEntries(op)
      [] OTHER -> {NoOp}

(* manage_hosts(): the host that was added is copied once more.               *)
AfterBatch(op) ==
    IF op.again = NoEntry THEN NoOp ELSE [NoOp EXCEPT !.pc = "looks", !.kind = "add", !.entry = op.again]

LockFree(t) == \A u \in RegThreads \ {t} : regTx[u].state # "writes"
UpToDate(t) == regTx[t].state = "reads" => regTx[t].rows = regDb

\* Mutant: _commit() commits inside batch() as well.
CommitsAlways(op) == TRUE

\* "Commit now, unless inside batch()"
CommitsNow(op) == ~op.batch

RegWrites(t) ==
    /\ LockFree(t) /\ UpToDate(t)
    /\ \E rows \in Statement(t) :
           IF CommitsNow(regOp[t])
           THEN regDb' = rows /\ regTx' = [regTx EXCEPT ![t] = NoTx]
           ELSE regTx' = [regTx EXCEPT ![t] = [state |-> "writes", rows |-> rows]] /\ UNCHANGED regDb
    /\ \E next \in Following([regOp[t] EXCEPT !.found = IF @ = 0 THEN NewRowId ELSE @]) :
           regOp' = [regOp EXCEPT ![t] = next]
    /\ UNCHANGED <<regHosts, regDevices, regCount>>

(* What an exception ends: batch() rolls back, and an import goes on with the *)
(* next entry instead.                                                        *)
RegGivesUp(t, left) ==
    /\ \E next \in CASE regOp[t].kind = "import" -> NextEntries(regOp[t])
                     [] regOp[t].kind # "import" /\ regOp[t].batch -> {AfterBatch(regOp[t])}
                     [] OTHER -> {NoOp} : regOp' = [regOp EXCEPT ![t] = next]
    /\ regTx' = [regTx EXCEPT ![t] = IF regOp[t].batch /\ regOp[t].kind # "import" THEN NoTx ELSE left]
    /\ UNCHANGED <<regHosts, regDevices, regDb, regCount>>

(* A constraint fails: outside batch() the transaction stays open, and keeps  *)
(* the lock of all writers, ...                                               *)
ConstraintFails(t) ==
    /\ regOp[t].pc \in {"writes", "registers"} /\ LockFree(t) /\ UpToDate(t) /\ Statement(t) = {}
    /\ RegGivesUp(t, [state |-> "writes", rows |-> View(t)])

(* ... and so it does, without the lock, after fifteen seconds of waiting for *)
(* it, or at once if others have written since its first SELECT.              *)
RegLocked(t) ==
    /\ regOp[t].pc \in {"writes", "registers", "deletes"} /\ (~LockFree(t) \/ regTx[t].state = "reads")
    /\ RegGivesUp(t, IF regTx[t].state = "none" THEN [state |-> "begun", rows |-> {}] ELSE regTx[t])

(* The end of batch(); without a statement there is nothing to commit.        *)
RegCommits(t) ==
    /\ regOp[t].pc = "commits"
    /\ regDb' = IF regTx[t].state = "writes" THEN regTx[t].rows ELSE regDb
    /\ regTx' = [regTx EXCEPT ![t] = NoTx]
    /\ regOp' = [regOp EXCEPT ![t] = AfterBatch(@)]
    /\ UNCHANGED <<regHosts, regDevices, regCount>>

-----------------------------------------------------------------------------
Asked(t) ==
    /\ regOp[t].pc = "rests" /\ regCount < MaxRegRequests /\ regCount' = regCount + 1
    /\ \A u \in RegThreads : regOp[u].kind # "import"

HostEntries(hosts) == {<<h[1], h[2], "update_manager">> : h \in hosts}

(* save_hosts() and _sync_hosts_to_registry(): batch() around the hosts, one  *)
(* after the other.                                                           *)
Syncs(t, hosts, again) ==
    /\ regHosts' = hosts
    /\ \E next \in NextEntries([NoOp EXCEPT !.kind = "save", !.batch = TRUE, !.todo = HostEntries(hosts),
                                          !.copied = HostEntries(hosts), !.again = again]) :
           regOp' = [regOp EXCEPT ![t] = next]
    /\ UNCHANGED <<regDevices, regDb, regTx>>

With(name, address) == {h \in regHosts : h[1] # name} \cup {<<name, address>>}
HostsWithout(name) == {h \in regHosts : h[1] # name}

(* manage_hosts(), edit_host() and delete_host()                              *)
RegAdds(t, name, address) == Asked(t) /\ Syncs(t, With(name, address), <<name, address, "update_manager">>)
RegEdits(t, old, name, address) ==
    /\ Asked(t) /\ old \in {h[1] : h \in regHosts}
    /\ Syncs(t, {h \in With(name, address) : h[1] = old => h[1] = name}, NoEntry)
RegRemoves(t, name) == Asked(t) /\ name \in {h[1] : h \in regHosts} /\ Syncs(t, HostsWithout(name), NoEntry)

(* fc_add(): the device, and its entry, for a module that the import calls    *)
(* "fan_control".                                                             *)
RegAddsDevice(t, name, address) ==
    /\ Asked(t) /\ regDevices' = regDevices \cup {<<name, address, "fan_control">>}
    /\ regOp' = [regOp EXCEPT ![t] = [NoOp EXCEPT !.pc = "looks", !.kind = "device",
                                                 !.entry = <<name, address, "fan_controller">>]]
    /\ UNCHANGED <<regHosts, regDb, regTx>>

(* Servers of HW Monitor and of backups come to the registry at a start.      *)
RegAddsElsewhere(t, name, address) ==
    /\ Asked(t) /\ \E m \in {"hw_monitor", "backup"} : regDevices' = regDevices \cup {<<name, address, m>>}
    /\ UNCHANGED <<regHosts, regDb, regTx, regOp>>

(* api_registry_add_server() and api_registry_delete_server(): the entry, and *)
(* then the host list, which is synced.                                       *)
ApiAsks(t, name, address) ==
    /\ Asked(t)
    /\ regOp' = [regOp EXCEPT ![t] = [NoOp EXCEPT !.pc = "looks", !.kind = "api", !.entry = <<name, address, "">>]]
    /\ UNCHANGED <<regHosts, regDevices, regDb, regTx>>

ApiDeletes(t, row) ==
    /\ Asked(t) /\ row \in View(t)
    /\ regOp' = [regOp EXCEPT ![t] = [NoOp EXCEPT !.pc = "deletes", !.kind = "delete", !.found = row.id,
                                                 !.entry = <<row.name, row.address, "">>]]
    /\ regTx' = IF regTx[t].state = "begun" THEN [regTx EXCEPT ![t] = [state |-> "reads", rows |-> regDb]] ELSE regTx
    /\ UNCHANGED <<regHosts, regDevices, regDb>>

ApiSaves(t) ==
    LET op == regOp[t] IN
    /\ op.pc = "saves"
    /\ Syncs(t, IF op.kind = "api" THEN With(op.entry[1], op.entry[2]) ELSE HostsWithout(op.entry[1]), NoEntry)
    /\ UNCHANGED regCount

(* What is imported: the host list, ...                                       *)
HostsToImport == HostEntries(regHosts)

(* ... the servers of HW Monitor, ...                                         *)
MonitoredToImport == {d \in regDevices : d[3] = "hw_monitor"}

(* ... the hosts of fan controllers ...                                       *)
FansToImport == {d \in regDevices : d[3] = "fan_control"}

(* ... and the backup servers.                                                *)
BackupsToImport == {d \in regDevices : d[3] = "backup"}

(* The process restarts, and imports before it serves requests.               *)
RegRestart ==
    /\ regCount > 0
    /\ regTx' = [t \in RegThreads |-> NoTx]
    /\ LET main == CHOOSE t \in RegThreads : TRUE IN
       \E next \in NextEntries([NoOp EXCEPT !.kind = "import", !.batch = TRUE,
                                 !.todo = HostsToImport \cup MonitoredToImport \cup FansToImport \cup BackupsToImport]) :
           regOp' = [t \in RegThreads |-> IF t = main THEN next ELSE NoOp]
    /\ UNCHANGED <<regHosts, regDevices, regDb, regCount>>

RegRequest(t) ==
    \/ \E n \in RegNames, a \in RegAddresses : RegAdds(t, n, a) \/ RegAddsDevice(t, n, a) \/ ApiAsks(t, n, a)
                                            \/ RegAddsElsewhere(t, n, a)
                                            \/ \E old \in RegNames : RegEdits(t, old, n, a)
    \/ \E n \in RegNames : RegRemoves(t, n)
    \/ \E row \in View(t) : ApiDeletes(t, row)

RegNext ==
    \/ \E t \in RegThreads : RegRequest(t) \/ RegLooksUp(t) \/ RegWrites(t) \/ ConstraintFails(t) \/ RegLocked(t)
                             \/ RegCommits(t) \/ ApiSaves(t)
    \/ RegRestart

RegSpec == RegInit /\ [][RegNext]_regVars

-----------------------------------------------------------------------------
(* "Keep the central registry authoritative for every saved update-manager    *)
(* host" (app.py:1009): whatever other threads add, rename and delete         *)
(* meanwhile, a sync that ends without an exception leaves every address of   *)
(* the list it copied in the registry, as a server of the update manager, and *)
(* one that does not leaves nothing of it.                                    *)
SyncIsWhole ==
    [][\A t \in RegThreads : LET op == regOp[t] IN op.kind = "save" /\ regOp'[t] # op =>
          IF op.pc = "commits" /\ \A u \in RegThreads : regOp'[u].kind # "import"
          THEN \A e \in op.copied : \E r \in regDb' : r.address = e[2] /\ e[3] \in r.modules
          ELSE regDb' = regDb]_regVars
=============================================================================

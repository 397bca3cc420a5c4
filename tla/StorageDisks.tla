---------------------------- MODULE StorageDisks ----------------------------
(***************************************************************************)
(* Disks of NAS systems (storage_controller.py, its routes in app.py, and  *)
(* collect_remote_storage_disks() in smart_manager.py).  A page, a poll or *)
(* a collection looks its endpoint up, asks the NAS in several requests and*)
(* writes the disks one by one, while endpoints are added and deleted and  *)
(* disks are swapped.                                                      *)
(***************************************************************************)
EXTENDS Naturals, FiniteSets

CONSTANTS Nases,        \* the NAS systems there are
          Slots,        \* what they call their disks
          Serials,      \* the disks there are
          MaxEndpoints, \* bound: endpoints that are ever added
          MaxLogged,    \* bound: nobody asks once the log has so many different rows
          NasRequests   \* requests, and the poll worker

ASSUME StorageBounds == MaxEndpoints \in Nat /\ MaxLogged \in Nat

VARIABLES inSlot,    \* which disk each NAS has in each slot
          endpoints, \* storage_endpoints: by number, those deleted included
          asksNas,   \* what each request is at
          diskLog,   \* storage_disk_log
          diskRows,  \* disk_registry with the latest snapshot: by platform and name
          hadDisks   \* history: which disks each NAS had, in which slots
storageVars == <<inSlot, endpoints, asksNas, diskLog, diskRows, hadDisks>>

Nothing == 0   \* no disk, no answer
Platforms == {"truenas", "unraid", "other"}
NoEndpoint == [given |-> FALSE, listed |-> FALSE, platform |-> "other", nas |-> CHOOSE n \in Nases : TRUE]
NotAsked == [pc |-> "idle", kind |-> "page", ep |-> 0, platform |-> "other", nas |-> NoEndpoint.nas,
             known |-> {}, todo |-> {}]
NoRowYet == [serial |-> Nothing, health |-> Nothing]

StorageInit ==
    /\ inSlot \in [Nases -> [Slots -> Serials \cup {Nothing}]]
    /\ \A m, n \in Nases, s, t \in Slots : inSlot[m][s] = inSlot[n][t] /\ inSlot[m][s] # Nothing => m = n /\ s = t
    /\ endpoints = [e \in 1..MaxEndpoints |-> NoEndpoint]
    /\ asksNas = [r \in NasRequests |-> NotAsked]
    /\ diskLog = {} /\ diskRows = [x \in Platforms \X Slots |-> NoRowYet]
    /\ hadDisks = [n \in Nases |-> {<<s, inSlot[n][s]>> : s \in Slots}]

(* A disk is put into a slot, or taken out.                                     *)
DiskSwapped(n, s, d) ==
    /\ \A m \in Nases, t \in Slots : d = Nothing \/ inSlot[m][t] # d
    /\ inSlot' = [inSlot EXCEPT ![n][s] = d]
    /\ hadDisks' = [hadDisks EXCEPT ![n] = @ \cup {<<s, d>>}]
    /\ UNCHANGED <<endpoints, asksNas, diskLog, diskRows>>

-----------------------------------------------------------------------------
GivenOut == {e \in 1..MaxEndpoints : endpoints[e].given}
ListedEndpoints == {e \in 1..MaxEndpoints : endpoints[e].listed}

\* Mutant: without AUTOINCREMENT a number is given again.
ReusedEndpointId == Cardinality(ListedEndpoints) + 1

(* id INTEGER PRIMARY KEY AUTOINCREMENT                                         *)
NextEndpointId == Cardinality(GivenOut) + 1

EndpointAdded(platform, n) ==
    /\ NextEndpointId \in 1..MaxEndpoints
    /\ endpoints' = [endpoints EXCEPT ![NextEndpointId] = [given |-> TRUE, listed |-> TRUE, platform |-> platform, nas |-> n]]
    /\ UNCHANGED <<inSlot, asksNas, diskLog, diskRows, hadDisks>>

(* delete_endpoint() leaves the log and the registry as they are.               *)
EndpointDeleted(e) ==
    /\ e \in ListedEndpoints /\ endpoints' = [endpoints EXCEPT ![e].listed = FALSE]
    /\ UNCHANGED <<inSlot, asksNas, diskLog, diskRows, hadDisks>>

-----------------------------------------------------------------------------
(* connect(): an endpoint that is gone, or of another platform, is an error,    *)
(* which a page shows and a poll only logs.                                     *)
Client(e) == [truenas |-> "disks", unraid |-> "probe", other |-> "idle"][endpoints[e].platform]
ConnectsNas(r, kind, e) ==
    /\ asksNas[r].pc = "idle" /\ e \in ListedEndpoints /\ Client(e) # "idle" /\ Cardinality(diskLog) < MaxLogged
    /\ asksNas' = [asksNas EXCEPT ![r] = [NotAsked EXCEPT !.pc = IF kind = "poll" THEN Client(e) ELSE "again", !.kind = kind,
                                            !.ep = e, !.platform = endpoints[e].platform, !.nas = endpoints[e].nas]]
    /\ UNCHANGED <<inSlot, endpoints, diskLog, diskRows, hadDisks>>

(* The page has looked the endpoint up before, the collection does afterwards.  *)
LooksUpAgain(r) ==
    /\ asksNas[r].pc = "again"
    /\ asksNas' = [asksNas EXCEPT ![r] = IF @.ep \in ListedEndpoints THEN [@ EXCEPT !.pc = Client(asksNas[r].ep)] ELSE NotAsked]
    /\ UNCHANGED <<inSlot, endpoints, diskLog, diskRows, hadDisks>>

(* What a request of the client brings, if it is answered.                      *)
Has(n) == {s \in Slots : inSlot[n][s] # Nothing}
Read(name, serial, model) == [name |-> name, serial |-> serial, model |-> model]
AsksTo(r, pc, known, todo) ==
    /\ asksNas' = [asksNas EXCEPT ![r].pc = pc, ![r].known = known, ![r].todo = todo]
    /\ UNCHANGED <<inSlot, endpoints, diskLog, diskRows, hadDisks>>

(* An answer of a shape that nobody expects is an exception: the request is     *)
(* given up.                                                                    *)
NasGivesUp(r) ==
    /\ asksNas[r].pc \notin {"idle", "again", "register", "log"}
    /\ asksNas' = [asksNas EXCEPT ![r] = NotAsked]
    /\ UNCHANGED <<inSlot, endpoints, diskLog, diskRows, hadDisks>>

(* TrueNAS: the disks, with all there is to know of them but the temperatures,  *)
(* which another request brings by name.                                        *)
TrueNasDisks(r) ==
    LET n == asksNas[r].nas
    IN  /\ asksNas[r].pc = "disks"
        /\ \E answered \in BOOLEAN :
               AsksTo(r, "temperatures", {}, IF answered THEN {Read(s, inSlot[n][s], inSlot[n][s]) : s \in Has(n)} ELSE {})

FirstWrite(kind) == IF kind = "poll" THEN "log" ELSE "register"
TrueNasTemperatures(r) ==
    /\ asksNas[r].pc = "temperatures" /\ AsksTo(r, FirstWrite(asksNas[r].kind), {}, asksNas[r].todo)

(* Unraid: is there GraphQL?  Then the disks by serial number ...               *)
UnraidProbe(r) ==
    /\ asksNas[r].pc = "probe" /\ \E pc \in {"top", "legacy"} : AsksTo(r, pc, {}, {})
UnraidTop(r) ==
    LET n == asksNas[r].nas
    IN  /\ asksNas[r].pc = "top"
        /\ \E answered \in BOOLEAN :
               AsksTo(r, "array", IF answered THEN {Read(s, inSlot[n][s], inSlot[n][s]) : s \in Has(n)} ELSE {}, {})

\* Mutant: what is known of the disks is found by slot.
ModelBySlot(known, slot, serial) ==
    IF \E k \in known : k.name = slot THEN (CHOOSE k \in known : k.name = slot).model ELSE Nothing

(* ... then those of the array, which take their model and their SMART status   *)
(* from the disk of the same serial number.                                     *)
Model(known, slot, serial) ==
    IF \E k \in known : k.serial = serial THEN (CHOOSE k \in known : k.serial = serial).model ELSE Nothing
UnraidArray(r) ==
    LET n == asksNas[r].nas
        rows == {Read(s, inSlot[n][s], Model(asksNas[r].known, s, inSlot[n][s])) : s \in Has(n)}
    IN  /\ asksNas[r].pc = "array"
        /\ \/ rows # {} /\ AsksTo(r, FirstWrite(asksNas[r].kind), {}, rows)
           \/ AsksTo(r, "legacy", {}, {})

(* Without an answer /api/disks, and then disks.ini: one text each.             *)
UnraidLegacy(r) ==
    LET n == asksNas[r].nas
    IN  /\ asksNas[r].pc = "legacy"
        /\ \/ AsksTo(r, FirstWrite(asksNas[r].kind), {}, {Read(s, inSlot[n][s], inSlot[n][s]) : s \in Has(n)})
           \/ AsksTo(r, "legacy ini", {}, {})
UnraidIni(r) ==
    LET n == asksNas[r].nas
    IN  /\ asksNas[r].pc = "legacy ini"
        /\ \E answered \in BOOLEAN :
               AsksTo(r, FirstWrite(asksNas[r].kind), {},
                      IF answered THEN {Read(s, inSlot[n][s], inSlot[n][s]) : s \in Has(n)} ELSE {})

-----------------------------------------------------------------------------
(* register_disk(), for a page or a collection: the row of the platform and the *)
(* name gets the serial number, whichever endpoint it is of.                    *)
Registers(r, row) ==
    LET q == asksNas[r]
    IN  /\ q.pc = "register" /\ row \in q.todo
        /\ diskRows' = [diskRows EXCEPT ![<<q.platform, row.name>>].serial = row.serial]
        /\ asksNas' = [asksNas EXCEPT ![r] = IF q.kind = "page" THEN [q EXCEPT !.todo = @ \ {row}]
                                             ELSE [q EXCEPT !.pc = "snapshot", !.known = {row}]]
        /\ UNCHANGED <<inSlot, endpoints, diskLog, hadDisks>>

(* _save_snapshot()                                                             *)
SavesHealth(r) ==
    LET q == asksNas[r]
    IN  /\ q.pc = "snapshot"
        /\ diskRows' = [x \in DOMAIN diskRows |-> IF \E k \in q.known : x = <<q.platform, k.name>>
                          THEN [diskRows[x] EXCEPT !.health = (CHOOSE k \in q.known : TRUE).serial] ELSE diskRows[x]]
        /\ asksNas' = [asksNas EXCEPT ![r].pc = "log"]
        /\ UNCHANGED <<inSlot, endpoints, diskLog, hadDisks>>

(* log_disk_snapshot()                                                          *)
LogsDisk(r, row) ==
    LET q == asksNas[r]
    IN  /\ q.pc = "log" /\ row \in q.todo /\ (q.kind = "collect" => row \in q.known)
        /\ diskLog' = diskLog \cup {[ep |-> q.ep, row |-> row]}
        /\ asksNas' = [asksNas EXCEPT ![r].todo = @ \ {row}, ![r].known = {}, ![r].pc = FirstWrite(q.kind)]
        /\ UNCHANGED <<inSlot, endpoints, diskRows, hadDisks>>

AllWritten(r) ==
    /\ asksNas[r].pc \in {"register", "log"} /\ asksNas[r].todo = {}
    /\ asksNas' = [asksNas EXCEPT ![r] = NotAsked]
    /\ UNCHANGED <<inSlot, endpoints, diskLog, diskRows, hadDisks>>

(* The process stops; or a disk cannot be written, and those after it are not.  *)
StorageStops(r) ==
    /\ asksNas[r].pc \in {"register", "snapshot", "log"} /\ asksNas' = [asksNas EXCEPT ![r] = NotAsked]
    /\ UNCHANGED <<inSlot, endpoints, diskLog, diskRows, hadDisks>>

StorageNext ==
    \/ \E n \in Nases : \/ \E s \in Slots, d \in Serials \cup {Nothing} : DiskSwapped(n, s, d)
                        \/ \E platform \in Platforms : EndpointAdded(platform, n)
    \/ \E e \in 1..MaxEndpoints : EndpointDeleted(e)
    \/ \E r \in NasRequests :
          \/ \E kind \in {"page", "poll", "collect"}, e \in 1..MaxEndpoints : ConnectsNas(r, kind, e)
          \/ LooksUpAgain(r) \/ NasGivesUp(r) \/ TrueNasDisks(r) \/ TrueNasTemperatures(r)
          \/ UnraidProbe(r) \/ UnraidTop(r) \/ UnraidArray(r) \/ UnraidLegacy(r) \/ UnraidIni(r)
          \/ \E row \in asksNas[r].todo : Registers(r, row) \/ LogsDisk(r, row)
          \/ SavesHealth(r) \/ AllWritten(r) \/ StorageStops(r)

StorageSpec == StorageInit /\ [][StorageNext]_storageVars

(* A row of the log is of a disk that its own endpoint's NAS had by that name,  *)
(* although rows stay when endpoints go and requests outlive them; model and    *)
(* status in it are of the same disk, although disks are swapped between the    *)
(* requests that bring them; and a row of the registry shows a serial number    *)
(* and a health that NAS systems of its platform had by that name.              *)
DisksAreTheirOwn ==
    /\ \A l \in diskLog : /\ <<l.row.name, l.row.serial>> \in hadDisks[endpoints[l.ep].nas]
                          /\ l.row.model \in {Nothing, l.row.serial}
    /\ \A x \in DOMAIN diskRows : \A d \in {diskRows[x].serial, diskRows[x].health} \ {Nothing} :
           \E e \in GivenOut : endpoints[e].platform = x[1] /\ <<x[2], d>> \in hadDisks[endpoints[e].nas]
=============================================================================

-------------------------- MODULE Services_proofs --------------------------
(***************************************************************************)
(* Proofs about what FleetPilot watches and keeps: BackupPolling and its   *)
(* rows, VulnScan, RouterBackups, VmActions and ConfigBackup, for any      *)
(* number of servers, hosts, routers, guests, files and threads.           *)
(***************************************************************************)
EXTENDS RequestPromises, VulnScan, FiniteSetTheorems, TLAPS

-----------------------------------------------------------------------------
(* The vulnerability scanner.  What a scan stores of a target depends on the  *)
(* row it finds, and on nothing an overlapping scan could have changed since. *)
VulnRowTypes ==
    /\ status \in [Target -> ScanStatuses \cup {"none"}]
    /\ findings \in [Target -> SUBSET Vulns] /\ lastGood \in [Target -> SUBSET SUBSET Vulns]

ShownInv == VulnRowTypes /\ ShowsLastGood

LEMMA StoredIsShown ==
    ASSUME ShownInv, NEW t \in Target, NEW st \in ScanStatuses, NEW found \in SUBSET Vulns,
           Store(t, st, found)
    PROVE  ShownInv'
<1>1. VulnRowTypes'
  BY DEF ShownInv, VulnRowTypes, Store, Kept
<1>2. ASSUME NEW u \in Target PROVE findings'[u] = UNION lastGood'[u]
  <2>1. findings[u] = UNION lastGood[u]
    BY DEF ShownInv, ShowsLastGood
  <2>2. CASE u # t
    BY <2>1, <2>2 DEF ShownInv, VulnRowTypes, Store
  <2>3. CASE u = t /\ st = "error"
    BY <2>1, <2>3 DEF ShownInv, VulnRowTypes, Store, Kept
  <2>4. CASE u = t /\ st = "unsupported" /\ lastGood[t] = {}
    <3>1. found = {} /\ findings'[u] = {} /\ lastGood'[u] = {}
      BY <2>4 DEF ShownInv, VulnRowTypes, Store, Kept
    <3> QED
      BY <3>1
  <2>5. CASE u = t /\ st # "error" /\ ~(st = "unsupported" /\ lastGood[t] = {})
    <3>1. findings'[u] = found /\ lastGood'[u] = {found}
      BY <2>5 DEF ShownInv, VulnRowTypes, Store, Kept
    <3> QED
      BY <3>1
  <2> QED
    BY <2>2, <2>3, <2>4, <2>5
<1> QED
  BY <1>1, <1>2 DEF ShownInv, ShowsLastGood

LEMMA DeletedIsNotShown ==
    ASSUME ShownInv, NEW deleted, DeleteTargets(deleted)
    PROVE  ShownInv'
<1>1. VulnRowTypes'
  BY DEF ShownInv, VulnRowTypes, DeleteTargets
<1>2. ASSUME NEW u \in Target PROVE findings'[u] = UNION lastGood'[u]
  <2>1. findings[u] = UNION lastGood[u]
    BY DEF ShownInv, ShowsLastGood
  <2>2. CASE u \in deleted
    <3>1. findings'[u] = {} /\ lastGood'[u] = {}
      BY <2>2 DEF DeleteTargets
    <3> QED
      BY <3>1
  <2>3. CASE u \notin deleted
    <3>1. findings'[u] = findings[u] /\ lastGood'[u] = lastGood[u]
      BY <2>3 DEF DeleteTargets
    <3> QED
      BY <2>1, <3>1
  <2> QED
    BY <2>2, <2>3
<1> QED
  BY <1>1, <1>2 DEF ShownInv, ShowsLastGood

LEMMA ShownStep == ShownInv /\ [VulnNext]_vulnVars => ShownInv'
<1> SUFFICES ASSUME ShownInv, [VulnNext]_vulnVars PROVE ShownInv'
  OBVIOUS
<1>0. CASE UNCHANGED vulnRows
  BY <1>0 DEF vulnRows, ShownInv, VulnRowTypes, ShowsLastGood
<1>1. ASSUME NEW u \in Scanners, NEW st \in ScanStatuses, NEW found \in SUBSET Vulns,
             StoresContainer(u, st, found)
      PROVE  ShownInv'
  <2>1. CASE Container(scan[u].at) \in Target
    BY <1>1, <2>1, StoredIsShown DEF StoresContainer
  <2>2. CASE Container(scan[u].at) \notin Target
    BY <1>1, <2>2 DEF StoresContainer, Store, ShownInv, VulnRowTypes, ShowsLastGood
  <2> QED
    BY <2>1, <2>2
<1>2. ASSUME NEW u \in Scanners, NEW st \in ScanStatuses, NEW found \in SUBSET Vulns,
             StoresServer(u, st, found)
      PROVE  ShownInv'
  <2>1. CASE Server(scan[u].at) \in Target
    BY <1>2, <2>1, StoredIsShown DEF StoresServer
  <2>2. CASE Server(scan[u].at) \notin Target
    BY <1>2, <2>2 DEF StoresServer, Store, ShownInv, VulnRowTypes, ShowsLastGood
  <2> QED
    BY <2>1, <2>2
<1>3. ASSUME NEW u \in Scanners, Prunes(u) PROVE ShownInv'
  BY <1>3, DeletedIsNotShown DEF Prunes
<1>4. ASSUME NEW u \in Scanners, ScanStep(u) PROVE ShownInv'
  BY <1>0, <1>1, <1>2, <1>3, <1>4
     DEF ScanStep, StoreStep, Launches, ScanBegins, PicksNone, Records, Notifies, DatabaseFails, Picks
<1> QED
  BY <1>0, <1>4 DEF VulnNext, vulnVars, vulnRows, Asks, Schedules, ListChanges, SetsAutoScan, DayPasses, VulnRestart

(* "keep the last good result" (_store in vuln_scanner.py): whatever scans     *)
(* overlap, fail or stop, and however many of them there are, a target shows   *)
(* what its last good scan found since its row was last deleted.               *)
THEOREM LastGoodIsShown == VulnSpec => []ShowsLastGood
<1>1. VulnInit => ShownInv
  BY DEF VulnInit, ShownInv, VulnRowTypes, ShowsLastGood
<1>2. ShownInv => ShowsLastGood
  BY DEF ShownInv
<1> QED
  BY <1>1, <1>2, ShownStep, PTL DEF VulnSpec

-----------------------------------------------------------------------------
(* Backup servers.  The lock's holder is the one poll that stores, and a       *)
(* server's thread polls exactly if its poll is under way.                     *)
BackupTypes ==
    /\ type \in [ServerIds -> ServerTypes \cup {"none"}] /\ nextId \in 1 .. MaxServers + 1
    /\ shown \in [ServerIds -> {"unknown", "ok", "error"}]
    /\ starting \subseteq ServerIds /\ deleting \subseteq ServerIds
    /\ loop \in [ServerIds -> {"none", "sleeps", "polls", "waits"}] /\ stop \subseteq ServerIds
    /\ poll \in [Pollers -> PollType] /\ pollStops \in 0 .. MaxPollStops
    /\ dbLock \in Pollers \cup {0}
HolderStores == \A p \in Pollers : poll[p].pc = "stores" <=> dbLock = p
LoopPolls == \A id \in ServerIds : loop[id] = "polls" <=> poll[id].pc # "none"

LEMMA BackupTypeParts == BackupTypeOK <=> BackupTypes /\ HolderStores /\ LoopPolls
BY DEF BackupTypeOK, BackupTypes, HolderStores, LoopPolls

LEMMA PollerNumbers == ServerIds \subseteq Pollers /\ 0 \notin Pollers /\ \A id \in ServerIds : id \notin Pages
BY BackupBounds DEF ServerIds, Pollers

LEMMA NoPollType == NoPoll \in PollType /\ NoPoll.pc = "none"
BY BackupBounds DEF NoPoll, PollType, ServerIds

(* A poll that changes step keeps its type.                                    *)
LEMMA PollBegins ==
    ASSUME NEW id \in ServerIds
    PROVE  /\ [NoPoll EXCEPT !.pc = "gets", !.id = id] \in PollType
           /\ [NoPoll EXCEPT !.pc = "gets", !.id = id].pc = "gets"
BY NoPollType DEF NoPoll, PollType

(* One poll moves on, to none of the states in which it holds the lock: the    *)
(* lock and the other polls are as they were.                                  *)
LEMMA PollMoves ==
    ASSUME BackupTypes, HolderStores, NEW p \in Pollers, NEW r \in PollType,
           poll[p].pc # "stores", r.pc # "stores",
           poll' = [poll EXCEPT ![p] = r], dbLock' = dbLock
    PROVE  /\ poll' \in [Pollers -> PollType] /\ HolderStores'
           /\ poll'[p] = r /\ \A x \in Pollers \ {p} : poll'[x] = poll[x]
BY DEF BackupTypes, HolderStores

LEMMA TypesFollowPoll ==
    ASSUME BackupTypeOK, UNCHANGED <<type, nextId, shown, starting, deleting, loop, stop, pollStops>>,
           poll' \in [Pollers -> PollType], dbLock' \in Pollers \cup {0}, HolderStores', LoopPolls'
    PROVE  BackupTypeOK'
BY BackupTypeParts DEF BackupTypes, BackupTypeOK, HolderStores, LoopPolls

LEMMA PollEndsRight ==
    ASSUME BackupTypeOK, NEW p \in Pollers, poll[p].pc \notin {"none", "stores"}, PollEnds(p), dbLock' = dbLock
    PROVE  /\ poll' \in [Pollers -> PollType] /\ HolderStores' /\ LoopPolls'
           /\ loop' \in [ServerIds -> {"none", "sleeps", "polls", "waits"}]
           /\ \A id \in ServerIds : loop'[id] = "none" <=> loop[id] = "none"
<1>1. /\ poll' \in [Pollers -> PollType] /\ HolderStores'
      /\ poll'[p] = NoPoll /\ \A x \in Pollers \ {p} : poll'[x] = poll[x]
  BY BackupTypeParts, NoPollType, PollMoves DEF PollEnds
<1>2. p \in ServerIds => loop[p] = "polls"
  BY BackupTypeParts DEF LoopPolls
<1>3. CASE p \in ServerIds
  BY <1>1, <1>2, <1>3, NoPollType, BackupTypeParts, PollerNumbers DEF PollEnds, LoopPolls, BackupTypes
<1>4. CASE p \notin ServerIds
  BY <1>1, <1>4, NoPollType, BackupTypeParts, PollerNumbers DEF PollEnds, LoopPolls, BackupTypes
<1> QED
  BY <1>1, <1>3, <1>4

(* Numbers not given out yet are nobody's; a thread of a server that is listed *)
(* was told to stop only by a request that goes on to delete the server.       *)
NumbersUnused == \A id \in ServerIds : id >= nextId => ~Existing(id) /\ id \notin stop
StopsAreDeletes == \A id \in stop : Existing(id) => id \in deleting

PolledInv == BackupTypeOK /\ NumbersUnused /\ StopsAreDeletes /\ ServersArePolled

LEMMA PolledInitially == BackupInit => PolledInv
<1> SUFFICES ASSUME BackupInit PROVE PolledInv
  OBVIOUS
<1>1. BackupTypes
  BY NoPollType, PollerNumbers, BackupBounds DEF BackupInit, BackupTypes, ServerIds
<1>2. HolderStores /\ LoopPolls
  BY NoPollType, PollerNumbers DEF BackupInit, HolderStores, LoopPolls
<1>3. NumbersUnused /\ StopsAreDeletes /\ ServersArePolled
  BY DEF BackupInit, NumbersUnused, StopsAreDeletes, ServersArePolled, Existing
<1> QED
  BY <1>1, <1>2, <1>3, BackupTypeParts DEF PolledInv

(* The steps of a poll, and those of a server's thread, leave the list and the *)
(* events alone: what matters is which threads live.                           *)
LEMMA PolledWhileAlive ==
    ASSUME PolledInv, BackupTypeOK', UNCHANGED <<type, nextId, starting, deleting, stop>>,
           \A id \in ServerIds : Alive(id) /\ id \notin stop => Alive(id)'
    PROVE  PolledInv'
<1>1. NumbersUnused' /\ StopsAreDeletes'
  BY DEF PolledInv, NumbersUnused, StopsAreDeletes, Existing
<1>2. ServersArePolled'
  BY DEF PolledInv, ServersArePolled, Existing, Alive
<1> QED
  BY <1>1, <1>2 DEF PolledInv

LEMMA PollStepPolls ==
    ASSUME PolledInv, NEW p \in Pollers, PollStep(p)
    PROVE  PolledInv'
<1> USE DEF serverTable, requests, threads
<1>0. BackupTypes /\ HolderStores /\ LoopPolls /\ BackupTypeOK
  BY BackupTypeParts DEF PolledInv
<1>1. poll[p] \in PollType /\ poll[p].pc # "none"
  BY <1>0 DEF BackupTypes, PollStep, Gets, AsksServer, Locks, Stores, StoreRaises, Shows
<1>2. ASSUME Gets(p) \/ Shows(p), PollEnds(p), dbLock' = dbLock,
             shown' \in [ServerIds -> {"unknown", "ok", "error"}],
             UNCHANGED <<type, nextId, starting, deleting, stop, pollStops>>
      PROVE  PolledInv'
  <2>1. poll[p].pc \notin {"none", "stores"}
    BY <1>2 DEF Gets, Shows
  <2>2. /\ poll' \in [Pollers -> PollType] /\ HolderStores' /\ LoopPolls'
        /\ loop' \in [ServerIds -> {"none", "sleeps", "polls", "waits"}]
        /\ \A id \in ServerIds : loop'[id] = "none" <=> loop[id] = "none"
    BY <1>0, <1>2, <2>1, PollEndsRight
  <2>3. BackupTypeOK'
    BY <1>0, <1>2, <2>2, BackupTypeParts DEF BackupTypes, BackupTypeOK, HolderStores, LoopPolls
  <2> QED
    BY <1>2, <2>2, <2>3, PolledWhileAlive DEF Alive
<1>3. ASSUME NEW r \in PollType, poll[p].pc # "stores", r.pc \notin {"stores", "none"},
             poll' = [poll EXCEPT ![p] = r], dbLock' = dbLock,
             UNCHANGED <<type, nextId, shown, starting, deleting, loop, stop, pollStops>>
      PROVE  PolledInv'
  <2>1. /\ poll' \in [Pollers -> PollType] /\ HolderStores'
        /\ poll'[p] = r /\ \A x \in Pollers \ {p} : poll'[x] = poll[x]
    BY <1>0, <1>3, PollMoves
  <2>2. LoopPolls'
    BY <1>0, <1>1, <1>3, <2>1, PollerNumbers DEF LoopPolls
  <2>3. BackupTypeOK'
    BY <1>0, <1>3, <2>1, <2>2, TypesFollowPoll DEF BackupTypes
  <2> QED
    BY <1>3, <2>3, PolledWhileAlive DEF Alive
<1>4. ASSUME Gets(p) PROVE PolledInv'
  <2>1. CASE Existing(poll[p].id)
    <3> DEFINE r == [poll[p] EXCEPT !.pc = "asks", !.type = type[poll[p].id]]
    <3>1. poll[p].id \in ServerIds /\ type[poll[p].id] \in ServerTypes \cup {"none"}
      BY <1>0, <1>1 DEF BackupTypes, PollType
    <3>2. r \in PollType /\ r.pc = "asks"
      BY <1>1, <3>1 DEF PollType
    <3>3. poll' = [poll EXCEPT ![p] = r]
      BY <1>4, <2>1 DEF Gets
    <3> HIDE DEF r
    <3> QED
      BY <1>3, <1>4, <2>1, <3>2, <3>3 DEF Gets
  <2>2. CASE ~Existing(poll[p].id)
    BY <1>0, <1>2, <1>4, <2>2 DEF Gets, BackupTypes
  <2> QED
    BY <2>1, <2>2
<1>5. ASSUME NEW a \in Replies, AsksServer(p, a) PROVE PolledInv'
  <2> DEFINE t == poll[p].type
             r == [poll[p] EXCEPT !.pc = IF PollFails(t, a) THEN "shows" ELSE "locks",
                                  !.ok = ~PollFails(t, a) /\ (t = "ssh_generic" => a = "data")]
  <2>1. r \in PollType /\ r.pc \in {"shows", "locks"}
    <3>1. (IF PollFails(t, a) THEN "shows" ELSE "locks") \in {"shows", "locks"}
      OBVIOUS
    <3>2. (~PollFails(t, a) /\ (t = "ssh_generic" => a = "data")) \in BOOLEAN
      OBVIOUS
    <3> QED
      BY <1>1, <3>1, <3>2 DEF PollType
  <2>2. poll' = [poll EXCEPT ![p] = r] /\ poll[p].pc = "asks"
    BY <1>5 DEF AsksServer
  <2> HIDE DEF t, r
  <2> QED
    BY <1>3, <1>5, <2>1, <2>2 DEF AsksServer
<1>6. ASSUME Locks(p) PROVE PolledInv'
  <2>1. [poll[p] EXCEPT !.pc = "stores"] \in PollType
    BY <1>1 DEF PollType
  <2>2. poll' \in [Pollers -> PollType] /\ HolderStores' /\ LoopPolls'
    BY <1>0, <1>1, <1>6, <2>1, PollerNumbers DEF Locks, HolderStores, LoopPolls, BackupTypes, PollType
  <2>3. BackupTypeOK'
    BY <1>0, <1>6, <2>2, TypesFollowPoll DEF Locks
  <2> QED
    BY <1>6, <2>3, PolledWhileAlive DEF Locks, Alive
<1>7. ASSUME Stores(p) \/ StoreRaises(p) PROVE PolledInv'
  <2>1. PICK r \in PollType : r.pc = "shows" /\ poll' = [poll EXCEPT ![p] = r]
    <3>1. [poll[p] EXCEPT !.pc = "shows"] \in PollType /\ [poll[p] EXCEPT !.pc = "shows", !.ok = FALSE] \in PollType
      BY <1>1 DEF PollType
    <3>2. [poll[p] EXCEPT !.pc = "shows"].pc = "shows" /\ [poll[p] EXCEPT !.pc = "shows", !.ok = FALSE].pc = "shows"
      BY <1>1 DEF PollType
    <3> QED
      BY <1>7, <3>1, <3>2 DEF Stores, StoreRaises
  <2>2. dbLock = p /\ dbLock' = 0
    BY <1>0, <1>7 DEF Stores, StoreRaises, HolderStores, Unlocked
  <2>3. poll' \in [Pollers -> PollType] /\ HolderStores' /\ LoopPolls'
    BY <1>0, <1>1, <1>7, <2>1, <2>2, PollerNumbers DEF Stores, StoreRaises, HolderStores, LoopPolls, BackupTypes
  <2>4. BackupTypeOK'
    BY <1>0, <1>7, <2>2, <2>3, TypesFollowPoll DEF Stores, StoreRaises
  <2> QED
    BY <1>7, <2>4, PolledWhileAlive DEF Stores, StoreRaises, Alive
<1>8. ASSUME Shows(p) PROVE PolledInv'
  <2>1. shown' \in [ServerIds -> {"unknown", "ok", "error"}]
    BY <1>0, <1>8 DEF Shows, BackupTypes
  <2> QED
    BY <1>2, <1>8, <2>1 DEF Shows
<1> QED
  BY <1>4, <1>5, <1>6, <1>7, <1>8 DEF PollStep

(* Requests and restarts: no poll changes, or all of them are over.            *)
LEMMA RequestPolls ==
    ASSUME PolledInv, NEW id \in ServerIds,
           \/ Starts(id) \/ StopsPolling(id) \/ Deletes(id) \/ \E t \in ServerTypes : Edits(id, t)
    PROVE  PolledInv'
<1> USE DEF serverTable, requests, threads
<1>0. BackupTypes /\ HolderStores /\ LoopPolls /\ NumbersUnused /\ StopsAreDeletes /\ ServersArePolled
  BY BackupTypeParts DEF PolledInv
<1>1. ASSUME Starts(id) PROVE PolledInv'
  <2>1. HolderStores' /\ LoopPolls' /\ BackupTypes'
    BY <1>0, <1>1 DEF Starts, BackupTypes, HolderStores, LoopPolls, Alive
  <2>2. NumbersUnused' /\ StopsAreDeletes'
    BY <1>0, <1>1 DEF Starts, NumbersUnused, StopsAreDeletes, Existing
  <2>3. ServersArePolled'
    BY <1>0, <1>1 DEF Starts, ServersArePolled, StopsAreDeletes, Existing, Alive, BackupTypes
  <2> QED
    BY <2>1, <2>2, <2>3, BackupTypeParts DEF PolledInv, BackupTypeOK, BackupTypes, HolderStores, LoopPolls
<1>2. ASSUME StopsPolling(id) PROVE PolledInv'
  <2>1. HolderStores' /\ LoopPolls' /\ BackupTypes'
    BY <1>0, <1>2 DEF StopsPolling, BackupTypes, HolderStores, LoopPolls
  <2>2. NumbersUnused' /\ StopsAreDeletes'
    BY <1>0, <1>2 DEF StopsPolling, NumbersUnused, StopsAreDeletes, Existing
  <2>3. ServersArePolled'
    BY <1>0, <1>2 DEF StopsPolling, ServersArePolled, Existing, Alive
  <2> QED
    BY <2>1, <2>2, <2>3 DEF PolledInv, BackupTypeOK, BackupTypes, HolderStores, LoopPolls
<1>3. ASSUME Deletes(id) PROVE PolledInv'
  <2>1. HolderStores' /\ LoopPolls' /\ BackupTypes'
    BY <1>0, <1>3 DEF Deletes, BackupTypes, HolderStores, LoopPolls
  <2>2. NumbersUnused' /\ StopsAreDeletes'
    BY <1>0, <1>3 DEF Deletes, NumbersUnused, StopsAreDeletes, Existing, BackupTypes
  <2>3. ServersArePolled'
    BY <1>0, <1>3 DEF Deletes, ServersArePolled, Existing, Alive, BackupTypes
  <2> QED
    BY <2>1, <2>2, <2>3 DEF PolledInv, BackupTypeOK, BackupTypes, HolderStores, LoopPolls
<1>4. ASSUME NEW t \in ServerTypes, Edits(id, t) PROVE PolledInv'
  <2>1. HolderStores' /\ LoopPolls' /\ BackupTypes'
    BY <1>0, <1>4 DEF Edits, BackupTypes, HolderStores, LoopPolls
  <2>2. \A x \in ServerIds : Existing(x)' => Existing(x)
    BY <1>0, <1>4 DEF Edits, Existing, BackupTypes
  <2>3. NumbersUnused' /\ StopsAreDeletes'
    BY <1>0, <1>4, <2>2 DEF Edits, NumbersUnused, StopsAreDeletes, BackupTypes
  <2>4. ServersArePolled'
    BY <1>0, <1>4, <2>2 DEF Edits, ServersArePolled, Alive
  <2> QED
    BY <2>1, <2>3, <2>4 DEF PolledInv, BackupTypeOK, BackupTypes, HolderStores, LoopPolls
<1> QED
  BY <1>1, <1>2, <1>3, <1>4

LEMMA AddPolls ==
    ASSUME PolledInv, NEW t \in ServerTypes, Adds(t)
    PROVE  PolledInv'
<1> USE DEF serverTable, requests, threads
<1>0. BackupTypes /\ HolderStores /\ LoopPolls /\ NumbersUnused /\ StopsAreDeletes /\ ServersArePolled
  BY BackupTypeParts DEF PolledInv
<1>1. HolderStores' /\ LoopPolls' /\ BackupTypes'
  <2>1. nextId \in ServerIds /\ nextId' = nextId + 1 /\ nextId' \in 1 .. MaxServers + 1
    BY <1>0, BackupBounds DEF Adds, NewId, ServerIds, BackupTypes
  <2> QED
    BY <1>0, <2>1 DEF Adds, NewId, BackupTypes, HolderStores, LoopPolls
<1>2. NumbersUnused' /\ StopsAreDeletes'
  <2>1. nextId \in ServerIds /\ nextId' = nextId + 1 /\ nextId \in Nat /\ nextId \notin stop
    BY <1>0, BackupBounds DEF Adds, NewId, ServerIds, BackupTypes, NumbersUnused
  <2>2. \A x \in ServerIds : x # nextId => (Existing(x)' <=> Existing(x))
    BY <1>0 DEF Adds, NewId, Existing, BackupTypes
  <2>3. \A x \in ServerIds : x >= nextId' => x >= nextId /\ x # nextId
    BY <2>1 DEF ServerIds
  <2>4. stop' = stop /\ deleting' = deleting
    BY DEF Adds
  <2> QED
    BY <1>0, <2>1, <2>2, <2>3, <2>4 DEF NumbersUnused, StopsAreDeletes, BackupTypes
<1>3. ServersArePolled'
  BY <1>0 DEF Adds, NewId, ServersArePolled, Existing, Alive, BackupTypes
<1> QED
  BY <1>1, <1>2, <1>3 DEF PolledInv, BackupTypeOK, BackupTypes, HolderStores, LoopPolls

LEMMA LoopPollsOn ==
    ASSUME PolledInv, NEW id \in ServerIds, LoopTests(id)
    PROVE  PolledInv'
<1> USE DEF serverTable, requests, threads
<1>0. BackupTypes /\ HolderStores /\ LoopPolls /\ BackupTypeOK /\ poll[id].pc = "none"
  BY BackupTypeParts DEF PolledInv, LoopTests, LoopPolls
<1>1. CASE id \in stop
  <2>1. BackupTypeOK'
    BY <1>0, <1>1 DEF LoopTests, BackupTypes, BackupTypeOK, HolderStores, LoopPolls
  <2> QED
    BY <1>0, <1>1, <2>1, PolledWhileAlive DEF LoopTests, Alive, BackupTypes
<1>2. CASE id \notin stop
  <2> DEFINE r == [NoPoll EXCEPT !.pc = "gets", !.id = id]
  <2>1. r \in PollType /\ r.pc = "gets"
    BY PollBegins
  <2>2. poll' = [poll EXCEPT ![id] = r] /\ loop' = [loop EXCEPT ![id] = "polls"] /\ dbLock' = dbLock
    BY <1>2 DEF LoopTests
  <2> HIDE DEF r
  <2>3. poll' \in [Pollers -> PollType] /\ HolderStores'
        /\ poll'[id] = r /\ \A x \in Pollers \ {id} : poll'[x] = poll[x]
    BY <1>0, <2>1, <2>2, PollMoves, PollerNumbers
  <2>4. LoopPolls' /\ loop' \in [ServerIds -> {"none", "sleeps", "polls", "waits"}]
    BY <1>0, <2>1, <2>2, <2>3, PollerNumbers DEF LoopPolls, BackupTypes
  <2>5. BackupTypeOK'
    BY <1>0, <2>3, <2>4 DEF LoopTests, BackupTypes, BackupTypeOK, HolderStores, LoopPolls
  <2> QED
    BY <1>0, <2>2, <2>5, PolledWhileAlive DEF LoopTests, Alive, BackupTypes
<1> QED
  BY <1>1, <1>2

LEMMA PagePolls ==
    ASSUME PolledInv, NEW p \in Pages, NEW id \in ServerIds, PageRefreshes(p, id)
    PROVE  PolledInv'
<1> USE DEF serverTable, requests, threads
<1>0. BackupTypes /\ HolderStores /\ LoopPolls /\ BackupTypeOK /\ poll[p].pc = "none" /\ p \in Pollers
  BY BackupTypeParts DEF PolledInv, PageRefreshes, Pollers
<1> DEFINE r == [NoPoll EXCEPT !.pc = "gets", !.id = id]
<1>1. r \in PollType /\ r.pc = "gets" /\ poll' = [poll EXCEPT ![p] = r]
  BY PollBegins DEF PageRefreshes
<1> HIDE DEF r
<1>2. poll' \in [Pollers -> PollType] /\ HolderStores' /\ \A x \in Pollers \ {p} : poll'[x] = poll[x]
  BY <1>0, <1>1, PollMoves DEF PageRefreshes
<1>3. LoopPolls'
  BY <1>0, <1>2, PollerNumbers DEF LoopPolls, PageRefreshes
<1>4. BackupTypeOK'
  BY <1>0, <1>2, <1>3, TypesFollowPoll DEF PageRefreshes, BackupTypes
<1> QED
  BY <1>4, PolledWhileAlive DEF PageRefreshes, Alive

LEMMA RestartPolls ==
    ASSUME PolledInv, PollRestart
    PROVE  PolledInv'
<1> USE DEF serverTable
<1>0. BackupTypes /\ NumbersUnused
  BY BackupTypeParts DEF PolledInv
<1>1. BackupTypes' /\ HolderStores' /\ LoopPolls'
  BY <1>0, NoPollType, PollerNumbers, BackupBounds DEF PollRestart, BackupTypes, HolderStores, LoopPolls
<1>2. NumbersUnused' /\ StopsAreDeletes' /\ ServersArePolled'
  BY <1>0 DEF PollRestart, NumbersUnused, StopsAreDeletes, ServersArePolled, Existing, Alive
<1> QED
  BY <1>1, <1>2 DEF PolledInv, BackupTypeOK, BackupTypes, HolderStores, LoopPolls

LEMMA PolledStep == PolledInv /\ [BackupNext]_backupVars => PolledInv'
<1> SUFFICES ASSUME PolledInv, [BackupNext]_backupVars PROVE PolledInv'
  OBVIOUS
<1>1. CASE UNCHANGED backupVars
  BY <1>1 DEF backupVars, PolledInv, BackupTypeOK, NumbersUnused, StopsAreDeletes, ServersArePolled, Existing, Alive
<1> QED
  BY <1>1, PollStepPolls, RequestPolls, AddPolls, LoopPollsOn, PagePolls, RestartPolls DEF BackupNext

(* A backup server that is listed has a thread that goes on polling it         *)
(* (backup_controller.py), whatever was added, deleted, edited and restarted,  *)
(* and however many pages poll as well.                                        *)
THEOREM ListedServersArePolled == BackupSpec => []ServersArePolled
<1>1. PolledInv => ServersArePolled
  BY DEF PolledInv
<1> QED
  BY <1>1, PolledInitially, PolledStep, PTL DEF BackupSpec

(* The type of the state: the database's lock has one holder, the poll that    *)
(* stores, and it is released on every way out of the storing.                 *)
THEOREM BackupTypeCorrect == BackupSpec => []BackupTypeOK
<1>1. PolledInv => BackupTypeOK
  BY DEF PolledInv
<1> QED
  BY <1>1, PolledInitially, PolledStep, PTL DEF BackupSpec

-----------------------------------------------------------------------------
(* What polls write.  Each of their steps is one of BackupPolling, or none.    *)
THEOREM PollsWithRowsArePolls == RecordsSpec => BackupSpec
<1>1. RecordsInit => BackupInit
  BY DEF RecordsInit
<1>2. [RecordsNext]_recordVars => [BackupNext]_backupVars
  <2> SUFFICES ASSUME [RecordsNext]_recordVars PROVE [BackupNext]_backupVars
    OBVIOUS
  <2>1. CASE UNCHANGED recordVars
    BY <2>1 DEF recordVars
  <2>2. ASSUME NEW p \in Pollers, TransactionBegins(p) \/ AsksForMore(p) \/ Commits(p) \/ PollRollsBack(p)
        PROVE  [BackupNext]_backupVars
    BY <2>2 DEF TransactionBegins, AsksForMore, Commits, PollRollsBack, BackupNext, PollStep
  <2>3. CASE RowsStay
    BY <2>3 DEF RowsStay, BackupNext, PollStep
  <2>4. CASE RecordsRestart
    BY <2>4 DEF RecordsRestart, BackupNext
  <2> QED
    BY <2>1, <2>2, <2>3, <2>4 DEF RecordsNext
<1> QED
  BY <1>1, <1>2, PTL DEF RecordsSpec, BackupSpec

LineType == [run : Nat, type : ServerTypes \cup {"none"}, ok : Int, warn : Int, error : Int, unknown : Int]
WritesType == [rows : LineType, snaps : Int, left : Int]

RowTypes ==
    /\ runs \in Nat /\ writes \in [Pollers -> WritesType]
    /\ backupJobs \in [ServerIds -> LineType] /\ history \in [ServerIds -> LineType]
    /\ snaps \in [ServerIds -> [run : Nat, n : Int]]

(* Rows of one server are of one poll, polls without a history included.       *)
OneRun(id) ==
    /\ ReplacesJobs(history[id].type) => history[id] = HistoryLine(backupJobs[id])
    /\ ReplacesSnapshots(history[id].type) => snaps[id].run = history[id].run

RowsInv == RowTypes /\ \A id \in ServerIds : OneRun(id)

LEMMA NoRowsType ==
    /\ NoRows \in LineType /\ NoWrites \in WritesType /\ HistoryLine(NoRows) = NoRows
    /\ NoRows.run = 0 /\ NoRows.type = "none"
<1>1. NoRows \in LineType
  BY DEF NoRows, LineType
<1>2. NoRows.run = 0 /\ NoRows.type = "none" /\ NoRows.warn = 0 /\ NoRows.unknown = 0
  BY DEF NoRows
<1>3. HistoryLine(NoRows) = [NoRows EXCEPT !.warn = 0, !.unknown = 0]
  BY <1>2 DEF HistoryLine
<1>4. HistoryLine(NoRows) = NoRows
  BY <1>3 DEF NoRows
<1> QED
  BY <1>1, <1>2, <1>4 DEF NoWrites, WritesType

LEMMA HistoryLineType ==
    ASSUME NEW rows \in LineType
    PROVE  HistoryLine(rows) \in LineType /\ HistoryLine(rows).type = rows.type /\ HistoryLine(rows).run = rows.run
<1>1. ASSUME NEW k \in Int
      PROVE  /\ [rows EXCEPT !.warn = k, !.unknown = 0] \in LineType
             /\ [rows EXCEPT !.warn = k, !.unknown = 0].type = rows.type
             /\ [rows EXCEPT !.warn = k, !.unknown = 0].run = rows.run
  <2>0. \A x \in LineType : [x EXCEPT !.warn = k] \in LineType /\ [x EXCEPT !.unknown = 0] \in LineType
    BY DEF LineType
  <2>1. [rows EXCEPT !.warn = k, !.unknown = 0] \in LineType
    <3>1. [[rows EXCEPT !.warn = k] EXCEPT !.unknown = 0] \in LineType
      BY <2>0
    <3> QED
      BY <3>1
  <2>2. [rows EXCEPT !.warn = k, !.unknown = 0].type = rows.type
    BY DEF LineType
  <2>3. [rows EXCEPT !.warn = k, !.unknown = 0].run = rows.run
    BY DEF LineType
  <2> QED
    BY <2>1, <2>2, <2>3
<1>2. rows.warn + rows.unknown \in Int
  BY DEF LineType
<1> QED
  BY <1>1, <1>2 DEF HistoryLine

LEMMA MoreType == ASSUME NEW w \in WritesType, NEW v \in More(w) PROVE v \in WritesType
<1>1. w.rows \in LineType
  BY DEF WritesType
<1>2. \/ v \in PbsMore(w) \/ v \in DuplicatiMore(w) \/ v \in ResticMore(w)
  BY DEF More
<1>3. /\ w.rows.ok + 1 \in Int /\ w.rows.warn + 1 \in Int /\ w.snaps \in Int
      /\ \A n \in {0, 1} : w.snaps + n \in Int
  BY <1>1 DEF WritesType, LineType
<1>4. CASE v \in PbsMore(w)
  BY <1>4 DEF PbsMore, WritesType
<1>5. CASE v \in DuplicatiMore(w)
  BY <1>1, <1>5 DEF DuplicatiMore, WritesType, LineType
<1>6. CASE v \in ResticMore(w)
  <2>1. CASE \E n \in {0, 1} : v = [w EXCEPT !.rows.ok = @ + 1, !.snaps = @ + n]
    <3>1. PICK n \in {0, 1} : v = [w EXCEPT !.rows.ok = w.rows.ok + 1, !.snaps = w.snaps + n]
      BY <2>1
    <3>2. \A a, b \in Int : [w EXCEPT !.rows.ok = a, !.snaps = b] \in WritesType
      BY <1>1 DEF WritesType, LineType
    <3> QED
      BY <1>3, <3>1, <3>2
  <2>2. CASE v = [w EXCEPT !.rows.warn = @ + 1]
    BY <1>1, <2>2 DEF WritesType, LineType
  <2>3. CASE v = [w EXCEPT !.rows.ok = @ + 1, !.rows.warn = @ + 1]
    <3>1. v = [w EXCEPT !.rows.ok = w.rows.ok + 1, !.rows.warn = w.rows.warn + 1]
      BY <1>1, <2>3 DEF WritesType, LineType
    <3>2. \A a, b \in Int : [w EXCEPT !.rows.ok = a, !.rows.warn = b] \in WritesType
      BY <1>1 DEF WritesType, LineType
    <3> QED
      BY <1>3, <3>1, <3>2
  <2> QED
    BY <1>6, <2>1, <2>2, <2>3 DEF ResticMore
<1> QED
  BY <1>2, <1>4, <1>5, <1>6

LEMMA OutcomesType ==
    ASSUME NEW t \in ServerTypes \cup {"none"}, NEW run \in Nat, NEW o \in Outcomes(t)
    PROVE  Counted(run, t, o[1], o[2], o[3]) \in LineType
<1>1. o[1] \in Int /\ o[2] \in Int /\ o[3] \in Int
  <2>1. \/ o \in PbsTasks \/ o \in BorgRepositories \/ o \in UrbackupClients \/ o \in BaculaLines \/ o \in SshCommand
        \/ o \in {<<0, 0, 0>>}
    BY DEF Outcomes
  <2> QED
    BY <2>1 DEF PbsTasks, BorgRepositories, UrbackupClients, BaculaLines, SshCommand, UpTo, Numbers
<1> QED
  BY <1>1, NoRowsType DEF Counted, LineType, NoRows

LEMMA RowsStep ==
    ASSUME PolledInv, RowsInv, [RecordsNext]_recordVars
    PROVE  RowsInv'
<1>1. RowTypes /\ \A p \in Pollers : poll[p] \in PollType
  BY BackupTypeParts DEF RowsInv, PolledInv, BackupTypes
<1>2. CASE UNCHANGED <<backupJobs, snaps, history, writes, runs>>
  BY <1>2 DEF RowsInv, RowTypes, OneRun
<1>3. ASSUME NEW p \in Pollers, TransactionBegins(p) PROVE RowsInv'
  <2>1. /\ backupJobs' = backupJobs /\ snaps' = snaps /\ history' = history /\ runs' = runs + 1
    BY <1>3 DEF TransactionBegins, Early
  <2>2. PICK o \in Outcomes(poll[p].type), n \in MoreToAsk(poll[p].type) :
             writes' = [writes EXCEPT ![p] = [rows |-> Counted(runs', poll[p].type, o[1], o[2], o[3]), snaps |-> 0, left |-> n]]
    BY <1>3 DEF TransactionBegins
  <2>3. runs' \in Nat /\ poll[p].type \in ServerTypes \cup {"none"} /\ n \in Int
    BY <1>1, <2>1 DEF RowTypes, PollType, MoreToAsk, Numbers
  <2>4. Counted(runs', poll[p].type, o[1], o[2], o[3]) \in LineType
    BY <2>3, OutcomesType
  <2>5. writes' \in [Pollers -> WritesType]
    BY <1>1, <2>2, <2>3, <2>4 DEF RowTypes, WritesType
  <2> QED
    BY <2>1, <2>3, <2>5 DEF RowsInv, RowTypes, OneRun
<1>4. ASSUME NEW p \in Pollers, AsksForMore(p) PROVE RowsInv'
  <2>1. PICK w \in More(writes[p]) : writes' = [writes EXCEPT ![p] = [w EXCEPT !.left = @ - 1]]
    BY <1>4 DEF AsksForMore
  <2>2. w \in WritesType
    BY <1>1, MoreType DEF RowTypes
  <2>3. [w EXCEPT !.left = @ - 1] \in WritesType
    BY <2>2 DEF WritesType
  <2>4. writes' \in [Pollers -> WritesType]
    BY <1>1, <2>1, <2>3 DEF RowTypes
  <2> QED
    BY <1>4, <2>4 DEF AsksForMore, RowsInv, RowTypes, OneRun
<1>5. ASSUME NEW p \in Pollers, Commits(p) PROVE RowsInv'
  <2> DEFINE at == poll[p].id  w == writes[p]
  <2>1. at \in ServerIds /\ w \in WritesType /\ w.rows \in LineType
    BY <1>1 DEF PollType, RowTypes, WritesType
  <2>2. HistoryLine(w.rows) \in LineType /\ HistoryLine(w.rows).type = w.rows.type /\ HistoryLine(w.rows).run = w.rows.run
    BY <2>1, HistoryLineType
  <2>3. /\ backupJobs' = IF ReplacesJobs(w.rows.type) THEN [backupJobs EXCEPT ![at] = w.rows] ELSE backupJobs
        /\ snaps' = IF ReplacesSnapshots(w.rows.type) THEN [snaps EXCEPT ![at] = [run |-> w.rows.run, n |-> w.snaps]] ELSE snaps
        /\ history' = [history EXCEPT ![at] = HistoryLine(w.rows)]
        /\ writes' = [writes EXCEPT ![p] = NoWrites] /\ runs' = runs
    BY <1>5 DEF Commits, JobsAre
  <2>4. [run |-> w.rows.run, n |-> w.snaps] \in [run : Nat, n : Int]
    BY <2>1 DEF WritesType, LineType
  <2> HIDE DEF at, w
  <2>5. RowTypes'
    BY <1>1, <2>1, <2>2, <2>3, <2>4, NoRowsType DEF RowTypes
  <2>6. ASSUME NEW id \in ServerIds PROVE OneRun(id)'
    <3>1. OneRun(id)
      BY DEF RowsInv
    <3>2. CASE id # at
      <4>1. backupJobs'[id] = backupJobs[id] /\ history'[id] = history[id] /\ snaps'[id] = snaps[id]
        BY <1>1, <2>1, <2>3, <3>2 DEF RowTypes
      <4> QED
        BY <3>1, <4>1 DEF OneRun
    <3>3. CASE id = at
      <4>1. history'[id] = HistoryLine(w.rows)
        BY <1>1, <2>1, <2>3, <3>3 DEF RowTypes
      <4>2. ReplacesJobs(w.rows.type) => backupJobs'[id] = w.rows
        BY <1>1, <2>1, <2>3, <3>3 DEF RowTypes
      <4>3. ReplacesSnapshots(w.rows.type) => snaps'[id].run = w.rows.run
        BY <1>1, <2>1, <2>3, <3>3 DEF RowTypes
      <4> QED
        BY <2>2, <4>1, <4>2, <4>3 DEF OneRun
    <3> QED
      BY <3>2, <3>3
  <2> QED
    BY <2>5, <2>6 DEF RowsInv
<1>6. ASSUME NEW p \in Pollers, PollRollsBack(p) PROVE RowsInv'
  BY <1>1, <1>6, NoRowsType DEF PollRollsBack, RowsInv, RowTypes, OneRun
<1>7. CASE RecordsRestart
  BY <1>1, <1>7, NoRowsType DEF RecordsRestart, RowsInv, RowTypes, OneRun
<1> QED
  BY <1>2, <1>3, <1>4, <1>5, <1>6, <1>7 DEF RecordsNext, RowsStay, recordVars

(* Whatever polls overlap, fail and are cut off, and whichever type is edited  *)
(* meanwhile: the jobs, the snapshots and the newest line of history of a      *)
(* backup server are those of one poll (backup_controller.py).                 *)
THEOREM RowsAreOfOnePoll == RecordsSpec => []RecordsAreWhole
<1>1. RecordsInit => RowsInv
  <2> SUFFICES ASSUME RecordsInit PROVE RowsInv
    OBVIOUS
  <2>1. RowTypes
    BY NoRowsType DEF RecordsInit, RowTypes
  <2>2. \A id \in ServerIds : history[id] = NoRows /\ backupJobs[id] = NoRows /\ snaps[id].run = 0
    BY DEF RecordsInit
  <2> QED
    BY <2>1, <2>2, NoRowsType DEF RowsInv, OneRun
<1>2. RowsInv => RecordsAreWhole
  BY DEF RowsInv, OneRun, RecordsAreWhole
<1>3. BackupSpec => []PolledInv
  BY PolledInitially, PolledStep, PTL DEF BackupSpec
<1>4. PolledInv /\ RowsInv /\ [RecordsNext]_recordVars => RowsInv'
  BY RowsStep
<1> QED
  BY <1>1, <1>2, <1>3, <1>4, PollsWithRowsArePolls, PTL DEF RecordsSpec

-----------------------------------------------------------------------------
(* Actions on guests.  Before the action nothing was carried out; while it is  *)
(* asked for, each attempt but the present one was lost.                       *)
ClickType == [pc : {"none", "login", "lookup", "action", "logs", "answered", "failed"}, attempt : Nat, ok : BOOLEAN]

VmTypes ==
    /\ vmClick \in [Clicks -> ClickType]
    /\ vmDone \in [Clicks -> Nat] /\ vmLost \in [Clicks -> Nat] /\ vmAnswers \in [Clicks -> Nat]
    /\ vmLog \in [Clicks -> {"none", "ok", "error"}]

\* q: the click; d, l, a: carried out, lost, answered; g: its line in the log
Told(q, d, l, a, g) ==
    /\ q.attempt <= Retries
    /\ a <= 1 /\ d <= a + l /\ l + a <= 1 + Retries
    /\ g = "ok" => d = 1 + l
    /\ g = "error" => d = l
    /\ q.pc \in {"none", "login", "lookup"} => d = 0 /\ l = 0 /\ a = 0 /\ g = "none" /\ ~q.ok
    /\ q.pc = "action" => a = 0 /\ d = l /\ l <= q.attempt /\ g = "none" /\ ~q.ok
    /\ q.pc = "logs" => g = "none" /\ d = IF q.ok THEN 1 + l ELSE l

ToldOf(c) == Told(vmClick[c], vmDone[c], vmLost[c], vmAnswers[c], vmLog[c])

VmInv == VmTypes /\ \A c \in Clicks : ToldOf(c)

(* A step of one click leaves the others alone.                                *)
OthersStay(c) ==
    /\ vmDone' \in [Clicks -> Nat] /\ vmLost' \in [Clicks -> Nat] /\ vmAnswers' \in [Clicks -> Nat]
    /\ vmLog' \in [Clicks -> {"none", "ok", "error"}]
    /\ \A x \in Clicks \ {c} : /\ vmDone'[x] = vmDone[x] /\ vmLost'[x] = vmLost[x]
                               /\ vmAnswers'[x] = vmAnswers[x] /\ vmLog'[x] = vmLog[x]

LEMMA ClickTurn ==
    ASSUME VmInv, NEW c \in Clicks, NEW q \in ClickType, vmClick' = [vmClick EXCEPT ![c] = q], OthersStay(c),
           Told(q, vmDone'[c], vmLost'[c], vmAnswers'[c], vmLog'[c])
    PROVE  VmInv'
<1>1. VmTypes'
  BY DEF VmInv, VmTypes, OthersStay
<1>2. ASSUME NEW x \in Clicks PROVE ToldOf(x)'
  <2>1. CASE x = c
    <3>1. vmClick'[x] = q
      BY <2>1 DEF VmInv, VmTypes
    <3> QED
      BY <2>1, <3>1 DEF ToldOf
  <2>2. CASE x # c
    <3>1. /\ vmClick'[x] = vmClick[x] /\ vmDone'[x] = vmDone[x] /\ vmLost'[x] = vmLost[x]
          /\ vmAnswers'[x] = vmAnswers[x] /\ vmLog'[x] = vmLog[x]
      BY <2>2 DEF VmInv, VmTypes, OthersStay
    <3> QED
      BY <3>1 DEF ToldOf, VmInv
  <2> QED
    BY <2>1, <2>2
<1> QED
  BY <1>1, <1>2 DEF VmInv

(* A click that goes on, or tries again.                                       *)
LEMMA ClickTriesAgain ==
    ASSUME NEW q \in ClickType
    PROVE  /\ [q EXCEPT !.attempt = @ + 1] \in ClickType /\ [q EXCEPT !.attempt = @ + 1].pc = q.pc
           /\ [q EXCEPT !.attempt = @ + 1].ok = q.ok /\ [q EXCEPT !.attempt = @ + 1].attempt = q.attempt + 1
  BY DEF ClickType

LEMMA ToldOfAnswer ==
    ASSUME NEW q, q.pc = "logs", q.ok, q.attempt = 0, NEW d, NEW l \in Nat, NEW a, l <= Retries, d = l, a = 0
    PROVE  Told(q, d + 1, l, a + 1, "none")
  BY RetriesAssumption DEF Told

LEMMA ClickStep ==
    ASSUME VmInv, NEW c \in Clicks,
           \/ VmClicked(c) \/ VmLogsIn(c) \/ VmLooksUp(c) \/ VmAnswered(c) \/ VmAnswerLost(c)
           \/ VmLogs(c) \/ VmLogFails(c)
           \/ \E error \in {"unreached", "refused", "broken"} : VmNotDone(c, error)
    PROVE  VmInv'
<1> DEFINE q == vmClick[c]  d == vmDone[c]  l == vmLost[c]  a == vmAnswers[c]  g == vmLog[c]
           again == [q EXCEPT !.attempt = @ + 1]
           At(pc, ok) == [VmNotYet EXCEPT !.pc = pc, !.ok = ok]
<1>1. q \in ClickType /\ d \in Nat /\ l \in Nat /\ a \in Nat /\ g \in {"none", "ok", "error"} /\ Told(q, d, l, a, g)
  BY DEF VmInv, VmTypes, ToldOf
<1>2. q.attempt \in Nat /\ q.ok \in BOOLEAN
  BY <1>1 DEF ClickType
<1>3. \A pc \in {"none", "login", "lookup", "action", "logs", "answered", "failed"}, ok \in BOOLEAN :
         At(pc, ok) \in ClickType /\ At(pc, ok).pc = pc /\ At(pc, ok).ok = ok /\ At(pc, ok).attempt = 0
  <2> SUFFICES ASSUME NEW pc \in {"none", "login", "lookup", "action", "logs", "answered", "failed"}, NEW ok \in BOOLEAN
               PROVE  At(pc, ok) \in ClickType /\ At(pc, ok).pc = pc /\ At(pc, ok).ok = ok /\ At(pc, ok).attempt = 0
    BY Zenon
  <2> QED
    BY DEF ClickType, VmNotYet
<1>4. again \in ClickType /\ again.pc = q.pc /\ again.ok = q.ok /\ again.attempt = q.attempt + 1
  BY <1>1, ClickTriesAgain
<1>5. \A pc : VmGoes(c, pc) <=> vmClick' = [vmClick EXCEPT ![c] = At(pc, q.ok)]
  BY DEF VmGoes
<1>6. VmAgain(c) <=> vmClick' = [vmClick EXCEPT ![c] = again]
  BY DEF VmAgain
<1>7. \A error : TriedAgain(c, error) => q.attempt < Retries
  BY DEF TriedAgain
<1>8. ASSUME UNCHANGED <<vmDone, vmLost, vmAnswers, vmLog>>
      PROVE  OthersStay(c) /\ vmDone'[c] = d /\ vmLost'[c] = l /\ vmAnswers'[c] = a /\ vmLog'[c] = g
  BY <1>8 DEF OthersStay, VmInv, VmTypes
<1> HIDE DEF q, d, l, a, g, again, At
<1>9. CASE VmClicked(c)
  <2>1. PICK pc \in {"login", "failed"} : VmGoes(c, pc)
    BY <1>9 DEF VmClicked
  <2>2. q.pc = "none" /\ UNCHANGED <<vmDone, vmLost, vmAnswers, vmLog>>
    BY <1>9 DEF VmClicked, q
  <2>3. Told(At(pc, q.ok), d, l, a, g)
    BY <1>1, <1>2, <1>3, <2>2, RetriesAssumption DEF Told
  <2>4. At(pc, q.ok) \in ClickType
    BY <1>2, <1>3
  <2> QED
    BY <1>5, <1>8, <2>1, <2>2, <2>3, <2>4, ClickTurn
<1>10. CASE VmLogsIn(c) \/ VmLooksUp(c)
  <2>1. q.pc \in {"login", "lookup"} /\ UNCHANGED <<vmDone, vmLost, vmAnswers, vmLog>>
    BY <1>10 DEF VmLogsIn, VmLooksUp, q
  <2>2. \/ \E pc \in {"lookup", "action", "failed"} : VmGoes(c, pc)
        \/ VmAgain(c) /\ \E error : TriedAgain(c, error)
    BY <1>10 DEF VmLogsIn, VmLooksUp
  <2>3. CASE \E pc \in {"lookup", "action", "failed"} : VmGoes(c, pc)
    <3>1. PICK pc \in {"lookup", "action", "failed"} : VmGoes(c, pc)
      BY <2>3
    <3>2. Told(At(pc, q.ok), d, l, a, g)
      BY <1>1, <1>2, <1>3, <2>1, RetriesAssumption DEF Told
    <3>3. At(pc, q.ok) \in ClickType
      BY <1>2, <1>3
    <3> QED
      BY <1>5, <1>8, <2>1, <3>1, <3>2, <3>3, ClickTurn
  <2>4. CASE VmAgain(c) /\ \E error : TriedAgain(c, error)
    <3>1. Told(again, d, l, a, g)
      BY <1>1, <1>2, <1>4, <1>7, <2>1, <2>4, RetriesAssumption DEF Told
    <3> QED
      BY <1>4, <1>6, <1>8, <2>1, <2>4, <3>1, ClickTurn
  <2> QED
    BY <2>2, <2>3, <2>4
<1>11. CASE VmAnswered(c)
  <2>1. q.pc = "action" /\ vmClick' = [vmClick EXCEPT ![c] = At("logs", TRUE)]
    BY <1>11 DEF VmAnswered, q, At
  <2>2. OthersStay(c) /\ vmDone'[c] = d + 1 /\ vmLost'[c] = l /\ vmAnswers'[c] = a + 1 /\ vmLog'[c] = g
    BY <1>1, <1>11 DEF VmAnswered, OthersStay, VmInv, VmTypes, d, l, a, g
  <2>3. At("logs", TRUE) \in ClickType /\ At("logs", TRUE).pc = "logs" /\ At("logs", TRUE).ok /\ At("logs", TRUE).attempt = 0
    BY <1>3
  <2>4. a = 0 /\ d = l /\ l <= Retries /\ g = "none"
    BY <1>1, <1>2, <2>1, RetriesAssumption DEF Told
  <2>5. Told(At("logs", TRUE), d + 1, l, a + 1, g)
    BY <1>1, <2>3, <2>4, ToldOfAnswer
  <2> QED
    BY <2>1, <2>2, <2>3, <2>5, ClickTurn
<1>12. CASE VmAnswerLost(c)
  <2>1. /\ q.pc = "action"
        /\ \/ VmAgain(c) /\ \E error : TriedAgain(c, error)
           \/ VmGoes(c, "logs")
    BY <1>12 DEF VmAnswerLost, q
  <2>2. OthersStay(c) /\ vmDone'[c] = d + 1 /\ vmLost'[c] = l + 1 /\ vmAnswers'[c] = a /\ vmLog'[c] = g
    BY <1>1, <1>12 DEF VmAnswerLost, OthersStay, VmInv, VmTypes, d, l, a, g
  <2>3. CASE VmAgain(c) /\ \E error : TriedAgain(c, error)
    <3>1. Told(again, d + 1, l + 1, a, g)
      BY <1>1, <1>2, <1>4, <1>7, <2>1, <2>3, RetriesAssumption DEF Told
    <3> QED
      BY <1>4, <1>6, <2>2, <2>3, <3>1, ClickTurn
  <2>4. CASE VmGoes(c, "logs")
    <3>1. Told(At("logs", q.ok), d + 1, l + 1, a, g)
      BY <1>1, <1>2, <1>3, <2>1, RetriesAssumption DEF Told
    <3>2. At("logs", q.ok) \in ClickType
      BY <1>2, <1>3
    <3> QED
      BY <1>5, <2>2, <2>4, <3>1, <3>2, ClickTurn
  <2> QED
    BY <2>1, <2>3, <2>4
<1>13. ASSUME NEW error \in {"unreached", "refused", "broken"}, VmNotDone(c, error) PROVE VmInv'
  <2> DEFINE aa == IF error = "refused" THEN a + 1 ELSE a
  <2>1. q.pc = "action" /\ IF TriedAgain(c, error) THEN VmAgain(c) ELSE VmGoes(c, "logs")
    BY <1>13 DEF VmNotDone, q
  <2>2. OthersStay(c) /\ vmDone'[c] = d /\ vmLost'[c] = l /\ vmAnswers'[c] = aa /\ vmLog'[c] = g
    BY <1>1, <1>13 DEF VmNotDone, OthersStay, VmInv, VmTypes, d, l, a, g
  <2>3. CASE TriedAgain(c, error)
    <3>1. aa = a
      BY <2>3 DEF TriedAgain
    <3>2. Told(again, d, l, a, g)
      BY <1>1, <1>2, <1>4, <1>7, <2>1, <2>3, RetriesAssumption DEF Told
    <3> HIDE DEF aa
    <3> QED
      BY <1>4, <1>6, <2>1, <2>2, <2>3, <3>1, <3>2, ClickTurn
  <2>4. CASE ~TriedAgain(c, error)
    <3>1. Told(At("logs", q.ok), d, l, aa, g)
      BY <1>1, <1>2, <1>3, <2>1, RetriesAssumption DEF Told
    <3>2. At("logs", q.ok) \in ClickType
      BY <1>2, <1>3
    <3> HIDE DEF aa
    <3> QED
      BY <1>5, <2>1, <2>2, <2>4, <3>1, <3>2, ClickTurn
  <2> QED
    BY <2>3, <2>4
<1>14. CASE VmLogs(c)
  <2> DEFINE gg == IF q.ok THEN "ok" ELSE "error"
  <2>1. q.pc = "logs" /\ VmGoes(c, "answered")
    BY <1>14 DEF VmLogs, q
  <2>2. OthersStay(c) /\ vmDone'[c] = d /\ vmLost'[c] = l /\ vmAnswers'[c] = a /\ vmLog'[c] = gg
    BY <1>14 DEF VmLogs, OthersStay, VmInv, VmTypes, q, d, l, a
  <2>3. Told(At("answered", q.ok), d, l, a, gg)
    BY <1>1, <1>2, <1>3, <2>1, RetriesAssumption DEF Told
  <2>4. At("answered", q.ok) \in ClickType
    BY <1>2, <1>3
  <2> HIDE DEF gg
  <2> QED
    BY <1>5, <2>1, <2>2, <2>3, <2>4, ClickTurn
<1>15. CASE VmLogFails(c)
  <2>1. q.pc = "logs" /\ VmGoes(c, "failed") /\ UNCHANGED <<vmDone, vmLost, vmAnswers, vmLog>>
    BY <1>15 DEF VmLogFails, q
  <2>2. Told(At("failed", q.ok), d, l, a, g)
    BY <1>1, <1>2, <1>3, <2>1, RetriesAssumption DEF Told
  <2>3. At("failed", q.ok) \in ClickType
    BY <1>2, <1>3
  <2> QED
    BY <1>5, <1>8, <2>1, <2>2, <2>3, ClickTurn
<1> QED
  BY <1>9, <1>10, <1>11, <1>12, <1>13, <1>14, <1>15

(* A click that was answered is not carried out again, one that was not no     *)
(* more often than _http() may try, and the log tells which it was, however    *)
(* many clicks, losses and restarts there are (vm_controller.py).              *)
THEOREM VmActionsAreTold == VmSpec => []ActionsAreTold
<1>1. VmInit => VmInv
  BY RetriesAssumption DEF VmInit, VmInv, VmTypes, ToldOf, Told, VmNotYet, ClickType
<1>2. VmInv => ActionsAreTold
  BY DEF VmInv, ToldOf, Told, ActionsAreTold
<1>3. ASSUME VmInv, [VmNext]_vmVars PROVE VmInv'
  <2>1. CASE UNCHANGED <<vmClick, vmDone, vmLost, vmAnswers, vmLog>>
    BY <1>3, <2>1 DEF VmInv, VmTypes, ToldOf
  <2>2. CASE VmRestart
    <3>1. \A c \in Clicks : vmClick'[c] = IF vmClick[c].pc \in {"none", "answered"} THEN vmClick[c]
                                          ELSE [VmNotYet EXCEPT !.pc = "failed"]
      BY <2>2 DEF VmRestart
    <3> DEFINE off == [VmNotYet EXCEPT !.pc = "failed"]
    <3>2. off \in ClickType /\ off.pc = "failed" /\ off.attempt = 0
      BY DEF ClickType, VmNotYet
    <3> HIDE DEF off
    <3>3. VmTypes'
      BY <1>3, <2>2, <3>2 DEF VmRestart, VmInv, VmTypes, off
    <3>4. ASSUME NEW c \in Clicks PROVE ToldOf(c)'
      <4>1. vmClick'[c] = vmClick[c] \/ vmClick'[c] = off
        BY <3>1 DEF off
      <4>2. ToldOf(c)
        BY <1>3 DEF VmInv
      <4>3. /\ vmDone'[c] = vmDone[c] /\ vmLost'[c] = vmLost[c] /\ vmAnswers'[c] = vmAnswers[c] /\ vmLog'[c] = vmLog[c]
        BY <2>2 DEF VmRestart
      <4> QED
        BY <3>2, <4>1, <4>2, <4>3, RetriesAssumption DEF ToldOf, Told
    <3> QED
      BY <3>3, <3>4 DEF VmInv
  <2> QED
    BY <1>3, <2>1, <2>2, ClickStep DEF VmNext, VmEndpointChanges, vmVars
<1> QED
  BY <1>1, <1>2, <1>3, PTL DEF VmSpec

-----------------------------------------------------------------------------
(* Backups of routers.  A backup may go once its router is gone, or as many    *)
(* newer ones have ever been stored: neither is ever undone.                   *)
RouterNo == BackupRouters \cup {0}
BackupName == [router : RouterNo, at : Nat]
BackupFile == [router : RouterNo, at : Nat, whole : BOOLEAN]
BackingUp == [pc : {"none", "downloads", "creates", "writes", "lists", "prunes", "deletes"},
              router : RouterNo, at : Nat, todo : SUBSET BackupName]

Newer(n) == {m \in everStored : m.router = n.router /\ m.at > n.at}
Outdated(n) == n.router \in gone \/ Cardinality(Newer(n)) >= KeepBackups
SafelyKept(n) == Outdated(n) \/ Whole(n) \in files
NameOf(q) == Name(q.router, q.at)

BackupsTypes ==
    /\ files \subseteq BackupFile /\ everStored \subseteq BackupName /\ savedOnes \subseteq BackupName
    /\ backingUp \in [BackupRequests -> BackingUp] /\ backupTime \in Nat

\* what a request knows of its backup and of those it is about to remove
Knows(q) ==
    /\ q.pc = "writes" => Outdated(NameOf(q)) \/ NameOf(q) \in FileNames
    /\ q.pc \in {"lists", "prunes"} => SafelyKept(NameOf(q))
    /\ q.pc = "prunes" => \A n \in q.todo : Outdated(n)
    /\ q.pc = "deletes" => q.router \in gone

KeptInv ==
    /\ BackupsTypes /\ routersListed \cap gone = {}
    /\ FileNames \subseteq everStored /\ IsFiniteSet(everStored)
    /\ \A b \in BackupRequests : Knows(backingUp[b])
    /\ \A n \in savedOnes : SafelyKept(n)

LEMMA NameTypes ==
    /\ \A q \in BackingUp : NameOf(q) \in BackupName
    /\ \A f \in BackupFile : Name(f.router, f.at) \in BackupName
    /\ \A n \in BackupName : /\ Name(n.router, n.at) = n /\ Whole(n) \in BackupFile /\ Empty(n) \in BackupFile
                             /\ Name(Whole(n).router, Whole(n).at) = n /\ Name(Empty(n).router, Empty(n).at) = n
                             /\ Whole(n).router = n.router
<1>1. ASSUME NEW q \in BackingUp PROVE NameOf(q) \in BackupName
  BY DEF BackingUp, BackupName, NameOf, Name
<1>2. ASSUME NEW f \in BackupFile PROVE Name(f.router, f.at) \in BackupName
  BY DEF BackupName, BackupFile, Name
<1>3. ASSUME NEW n \in BackupName
      PROVE  /\ Name(n.router, n.at) = n /\ Whole(n) \in BackupFile
             /\ Whole(n).router = n.router /\ Whole(n).at = n.at
  BY DEF BackupName, BackupFile, Name, Whole
<1>4. ASSUME NEW n \in BackupName
      PROVE  Empty(n) \in BackupFile /\ Empty(n).router = n.router /\ Empty(n).at = n.at
  BY DEF BackupName, BackupFile, Whole, Empty
<1> QED
  BY <1>1, <1>2, <1>3, <1>4

LEMMA MoreAreNewer ==
    ASSUME NEW some, NEW all, some \subseteq all, IsFiniteSet(all), Cardinality(some) >= KeepBackups
    PROVE  Cardinality(all) >= KeepBackups
<1>1. IsFiniteSet(some) /\ Cardinality(some) <= Cardinality(all)
  BY FS_Subset
<1>2. Cardinality(some) \in Nat /\ Cardinality(all) \in Nat
  BY <1>1, FS_CardinalityType
<1> QED
  BY <1>1, <1>2, KeepBound

LEMMA OutdatedStays ==
    ASSUME gone \subseteq gone', everStored \subseteq everStored', IsFiniteSet(everStored'), NEW n, Outdated(n)
    PROVE  Outdated(n)'
<1>1. CASE n.router \in gone
  BY <1>1 DEF Outdated
<1>2. CASE Cardinality(Newer(n)) >= KeepBackups
  <2> DEFINE some == {m \in everStored : m.router = n.router /\ m.at > n.at}
             all == {m \in everStored' : m.router = n.router /\ m.at > n.at}
  <2>1. some \subseteq all /\ all \subseteq everStored'
    OBVIOUS
  <2>2. Newer(n) = some /\ Newer(n)' = all
    BY DEF Newer
  <2> HIDE DEF some, all
  <2>3. IsFiniteSet(all)
    BY <2>1, FS_Subset
  <2>4. Cardinality(all) >= KeepBackups
    BY <1>2, <2>1, <2>2, <2>3, MoreAreNewer
  <2> QED
    BY <2>2, <2>4 DEF Outdated
<1> QED
  BY <1>1, <1>2 DEF Outdated

(* Files of backups that may not go stay, and the others that are there are    *)
(* known: then everything a request knows stays true.                          *)
LEMMA KnowledgeStays ==
    ASSUME KeptInv, gone \subseteq gone', everStored \subseteq everStored', IsFiniteSet(everStored'),
           \A n \in BackupName : /\ Whole(n) \in files => SafelyKept(n)'
                                 /\ n \in FileNames => Outdated(n)' \/ n \in FileNames'
    PROVE  /\ \A q \in BackingUp : Knows(q) => Knows(q)'
           /\ \A n \in BackupName : SafelyKept(n) => SafelyKept(n)'
<1>1. \A n : Outdated(n) => Outdated(n)'
  BY OutdatedStays
<1>2. ASSUME NEW n \in BackupName, SafelyKept(n) PROVE SafelyKept(n)'
  BY <1>1, <1>2 DEF SafelyKept
<1>3. ASSUME NEW q \in BackingUp, Knows(q) PROVE Knows(q)'
  <2>1. NameOf(q) \in BackupName
    BY NameTypes
  <2>2. q.pc = "writes" => Outdated(NameOf(q))' \/ NameOf(q) \in FileNames'
    BY <1>1, <1>3, <2>1 DEF Knows
  <2>3. q.pc \in {"lists", "prunes"} => SafelyKept(NameOf(q))'
    BY <1>2, <1>3, <2>1 DEF Knows
  <2>4. q.pc = "prunes" => \A n \in q.todo : Outdated(n)'
    BY <1>1, <1>3 DEF Knows
  <2>5. q.pc = "deletes" => q.router \in gone'
    BY <1>3 DEF Knows
  <2> QED
    BY <2>2, <2>3, <2>4, <2>5 DEF Knows
<1> QED
  BY <1>2, <1>3

(* A step of one request.                                                      *)
LEMMA KeptTurn ==
    ASSUME KeptInv, NEW b \in BackupRequests, NEW q \in BackingUp, backingUp' = [backingUp EXCEPT ![b] = q],
           files' \subseteq BackupFile, everStored' \subseteq BackupName, backupTime' \in Nat, savedOnes' \subseteq BackupName,
           gone \subseteq gone', routersListed' \cap gone' = {},
           everStored \subseteq everStored', IsFiniteSet(everStored'), FileNames' \subseteq everStored',
           \A n \in BackupName : /\ Whole(n) \in files => SafelyKept(n)'
                                 /\ n \in FileNames => Outdated(n)' \/ n \in FileNames',
           Knows(q)', \A n \in savedOnes' : n \in savedOnes \/ SafelyKept(n)'
    PROVE  KeptInv'
<1>1. /\ \A r \in BackingUp : Knows(r) => Knows(r)'
      /\ \A n \in BackupName : SafelyKept(n) => SafelyKept(n)'
  BY KnowledgeStays
<1>2. backingUp \in [BackupRequests -> BackingUp] /\ savedOnes \subseteq BackupName
  BY DEF KeptInv, BackupsTypes
<1>3. BackupsTypes'
  BY <1>2 DEF BackupsTypes
<1>4. ASSUME NEW x \in BackupRequests PROVE Knows(backingUp[x])'
  <2>1. CASE x = b
    <3>1. backingUp'[x] = q
      BY <1>2, <2>1
    <3> QED
      BY <3>1 DEF Knows
  <2>2. CASE x # b
    <3>1. backingUp'[x] = backingUp[x] /\ backingUp[x] \in BackingUp /\ Knows(backingUp[x])
      BY <1>2, <2>2 DEF KeptInv
    <3> DEFINE r == backingUp[x]
    <3> HIDE DEF r
    <3>2. backingUp'[x] = r /\ r \in BackingUp /\ Knows(r)
      BY <3>1 DEF r
    <3> QED
      BY <1>1, <3>2 DEF Knows
  <2> QED
    BY <2>1, <2>2
<1>5. \A n \in savedOnes' : SafelyKept(n)'
  BY <1>1, <1>2 DEF KeptInv
<1> QED
  BY <1>3, <1>4, <1>5 DEF KeptInv

(* A step that leaves the files alone.                                         *)
LEMMA FilesAlone ==
    ASSUME UNCHANGED <<files, gone, everStored>>
    PROVE  /\ FileNames' = FileNames
           /\ \A n : (Outdated(n)' <=> Outdated(n)) /\ (SafelyKept(n)' <=> SafelyKept(n))
           /\ \A q : Knows(q)' <=> Knows(q)
  BY DEF FileNames, Outdated, Newer, SafelyKept, Knows

LEMMA QuietTurn ==
    ASSUME KeptInv, NEW b \in BackupRequests, NEW q \in BackingUp, backingUp' = [backingUp EXCEPT ![b] = q],
           UNCHANGED <<files, gone, everStored, routersListed, backupTime>>, Knows(q), savedOnes' \subseteq BackupName,
           \A n \in savedOnes' : n \in savedOnes \/ SafelyKept(n)
    PROVE  KeptInv'
<1>1. /\ FileNames' = FileNames
      /\ \A n : (Outdated(n)' <=> Outdated(n)) /\ (SafelyKept(n)' <=> SafelyKept(n))
      /\ Knows(q)' <=> Knows(q)
  BY FilesAlone
<1>2. \A n \in BackupName : /\ Whole(n) \in files => SafelyKept(n)'
                            /\ n \in FileNames => Outdated(n)' \/ n \in FileNames'
  BY <1>1 DEF SafelyKept
<1>3. \A n \in savedOnes' : n \in savedOnes \/ SafelyKept(n)'
  BY <1>1
<1>4. /\ files' \subseteq BackupFile /\ everStored' \subseteq BackupName /\ backupTime' \in Nat
      /\ gone \subseteq gone' /\ routersListed' \cap gone' = {}
      /\ everStored \subseteq everStored' /\ IsFiniteSet(everStored') /\ FileNames' \subseteq everStored'
  BY <1>1 DEF KeptInv, BackupsTypes
<1> QED
  BY <1>1, <1>2, <1>3, <1>4, KeptTurn

LEMMA NoBackupType == NoBackup \in BackingUp /\ NoBackup.pc = "none" /\ Knows(NoBackup)
<1>1. NoBackup \in BackingUp /\ NoBackup.pc = "none"
  BY DEF NoBackup, BackingUp, RouterNo
<1> QED
  BY <1>1 DEF Knows

LEMMA QuietSteps ==
    ASSUME KeptInv, NEW b \in BackupRequests,
           \/ DownloadFails(b) \/ NamesFile(b) \/ WriteFails(b) \/ ListsBackups(b) \/ AnswersSaved(b)
           \/ \E id \in BackupRouters : BackupAsked(b, id)
    PROVE  KeptInv'
<1> DEFINE q == backingUp[b]
<1>1. q \in BackingUp /\ Knows(q) /\ savedOnes \subseteq BackupName /\ backupTime \in Nat
  BY DEF KeptInv, BackupsTypes
<1>2. ASSUME Turns(b, NoBackup), UNCHANGED <<files, gone, everStored, routersListed, backupTime, savedOnes>>
      PROVE  KeptInv'
  BY <1>1, <1>2, NoBackupType, QuietTurn DEF Turns
<1>3. ASSUME NEW r \in BackingUp, Knows(r), Turns(b, r),
             UNCHANGED <<files, gone, everStored, routersListed, backupTime, savedOnes>>
      PROVE  KeptInv'
  BY <1>1, <1>3, QuietTurn DEF Turns
<1>4. ASSUME NEW id \in BackupRouters, BackupAsked(b, id) PROVE KeptInv'
  <2> DEFINE r == [NoBackup EXCEPT !.pc = "downloads", !.router = id]
  <2>1. r \in BackingUp /\ r.pc = "downloads"
    BY NoBackupType DEF BackingUp, RouterNo
  <2>2. Knows(r)
    BY <2>1 DEF Knows
  <2>3. Turns(b, r)
    BY <1>4 DEF BackupAsked
  <2> HIDE DEF r
  <2> QED
    BY <1>3, <1>4, <2>1, <2>2, <2>3 DEF BackupAsked
<1>5. CASE DownloadFails(b) \/ WriteFails(b)
  BY <1>2, <1>5 DEF DownloadFails, WriteFails
<1>6. CASE NamesFile(b)
  <2> DEFINE r == [q EXCEPT !.pc = "creates", !.at = backupTime]
  <2>1. r \in BackingUp /\ r.pc = "creates"
    BY <1>1 DEF BackingUp
  <2>2. Knows(r)
    BY <2>1 DEF Knows
  <2>3. Turns(b, r)
    BY <1>6 DEF NamesFile
  <2> HIDE DEF r
  <2> QED
    BY <1>3, <1>6, <2>1, <2>2, <2>3 DEF NamesFile
<1>7. CASE ListsBackups(b)
  <2>1. UNCHANGED <<files, gone, everStored, routersListed, backupTime, savedOnes>>
    BY <1>7 DEF ListsBackups
  <2>2. CASE Turns(b, NoBackup)
    BY <1>2, <2>1, <2>2
  <2>3. CASE ~Turns(b, NoBackup)
    <3> DEFINE mine == {n \in FileNames : n.router = q.router}
               r == [q EXCEPT !.pc = "prunes", !.todo = Old(mine)]
    <3>1. Turns(b, r) /\ q.pc = "lists"
      BY <1>7, <2>3 DEF ListsBackups
    <3>2. FileNames \subseteq everStored /\ everStored \subseteq BackupName /\ IsFiniteSet(everStored)
      BY DEF KeptInv, BackupsTypes
    <3>3. Old(mine) \subseteq BackupName
      BY <3>2 DEF Old
    <3>4. r \in BackingUp /\ r.pc = "prunes" /\ r.todo = Old(mine) /\ NameOf(r) = NameOf(q)
      BY <1>1, <3>3 DEF BackingUp, NameOf
    <3>5. ASSUME NEW n \in Old(mine) PROVE Outdated(n)
      <4> DEFINE some == {m \in mine : m.at > n.at}
      <4>1. n.router = q.router /\ Cardinality(some) >= KeepBackups
        BY DEF Old
      <4>2. some \subseteq Newer(n) /\ Newer(n) \subseteq everStored
        BY <3>2, <4>1 DEF Newer
      <4> HIDE DEF some
      <4>3. IsFiniteSet(Newer(n))
        BY <3>2, <4>2, FS_Subset
      <4>4. Cardinality(Newer(n)) >= KeepBackups
        BY <4>1, <4>2, <4>3, MoreAreNewer
      <4> QED
        BY <4>4 DEF Outdated
    <3> HIDE DEF r, mine
    <3>6. SafelyKept(NameOf(r))
      BY <1>1, <3>1, <3>4 DEF Knows
    <3>7. Knows(r)
      BY <3>4, <3>5, <3>6 DEF Knows
    <3> QED
      BY <1>3, <2>1, <3>1, <3>4, <3>7
  <2> QED
    BY <2>2, <2>3
<1>8. CASE AnswersSaved(b)
  <2>1. /\ q.pc = "prunes" /\ backingUp' = [backingUp EXCEPT ![b] = NoBackup] /\ savedOnes' = savedOnes \cup {NameOf(q)}
        /\ UNCHANGED <<files, gone, everStored, routersListed, backupTime>>
    BY <1>8 DEF AnswersSaved, Turns, NameOf
  <2>2. NameOf(q) \in BackupName /\ SafelyKept(NameOf(q))
    BY <1>1, <2>1, NameTypes DEF Knows
  <2> HIDE DEF q
  <2>3. savedOnes' \subseteq BackupName /\ \A n \in savedOnes' : n \in savedOnes \/ SafelyKept(n)
    BY <1>1, <2>1, <2>2
  <2> QED
    BY <2>1, <2>3, NoBackupType, QuietTurn
<1> QED
  BY <1>4, <1>5, <1>6, <1>7, <1>8

(* What a request leaves when it takes names away and adds others.             *)
LEMMA StoredTypes ==
    ASSUME KeptInv
    PROVE  /\ files \subseteq BackupFile /\ everStored \subseteq BackupName /\ savedOnes \subseteq BackupName
           /\ backupTime \in Nat /\ IsFiniteSet(everStored) /\ FileNames \subseteq everStored
           /\ routersListed \cap gone = {} /\ \A n \in savedOnes : SafelyKept(n)
           /\ \A b \in BackupRequests : backingUp[b] \in BackingUp /\ Knows(backingUp[b])
  BY DEF KeptInv, BackupsTypes

LEMMA NamesLeft ==
    ASSUME NEW name, files' = Without(name)
    PROVE  FileNames' = FileNames \ {name} /\ \A f \in files : Name(f.router, f.at) # name => f \in files'
  BY DEF FileNames, Without

LEMMA NamesAdded ==
    ASSUME NEW name, NEW f, Name(f.router, f.at) = name, files' = Without(name) \cup {f}
    PROVE  /\ FileNames' = FileNames \cup {name} /\ f \in files'
           /\ \A g \in files : Name(g.router, g.at) # name => g \in files'
  BY DEF FileNames, Without

LEMMA CreateStep == ASSUME KeptInv, NEW b \in BackupRequests, CreatesFile(b) PROVE KeptInv'
<1>1. PICK q \in BackingUp, name \in BackupName : q = backingUp[b] /\ name = NameOf(q)
  BY StoredTypes, NameTypes
<1>2. /\ q.pc = "creates" /\ UNCHANGED <<routersListed, gone, savedOnes, backupTime>>
      /\ IF MayCreate(name)
         THEN BackupGoesOn(b, "writes") /\ files' = Without(name) \cup {Empty(name)} /\ everStored' = everStored \cup {name}
         ELSE Turns(b, NoBackup) /\ UNCHANGED <<files, everStored>>
  BY <1>1 DEF CreatesFile, NameOf
<1>3. CASE ~MayCreate(name)
  <2>1. backingUp' = [backingUp EXCEPT ![b] = NoBackup] /\ UNCHANGED <<files, gone, everStored, routersListed, backupTime, savedOnes>>
    BY <1>2, <1>3 DEF Turns
  <2>2. savedOnes' \subseteq BackupName
    BY <2>1, StoredTypes
  <2> QED
    BY <2>1, <2>2, NoBackupType, QuietTurn
<1>4. CASE MayCreate(name)
  <2> DEFINE r == [q EXCEPT !.pc = "writes"]
  <2>1. r \in BackingUp /\ r.pc = "writes" /\ NameOf(r) = name
    BY <1>1 DEF BackingUp, NameOf
  <2>2. backingUp' = [backingUp EXCEPT ![b] = r]
    BY <1>1, <1>2, <1>4 DEF BackupGoesOn, Turns
  <2> HIDE DEF r
  <2>3. files' = Without(name) \cup {Empty(name)} /\ everStored' = everStored \cup {name} /\ name \notin FileNames
    BY <1>2, <1>4 DEF MayCreate
  <2>4. Empty(name) \in BackupFile /\ Name(Empty(name).router, Empty(name).at) = name
    BY <1>1, NameTypes
  <2>5. FileNames' = FileNames \cup {name} /\ \A g \in files : Name(g.router, g.at) # name => g \in files'
    BY <2>3, <2>4, NamesAdded
  <2>6. \A g \in files : g \in files'
    BY <2>3, <2>5 DEF FileNames
  <2>7. \A n \in BackupName : /\ Whole(n) \in files => SafelyKept(n)'
                              /\ n \in FileNames => Outdated(n)' \/ n \in FileNames'
    <3>1. ASSUME NEW n \in BackupName, Whole(n) \in files PROVE SafelyKept(n)'
      BY <2>6, <3>1 DEF SafelyKept
    <3> QED
      BY <2>5, <3>1
  <2>8. files' \subseteq BackupFile /\ everStored' \subseteq BackupName /\ backupTime' \in Nat /\ savedOnes' \subseteq BackupName
    BY <1>1, <1>2, <2>3, <2>4, StoredTypes DEF Without
  <2>9. IsFiniteSet(everStored')
    BY <2>3, StoredTypes, FS_AddElement
  <2>10. everStored \subseteq everStored' /\ FileNames' \subseteq everStored' /\ gone \subseteq gone' /\ routersListed' \cap gone' = {}
    BY <1>2, <2>3, <2>5, StoredTypes
  <2>11. Knows(r)'
    BY <2>1, <2>5 DEF Knows, NameOf, Name
  <2> QED
    BY <1>2, <2>1, <2>2, <2>7, <2>8, <2>9, <2>10, <2>11, KeptTurn
<1> QED
  BY <1>3, <1>4

LEMMA WriteStep == ASSUME KeptInv, NEW b \in BackupRequests, WritesFile(b) PROVE KeptInv'
<1>0. PICK q \in BackingUp, name \in BackupName : q = backingUp[b] /\ name = NameOf(q)
  BY StoredTypes, NameTypes
<1> DEFINE r == [q EXCEPT !.pc = "lists"]
<1>1. q.pc = "writes" /\ (Outdated(name) \/ name \in FileNames)
  BY <1>0, StoredTypes DEF WritesFile, Knows
<1>2. /\ files' = IF name \in FileNames THEN Without(name) \cup {Whole(name)} ELSE files
      /\ UNCHANGED <<routersListed, gone, savedOnes, everStored, backupTime>>
  BY <1>0 DEF WritesFile, NameOf
<1>3. r \in BackingUp /\ r.pc = "lists" /\ NameOf(r) = name
  BY <1>0 DEF BackingUp, NameOf
<1>4. backingUp' = [backingUp EXCEPT ![b] = r]
  BY <1>0 DEF WritesFile, BackupGoesOn, Turns
<1> HIDE DEF r
<1>5. \A n : Outdated(n)' <=> Outdated(n)
  BY <1>2 DEF Outdated, Newer
<1>6. /\ FileNames' = FileNames /\ (name \in FileNames => Whole(name) \in files')
      /\ \A g \in files : Name(g.router, g.at) # name => g \in files'
  <2>1. CASE name \in FileNames
    <3>1. Name(Whole(name).router, Whole(name).at) = name /\ files' = Without(name) \cup {Whole(name)}
      BY <1>1, <1>2, <2>1, NameTypes
    <3> DEFINE f == Whole(name)
    <3>2. Name(f.router, f.at) = name /\ files' = Without(name) \cup {f}
      BY <3>1
    <3> HIDE DEF f
    <3>3. FileNames' = FileNames \cup {name} /\ f \in files' /\ \A g \in files : Name(g.router, g.at) # name => g \in files'
      BY <3>2, NamesAdded
    <3> QED
      BY <2>1, <3>3 DEF f
  <2>2. CASE name \notin FileNames
    BY <1>2, <2>2 DEF FileNames
  <2> QED
    BY <2>1, <2>2
<1>7. \A n \in BackupName : /\ Whole(n) \in files => SafelyKept(n)'
                            /\ n \in FileNames => Outdated(n)' \/ n \in FileNames'
  <2>1. ASSUME NEW n \in BackupName, Whole(n) \in files PROVE Whole(n) \in files'
    <3>1. CASE n = name
      <4>1. name \in FileNames
        BY <2>1, <3>1, NameTypes DEF FileNames
      <4> QED
        BY <1>6, <3>1, <4>1
    <3>2. CASE n # name
      <4>1. Name(Whole(n).router, Whole(n).at) # name
        BY <3>2, NameTypes
      <4> QED
        BY <1>6, <2>1, <4>1
    <3> QED
      BY <3>1, <3>2
  <2> QED
    BY <1>6, <2>1 DEF SafelyKept
<1>8. files' \subseteq BackupFile /\ everStored' \subseteq BackupName /\ backupTime' \in Nat /\ savedOnes' \subseteq BackupName
  BY <1>1, <1>2, NameTypes, StoredTypes DEF Without
<1>9. /\ everStored \subseteq everStored' /\ IsFiniteSet(everStored') /\ FileNames' \subseteq everStored'
      /\ gone \subseteq gone' /\ routersListed' \cap gone' = {}
  BY <1>2, <1>6, StoredTypes
<1>10. SafelyKept(name)'
  BY <1>1, <1>5, <1>6 DEF SafelyKept
<1>11. Knows(r)'
  BY <1>3, <1>10 DEF Knows, NameOf, Name
<1> QED
  BY <1>2, <1>3, <1>4, <1>7, <1>8, <1>9, <1>11, KeptTurn

(* Only names of backups that may go are taken away.                           *)
LEMMA TakenAway ==
    ASSUME KeptInv, NEW b \in BackupRequests, NEW q \in BackingUp, backingUp' = [backingUp EXCEPT ![b] = q],
           files' \subseteq files, \A f \in files : f \in files' \/ Outdated(Name(f.router, f.at)),
           UNCHANGED <<gone, everStored, routersListed, backupTime, savedOnes>>,
           \/ q.pc = "none"
           \/ q.pc = "prunes" /\ SafelyKept(NameOf(q)) /\ \A n \in q.todo : Outdated(n)
    PROVE  KeptInv'
<1>1. \A n : Outdated(n)' <=> Outdated(n)
  BY DEF Outdated, Newer
<1>2. ASSUME NEW n \in BackupName, Whole(n) \in files PROVE SafelyKept(n)'
  <2>1. Name(Whole(n).router, Whole(n).at) = n
    BY NameTypes
  <2> QED
    BY <1>1, <1>2, <2>1 DEF SafelyKept
<1>3. ASSUME NEW n \in BackupName, n \in FileNames PROVE Outdated(n)' \/ n \in FileNames'
  BY <1>1, <1>3 DEF FileNames
<1>4. FileNames' \subseteq FileNames
  BY DEF FileNames
<1>5. /\ files' \subseteq BackupFile /\ everStored' \subseteq BackupName /\ backupTime' \in Nat /\ savedOnes' \subseteq BackupName
      /\ gone \subseteq gone' /\ routersListed' \cap gone' = {}
      /\ everStored \subseteq everStored' /\ IsFiniteSet(everStored') /\ FileNames' \subseteq everStored'
  BY <1>4, StoredTypes
<1>6. Knows(q)'
  <2>1. CASE q.pc = "none"
    BY <2>1 DEF Knows
  <2>2. CASE q.pc = "prunes" /\ SafelyKept(NameOf(q)) /\ \A n \in q.todo : Outdated(n)
    <3>1. NameOf(q) \in BackupName
      BY NameTypes
    <3>2. SafelyKept(NameOf(q))'
      BY <1>1, <1>2, <2>2, <3>1 DEF SafelyKept
    <3> QED
      BY <1>1, <2>2, <3>2 DEF Knows
  <2> QED
    BY <2>1, <2>2
<1>7. \A n \in BackupName : /\ Whole(n) \in files => SafelyKept(n)'
                            /\ n \in FileNames => Outdated(n)' \/ n \in FileNames'
  BY <1>2, <1>3
<1>8. \A n \in savedOnes' : n \in savedOnes \/ SafelyKept(n)'
  OBVIOUS
<1> QED
  BY <1>5, <1>6, <1>7, <1>8, KeptTurn

LEMMA PruneStep ==
    ASSUME KeptInv, NEW b \in BackupRequests, NEW name \in backingUp[b].todo, PrunesOne(b, name)
    PROVE  KeptInv'
<1> DEFINE q == backingUp[b]
           less == [q EXCEPT !.todo = @ \ {name}]
           r == IF name \in FileNames THEN less ELSE NoBackup
<1>1. q \in BackingUp /\ q.pc = "prunes" /\ SafelyKept(NameOf(q)) /\ \A n \in q.todo : Outdated(n)
  BY StoredTypes DEF PrunesOne, Knows
<1>2. less \in BackingUp /\ less.pc = "prunes" /\ less.todo \subseteq q.todo /\ NameOf(less) = NameOf(q)
  BY <1>1 DEF BackingUp, NameOf
<1>3. files' = Without(name) /\ UNCHANGED <<routersListed, gone, savedOnes, everStored, backupTime>>
  BY DEF PrunesOne
<1>4. backingUp' = [backingUp EXCEPT ![b] = r]
  BY DEF PrunesOne, Turns
<1>5. Outdated(name)
  BY <1>1
<1> HIDE DEF q, less
<1>6. files' \subseteq files /\ \A f \in files : f \in files' \/ Outdated(Name(f.router, f.at))
  BY <1>3, <1>5 DEF Without
<1>7. /\ r \in BackingUp
      /\ \/ r.pc = "none"
         \/ r.pc = "prunes" /\ SafelyKept(NameOf(r)) /\ \A n \in r.todo : Outdated(n)
  <2>1. CASE name \in FileNames
    BY <1>1, <1>2, <2>1
  <2>2. CASE name \notin FileNames
    BY <2>2, NoBackupType
  <2> QED
    BY <2>1, <2>2
<1> HIDE DEF r
<1> QED
  BY <1>3, <1>4, <1>6, <1>7, TakenAway

LEMMA RouterDeleteSteps ==
    ASSUME KeptInv, NEW b \in BackupRequests, DeletesBackups(b) \/ \E id \in BackupRouters : DeletesRow(b, id)
    PROVE  KeptInv'
<1>1. CASE DeletesBackups(b)
  <2>1. backingUp[b].router \in gone
    BY <1>1, StoredTypes DEF DeletesBackups, Knows
  <2>2. files' \subseteq files /\ \A f \in files : f \in files' \/ Outdated(Name(f.router, f.at))
    BY <1>1, <2>1 DEF DeletesBackups, Outdated, Name
  <2>3. backingUp' = [backingUp EXCEPT ![b] = NoBackup] /\ UNCHANGED <<routersListed, gone, savedOnes, everStored, backupTime>>
    BY <1>1 DEF DeletesBackups, Turns
  <2> QED
    BY <2>2, <2>3, NoBackupType, TakenAway
<1>2. ASSUME NEW id \in BackupRouters, DeletesRow(b, id) PROVE KeptInv'
  <2> DEFINE r == [NoBackup EXCEPT !.pc = "deletes", !.router = id]
  <2>1. r \in BackingUp /\ r.pc = "deletes" /\ r.router = id
    BY NoBackupType DEF BackingUp, RouterNo
  <2>2. backingUp' = [backingUp EXCEPT ![b] = r]
    BY <1>2 DEF DeletesRow, Turns
  <2> HIDE DEF r
  <2>3. routersListed' = routersListed \ {id} /\ gone' = gone \cup {id} /\ UNCHANGED <<files, savedOnes, everStored, backupTime>>
    BY <1>2 DEF DeletesRow
  <2>4. \A n \in BackupName : /\ Whole(n) \in files => SafelyKept(n)'
                              /\ n \in FileNames => Outdated(n)' \/ n \in FileNames'
    BY <2>3 DEF SafelyKept, FileNames
  <2>5. Knows(r)'
    BY <2>1, <2>3 DEF Knows
  <2>6. /\ files' \subseteq BackupFile /\ everStored' \subseteq BackupName /\ backupTime' \in Nat /\ savedOnes' \subseteq BackupName
        /\ gone \subseteq gone' /\ routersListed' \cap gone' = {}
        /\ everStored \subseteq everStored' /\ IsFiniteSet(everStored')
    BY <2>3, StoredTypes
  <2>7. FileNames' \subseteq everStored'
    BY <2>3, StoredTypes DEF FileNames
  <2> QED
    BY <2>1, <2>2, <2>3, <2>4, <2>5, <2>6, <2>7, KeptTurn
<1> QED
  BY <1>1, <1>2

(* Steps of no request: a router added, a second, a restart.                   *)
LEMMA StepsBesides ==
    ASSUME KeptInv, BackupSecond \/ BackupRestart \/ (\E id \in BackupRouters : RouterAdded(id))
    PROVE  KeptInv'
<1>1. UNCHANGED <<files, gone, everStored, savedOnes>>
  BY DEF BackupSecond, BackupRestart, RouterAdded
<1>2. /\ FileNames' = FileNames
      /\ \A n : SafelyKept(n)' <=> SafelyKept(n)
      /\ \A q : Knows(q)' <=> Knows(q)
  BY <1>1, FilesAlone
<1>3. routersListed' \cap gone' = {}
  BY <1>1, StoredTypes DEF BackupSecond, BackupRestart, RouterAdded
<1>4. backupTime' \in Nat
  BY StoredTypes DEF BackupSecond, BackupRestart, RouterAdded
<1>5. backingUp' \in [BackupRequests -> BackingUp] /\ \A b \in BackupRequests : Knows(backingUp'[b])
  <2>1. CASE BackupRestart
    BY <2>1, NoBackupType DEF BackupRestart
  <2>2. CASE backingUp' = backingUp
    BY <2>2 DEF KeptInv, BackupsTypes
  <2> QED
    BY <2>1, <2>2 DEF BackupSecond, BackupRestart, RouterAdded
<1>6. \A b \in BackupRequests : Knows(backingUp[b])'
  <2>1. ASSUME NEW b \in BackupRequests PROVE Knows(backingUp[b])'
    <3>1. Knows(backingUp'[b])
      BY <1>5
    <3> QED
      BY <1>1, <3>1 DEF Knows, SafelyKept, Outdated, Newer, FileNames, NameOf, Name
  <2> QED
    BY <2>1
<1>7. BackupsTypes'
  BY <1>1, <1>4, <1>5, StoredTypes DEF BackupsTypes
<1>8. \A n \in savedOnes' : SafelyKept(n)'
  BY <1>1, <1>2, StoredTypes
<1> QED
  BY <1>1, <1>2, <1>3, <1>6, <1>7, <1>8, StoredTypes DEF KeptInv

(* The newest backups of a router are kept: however requests for backups of a  *)
(* router overlap, fail or are cut off, one answered as saved is whole in      *)
(* router_backups/ until its router goes or enough newer ones have been        *)
(* stored (RouterManager.backup_config and list_backups, delete_router).       *)
THEOREM BackupsStay == RouterBackupsSpec => []BackupsKept
<1>1. RouterBackupsInit => KeptInv
  <2> SUFFICES ASSUME RouterBackupsInit PROVE KeptInv
    OBVIOUS
  <2>1. BackupsTypes
    BY NoBackupType DEF RouterBackupsInit, BackupsTypes
  <2>2. FileNames = {} /\ IsFiniteSet(everStored)
    BY FS_EmptySet DEF RouterBackupsInit, FileNames
  <2>3. \A b \in BackupRequests : Knows(backingUp[b])
    BY NoBackupType DEF RouterBackupsInit
  <2> QED
    BY <2>1, <2>2, <2>3 DEF KeptInv, RouterBackupsInit
<1>2. KeptInv /\ [RouterBackupsNext]_routerBackupVars => KeptInv'
  <2> SUFFICES ASSUME KeptInv, [RouterBackupsNext]_routerBackupVars PROVE KeptInv'
    OBVIOUS
  <2>1. ASSUME UNCHANGED routerBackupVars PROVE KeptInv'
    BY <2>1 DEF routerBackupVars, KeptInv, BackupsTypes, FileNames, Knows, SafelyKept, Outdated, Newer
  <2>2. ASSUME NEW b \in BackupRequests, BackupStep(b) PROVE KeptInv'
    <3>1. CASE \/ DownloadFails(b) \/ NamesFile(b) \/ WriteFails(b) \/ ListsBackups(b) \/ AnswersSaved(b)
               \/ \E id \in BackupRouters : BackupAsked(b, id)
      BY <3>1, QuietSteps
    <3>2. CASE CreatesFile(b) \/ WritesFile(b)
      BY <3>2, CreateStep, WriteStep
    <3>3. CASE \E n \in backingUp[b].todo : PrunesOne(b, n)
      BY <3>3, PruneStep
    <3>4. CASE DeletesBackups(b) \/ \E id \in BackupRouters : DeletesRow(b, id)
      BY <3>4, RouterDeleteSteps
    <3>5. CASE \E id \in BackupRouters : BackupRefused(b, id)
      BY <2>1, <3>5 DEF BackupRefused
    <3> QED
      BY <2>2, <3>1, <3>2, <3>3, <3>4, <3>5 DEF BackupStep
  <2> QED
    BY <2>1, <2>2, StepsBesides DEF RouterBackupsNext
<1>3. KeptInv => BackupsKept
  <2> SUFFICES ASSUME KeptInv, NEW n \in savedOnes, n.router \in routersListed
               PROVE  Whole(n) \in files \/ Cardinality({m \in everStored : m.router = n.router /\ m.at > n.at}) >= KeepBackups
    BY DEF BackupsKept
  <2>1. SafelyKept(n) /\ n.router \notin gone
    BY StoredTypes
  <2> QED
    BY <2>1 DEF SafelyKept, Outdated, Newer
<1> QED
  BY <1>1, <1>2, <1>3, PTL DEF RouterBackupsSpec

-----------------------------------------------------------------------------
(* Backups of the data directory.  The daily thread's list of what to prune is *)
(* of names that enough newer ones outnumber, and stays so, because names that *)
(* were made are never forgotten.                                              *)
NameType == [at : Nat, label : {"auto", "manual"}]
ArchiveType == [at : Nat, label : {"auto", "manual"}, whole : BOOLEAN, torn : SUBSET DataFiles]
MakerType == [pc : {"none", "copies", "packs", "moves", "lists", "prunes"}, at : Nat, label : {"auto", "manual"},
              todo : SUBSET DataFiles, torn : SUBSET DataFiles, old : SUBSET NameType]

ArchiveTypes ==
    /\ archives \subseteq ArchiveType /\ maker \in [Makers -> MakerType] /\ moment \in Nat
    /\ madeOnes \subseteq NameType /\ IsFiniteSet(madeOnes)

Outnumbered(n) == n.label = "auto" /\ Cardinality(NewerIn(madeOnes, n)) >= KeepAutos
CopiesAreSound == \A b \in Makers : maker[b].torn \cap Databases = {}
ArchivesWereMade == \A a \in archives : ArchiveName(a) \in madeOnes
OnlyOldOnesGo == \A b \in Makers : \A n \in maker[b].old : Outnumbered(n)

ArchivesInv ==
    ArchiveTypes /\ CopiesAreSound /\ ArchivesWereMade /\ OnlyOldOnesGo /\ ArchivesAreWhole /\ ArchivesStay

LEMMA ArchiveNames ==
    /\ \A a \in ArchiveType : ArchiveName(a) \in NameType
    /\ \A m \in MakerType : ArchiveName(m) \in NameType
    /\ \A n \in NameType, w \in BOOLEAN, torn \in SUBSET DataFiles :
           Archive(n, w, torn) \in ArchiveType /\ ArchiveName(Archive(n, w, torn)) = n
BY DEF NameType, ArchiveType, MakerType, ArchiveName, Archive

\* What newer names outnumber they outnumber when more are made.
LEMMA StaysOutnumbered ==
    ASSUME IsFiniteSet(madeOnes), IsFiniteSet(madeOnes'), madeOnes \subseteq madeOnes', NEW n, Outnumbered(n)
    PROVE  Outnumbered(n)'
<1>1. NewerIn(madeOnes, n) \subseteq NewerIn(madeOnes', n)
  BY DEF NewerIn
<1>2. IsFiniteSet(NewerIn(madeOnes, n)) /\ IsFiniteSet(NewerIn(madeOnes', n))
  <2>1. NewerIn(madeOnes, n) \subseteq madeOnes /\ NewerIn(madeOnes', n) \subseteq madeOnes'
    BY DEF NewerIn
  <2> QED
    BY <2>1, FS_Subset
<1>3. /\ Cardinality(NewerIn(madeOnes, n)) <= Cardinality(NewerIn(madeOnes', n))
      /\ Cardinality(NewerIn(madeOnes, n)) \in Nat /\ Cardinality(NewerIn(madeOnes', n)) \in Nat
  BY <1>1, <1>2, FS_Subset, FS_CardinalityType
<1> QED
  BY <1>3, ConfigBackupAssumption DEF Outnumbered

\* One that begins or rests has nothing torn and nothing to prune.
LEMMA MakersAtRest ==
    ASSUME ArchiveTypes, NEW at \in Nat
    PROVE  IdleMaker(at) \in MakerType /\ IdleMaker(at).torn = {} /\ IdleMaker(at).old = {}
BY DEF IdleMaker, MakerType

\* A step of a maker that leaves the archives alone.
LEMMA MakerAlone ==
    ASSUME ArchivesInv, NEW b \in Makers, NEW m \in MakerType, MakerBecomes(b, m),
           m.torn \cap Databases = {}, \A n \in m.old : Outnumbered(n),
           UNCHANGED <<archives, moment, madeOnes, removedOnes>>, sharedNames \subseteq sharedNames'
    PROVE  ArchivesInv'
<1>1. ArchiveTypes' /\ CopiesAreSound' /\ ArchivesWereMade'
  BY DEF ArchivesInv, ArchiveTypes, MakerBecomes, CopiesAreSound, ArchivesWereMade
<1>2. OnlyOldOnesGo'
  <2> SUFFICES ASSUME NEW c \in Makers, NEW n \in maker'[c].old PROVE Outnumbered(n)'
    BY DEF OnlyOldOnesGo
  <2>1. Outnumbered(n)
    BY DEF ArchivesInv, ArchiveTypes, MakerBecomes, OnlyOldOnesGo
  <2> QED
    BY <2>1 DEF Outnumbered
<1>3. ArchivesAreWhole'
  BY DEF ArchivesInv, ArchivesAreWhole
<1>4. ArchivesStay'
  BY DEF ArchivesInv, ArchivesStay
<1> QED
  BY <1>1, <1>2, <1>3, <1>4 DEF ArchivesInv

LEMMA RestingStep ==
    ASSUME ArchivesInv, NEW b \in Makers, MakerFails(b),
           UNCHANGED <<archives, moment, madeOnes, removedOnes, sharedNames>>
    PROVE  ArchivesInv'
<1>1. PICK at \in Nat : Rests(b) = IdleMaker(at)
  BY DEF Rests, ArchivesInv, ArchiveTypes
<1>2. Rests(b) \in MakerType /\ Rests(b).torn = {} /\ Rests(b).old = {}
  BY <1>1, MakersAtRest DEF ArchivesInv
<1> HIDE DEF Rests
<1> QED
  BY <1>2, MakerAlone DEF MakerFails

\* Of what a name says, newer ones among the archives were made.
LEMMA ListStep == ASSUME ArchivesInv, NEW b \in Makers, ListsAutos(b) PROVE ArchivesInv'
<1> DEFINE old == {n \in Autos : Cardinality(NewerIn(Autos, n)) >= KeepAutos}
           m == [maker[b] EXCEPT !.pc = "prunes", !.old = old]
<1>1. Autos \subseteq madeOnes
  BY DEF Autos, ArchivesInv, ArchivesWereMade
<1>2. ASSUME NEW n \in old PROVE Outnumbered(n)
  <2>1. n \in Autos /\ Cardinality(NewerIn(Autos, n)) >= KeepAutos
    OBVIOUS
  <2>2. n.label = "auto"
    BY <2>1 DEF Autos, ArchiveName
  <2>3. NewerIn(Autos, n) \subseteq NewerIn(madeOnes, n) /\ NewerIn(madeOnes, n) \subseteq madeOnes
    BY <1>1 DEF NewerIn
  <2>4. IsFiniteSet(NewerIn(madeOnes, n))
    BY <2>3, FS_Subset DEF ArchivesInv, ArchiveTypes
  <2>5. /\ Cardinality(NewerIn(Autos, n)) <= Cardinality(NewerIn(madeOnes, n))
        /\ Cardinality(NewerIn(Autos, n)) \in Nat /\ Cardinality(NewerIn(madeOnes, n)) \in Nat
    BY <2>3, <2>4, FS_Subset, FS_CardinalityType
  <2> QED
    BY <2>1, <2>2, <2>5, ConfigBackupAssumption DEF Outnumbered
<1>3. old \subseteq NameType
  BY <1>1 DEF ArchivesInv, ArchiveTypes
<1> HIDE DEF old
<1>4. m \in MakerType /\ m.torn = maker[b].torn /\ m.old = old
  BY <1>3 DEF ArchivesInv, ArchiveTypes, MakerType
<1>5. MakerBecomes(b, m)
  BY DEF ListsAutos, old
<1>6. m.torn \cap Databases = {}
  BY <1>4 DEF ArchivesInv, CopiesAreSound
<1> HIDE DEF m
<1> QED
  BY <1>2, <1>4, <1>5, <1>6, MakerAlone DEF ListsAutos

LEMMA CopySteps ==
    ASSUME ArchivesInv, NEW b \in Makers,
           MakeBegins(b) \/ OpensDraft(b) \/ \E f \in DataFiles : CopiesFile(b, f)
    PROVE  ArchivesInv'
<1>1. maker[b] \in MakerType /\ maker[b].torn \cap Databases = {} /\ \A n \in maker[b].old : Outnumbered(n)
  BY DEF ArchivesInv, ArchiveTypes, CopiesAreSound, OnlyOldOnesGo
<1>2. CASE MakeBegins(b)
  <2> DEFINE m == [IdleMaker(moment) EXCEPT !.pc = "copies", !.label = IF b = Daily THEN "auto" ELSE "manual",
                                            !.todo = DataFiles]
  <2>1. m \in MakerType /\ m.torn = {} /\ m.old = {}
    BY DEF ArchivesInv, ArchiveTypes, IdleMaker, MakerType
  <2>2. MakerBecomes(b, m)
    BY <1>2 DEF MakeBegins
  <2> HIDE DEF m
  <2> QED
    BY <1>2, <2>1, <2>2, MakerAlone DEF MakeBegins
<1>3. CASE OpensDraft(b)
  <2> DEFINE m == [maker[b] EXCEPT !.pc = "packs"]
  <2>1. m \in MakerType /\ m.torn = maker[b].torn /\ m.old = maker[b].old
    BY <1>1 DEF MakerType
  <2>2. MakerBecomes(b, m) /\ sharedNames \subseteq sharedNames'
    BY <1>3 DEF OpensDraft
  <2> HIDE DEF m
  <2> QED
    BY <1>1, <1>3, <2>1, <2>2, MakerAlone DEF OpensDraft
<1>4. ASSUME NEW f \in DataFiles, CopiesFile(b, f) PROVE ArchivesInv'
  <2> DEFINE torn == IF CopyIsTorn(f) THEN maker[b].torn \cup {f} ELSE maker[b].torn
             m == [maker[b] EXCEPT !.todo = @ \ {f}, !.torn = torn]
  <2>1. torn \in SUBSET DataFiles /\ torn \cap Databases = {}
    BY <1>1 DEF MakerType, CopyIsTorn
  <2>2. MakerBecomes(b, m)
    BY <1>4 DEF CopiesFile, MakerBecomes
  <2> HIDE DEF torn
  <2>3. m \in MakerType /\ m.torn = torn /\ m.old = maker[b].old
    BY <1>1, <2>1 DEF MakerType
  <2> HIDE DEF m
  <2> QED
    BY <1>1, <1>4, <2>1, <2>2, <2>3, MakerAlone DEF CopiesFile
<1> QED
  BY <1>2, <1>3, <1>4

LEMMA PackStep == ASSUME ArchivesInv, NEW b \in Makers, PacksDraft(b) PROVE ArchivesInv'
<1> DEFINE name == ArchiveName(maker[b])
           m == [maker[b] EXCEPT !.pc = "moves"]
<1>1. maker[b] \in MakerType /\ maker[b].torn \cap Databases = {} /\ \A n \in maker[b].old : Outnumbered(n)
  BY DEF ArchivesInv, ArchiveTypes, CopiesAreSound, OnlyOldOnesGo
<1>2. m \in MakerType /\ m.torn = maker[b].torn /\ m.old = maker[b].old /\ MakerBecomes(b, m)
  BY <1>1 DEF MakerType, PacksDraft
<1>3. name \in NameType
  BY <1>1, ArchiveNames
<1>4. UNCHANGED <<moment, madeOnes, removedOnes, sharedNames>>
  BY DEF PacksDraft
<1> HIDE DEF m, name
<1>5. CASE name \notin sharedNames
  BY <1>1, <1>2, <1>4, <1>5, MakerAlone DEF PacksDraft, name
<1>6. CASE name \in sharedNames
  <2>1. PICK whole \in BOOLEAN :
            archives' = {IF ArchiveName(a) = name THEN Archive(name, whole, a.torn \cup maker[b].torn) ELSE a : a \in archives}
    BY <1>6 DEF PacksDraft, name
  <2> DEFINE Packed(a) == IF ArchiveName(a) = name THEN Archive(name, whole, a.torn \cup maker[b].torn) ELSE a
  <2>2. ASSUME NEW a \in archives
        PROVE  /\ Packed(a) \in ArchiveType /\ ArchiveName(Packed(a)) = ArchiveName(a)
               /\ Packed(a).torn \cap Databases = {} /\ (Packed(a).whole \/ ArchiveName(Packed(a)) \in sharedNames)
    <3>1. /\ a \in ArchiveType /\ a.torn \in SUBSET DataFiles /\ maker[b].torn \in SUBSET DataFiles
          /\ a.torn \cap Databases = {} /\ (a.whole \/ ArchiveName(a) \in sharedNames)
      BY <1>1 DEF ArchivesInv, ArchiveTypes, ArchiveType, MakerType, ArchivesAreWhole
    <3>2. CASE ArchiveName(a) # name
      BY <3>1, <3>2
    <3>3. CASE ArchiveName(a) = name
      <4> DEFINE torn == a.torn \cup maker[b].torn
      <4>1. torn \in SUBSET DataFiles /\ torn \cap Databases = {}
        BY <1>1, <3>1
      <4> HIDE DEF torn
      <4>2. Archive(name, whole, torn) \in ArchiveType /\ ArchiveName(Archive(name, whole, torn)) = name
        BY <1>3, <4>1, ArchiveNames
      <4>3. Archive(name, whole, torn).torn = torn
        BY DEF Archive
      <4>4. Packed(a) = Archive(name, whole, torn)
        BY <3>3 DEF torn
      <4> HIDE DEF Packed
      <4> QED
        BY <1>6, <3>3, <4>1, <4>2, <4>3, <4>4
    <3> QED
      BY <3>2, <3>3
  <2>3. archives' = {Packed(a) : a \in archives}
    BY <2>1
  <2> HIDE DEF Packed
  <2>4. ArchiveTypes' /\ CopiesAreSound'
    BY <1>1, <1>2, <1>4, <2>2, <2>3 DEF ArchivesInv, ArchiveTypes, MakerBecomes, CopiesAreSound
  <2>5. ArchivesWereMade' /\ ArchivesAreWhole'
    BY <1>4, <2>2, <2>3 DEF ArchivesInv, ArchivesWereMade, ArchivesAreWhole
  <2>6. OnlyOldOnesGo'
    <3> SUFFICES ASSUME NEW c \in Makers, NEW n \in maker'[c].old PROVE Outnumbered(n)'
      BY DEF OnlyOldOnesGo
    <3>1. Outnumbered(n)
      BY <1>1, <1>2 DEF ArchivesInv, ArchiveTypes, MakerBecomes, OnlyOldOnesGo
    <3> QED
      BY <1>4, <3>1 DEF Outnumbered
  <2>7. ASSUME NEW n \in madeOnes, NEW a \in archives, ArchiveName(a) = n
        PROVE  \E x \in archives' : ArchiveName(x) = n
    <3>1. Packed(a) \in archives' /\ ArchiveName(Packed(a)) = n
      BY <2>2, <2>3, <2>7
    <3> QED
      BY <3>1
  <2>8. ArchivesStay'
    BY <1>4, <2>7 DEF ArchivesInv, ArchivesStay
  <2> QED
    BY <2>4, <2>5, <2>6, <2>8 DEF ArchivesInv
<1> QED
  BY <1>5, <1>6

LEMMA MoveStep == ASSUME ArchivesInv, NEW b \in Makers, MovesDraft(b) PROVE ArchivesInv'
<1> DEFINE name == ArchiveName(maker[b])
<1>1. maker[b] \in MakerType /\ maker[b].torn \cap Databases = {} /\ \A n \in maker[b].old : Outnumbered(n)
  BY DEF ArchivesInv, ArchiveTypes, CopiesAreSound, OnlyOldOnesGo
<1>2. name \in NameType /\ maker[b].torn \in SUBSET DataFiles
  BY <1>1, ArchiveNames DEF MakerType
<1>3. PICK m \in MakerType : /\ MakerBecomes(b, m) /\ m.torn \cap Databases = {}
                             /\ \A n \in m.old : Outnumbered(n)
  <2>1. CASE maker[b].label = "auto"
    <3> DEFINE m == [maker[b] EXCEPT !.pc = "lists"]
    <3>1. m \in MakerType /\ m.torn = maker[b].torn /\ m.old = maker[b].old
      BY <1>1 DEF MakerType
    <3>2. MakerBecomes(b, m)
      BY <2>1 DEF MovesDraft
    <3> HIDE DEF m
    <3> QED
      BY <1>1, <3>1, <3>2
  <2>2. CASE maker[b].label # "auto"
    <3>1. PICK at \in Nat : Rests(b) = IdleMaker(at)
      BY DEF Rests, ArchivesInv, ArchiveTypes
    <3>2. Rests(b) \in MakerType /\ Rests(b).torn = {} /\ Rests(b).old = {}
      BY <3>1, MakersAtRest DEF ArchivesInv
    <3> HIDE DEF Rests
    <3>3. MakerBecomes(b, Rests(b))
      BY <2>2 DEF MovesDraft
    <3> QED
      BY <3>2, <3>3
  <2> QED
    BY <2>1, <2>2
<1>4. PICK whole \in BOOLEAN : /\ whole \/ name \in sharedNames
                               /\ archives' = {a \in archives : ArchiveName(a) # name} \cup {Archive(name, whole, maker[b].torn)}
  <2>1. PICK whole \in IF name \in sharedNames THEN BOOLEAN ELSE {TRUE} :
            archives' = {a \in archives : ArchiveName(a) # name} \cup {Archive(name, whole, maker[b].torn)}
    BY DEF MovesDraft
  <2> QED
    BY <2>1
<1> DEFINE new == Archive(name, whole, maker[b].torn)
<1>5. new \in ArchiveType /\ ArchiveName(new) = name /\ new.torn = maker[b].torn /\ new.whole = whole
  BY <1>2, ArchiveNames DEF Archive
<1>6. madeOnes' = madeOnes \cup {name} /\ removedOnes' = removedOnes \ {name} /\ UNCHANGED <<moment, sharedNames>>
  BY DEF MovesDraft
<1>7. IsFiniteSet(madeOnes')
  BY <1>6, FS_AddElement DEF ArchivesInv, ArchiveTypes
<1>8. ASSUME NEW n, Outnumbered(n) PROVE Outnumbered(n)'
  BY <1>6, <1>7, <1>8, StaysOutnumbered DEF ArchivesInv, ArchiveTypes
<1>9. archives' = {a \in archives : ArchiveName(a) # name} \cup {new}
  BY <1>4
<1> HIDE DEF new, name
<1>10. ArchiveTypes' /\ CopiesAreSound'
  BY <1>2, <1>3, <1>5, <1>6, <1>7, <1>9 DEF ArchivesInv, ArchiveTypes, MakerBecomes, CopiesAreSound
<1>11. ArchivesWereMade'
  BY <1>5, <1>6, <1>9 DEF ArchivesInv, ArchivesWereMade
<1>12. ArchivesAreWhole'
  BY <1>1, <1>4, <1>5, <1>6, <1>9 DEF ArchivesInv, ArchivesAreWhole
<1>13. OnlyOldOnesGo'
  <2> SUFFICES ASSUME NEW c \in Makers, NEW n \in maker'[c].old PROVE Outnumbered(n)'
    BY DEF OnlyOldOnesGo
  <2>1. Outnumbered(n)
    BY <1>3 DEF ArchivesInv, ArchiveTypes, MakerBecomes, OnlyOldOnesGo
  <2> QED
    BY <1>8, <2>1
<1>14. ArchivesStay'
  <2> SUFFICES ASSUME NEW n \in madeOnes'
               PROVE  (\E a \in archives' : ArchiveName(a) = n) \/ n \in removedOnes' \/ Outnumbered(n)'
    BY DEF ArchivesStay, Outnumbered
  <2>1. CASE n = name
    BY <1>5, <1>9, <2>1
  <2>2. CASE n # name
    <3>1. n \in madeOnes
      BY <1>6, <2>2
    <3>2. (\E a \in archives : ArchiveName(a) = n) \/ n \in removedOnes \/ Outnumbered(n)
      BY <3>1 DEF ArchivesInv, ArchivesStay, Outnumbered
    <3> QED
      BY <1>6, <1>8, <1>9, <2>2, <3>2
  <2> QED
    BY <2>1, <2>2
<1> QED
  BY <1>10, <1>11, <1>12, <1>13, <1>14 DEF ArchivesInv

\* Archives go: an old one of the daily thread's, or one an admin deletes.
LEMMA ArchivesGo ==
    ASSUME ArchivesInv, NEW n, maker' \in [Makers -> MakerType],
           \A b \in Makers : maker'[b].torn \cap Databases = {} /\ \A x \in maker'[b].old : Outnumbered(x),
           archives' \subseteq archives, \A a \in archives : ArchiveName(a) # n => a \in archives',
           Outnumbered(n) \/ n \in removedOnes', removedOnes \subseteq removedOnes',
           UNCHANGED <<moment, madeOnes, sharedNames>>
    PROVE  ArchivesInv'
<1>1. ArchiveTypes' /\ CopiesAreSound' /\ ArchivesWereMade' /\ ArchivesAreWhole'
  BY DEF ArchivesInv, ArchiveTypes, CopiesAreSound, ArchivesWereMade, ArchivesAreWhole
<1>2. OnlyOldOnesGo'
  BY DEF OnlyOldOnesGo, Outnumbered
<1>3. ASSUME NEW x \in madeOnes
      PROVE  (\E a \in archives' : ArchiveName(a) = x) \/ x \in removedOnes' \/ Outnumbered(x)
  BY DEF ArchivesInv, ArchivesStay, Outnumbered
<1>4. ArchivesStay'
  BY <1>3 DEF ArchivesStay, Outnumbered
<1> QED
  BY <1>1, <1>2, <1>4 DEF ArchivesInv

LEMMA PruneAutoStep ==
    ASSUME ArchivesInv, NEW b \in Makers, NEW n \in maker[b].old, PrunesAuto(b, n)
    PROVE  ArchivesInv'
<1>1. Outnumbered(n)
  BY DEF ArchivesInv, OnlyOldOnesGo
<1>2. maker[b] \in MakerType /\ maker[b].torn \cap Databases = {} /\ \A x \in maker[b].old : Outnumbered(x)
  BY DEF ArchivesInv, ArchiveTypes, CopiesAreSound, OnlyOldOnesGo
<1>3. PICK m \in MakerType : MakerBecomes(b, m) /\ m.torn \cap Databases = {} /\ m.old \subseteq maker[b].old
  <2>1. CASE n \in Autos
    <3> DEFINE m == [maker[b] EXCEPT !.old = maker[b].old \ {n}]
    <3>1. m \in MakerType /\ m.torn = maker[b].torn /\ m.old \subseteq maker[b].old
      BY <1>2 DEF MakerType
    <3>2. MakerBecomes(b, m)
      BY <2>1 DEF PrunesAuto, MakerBecomes
    <3> HIDE DEF m
    <3> QED
      BY <1>2, <3>1, <3>2
  <2>2. CASE n \notin Autos
    <3>1. PICK at \in Nat : Rests(b) = IdleMaker(at)
      BY DEF Rests, ArchivesInv, ArchiveTypes
    <3>2. Rests(b) \in MakerType /\ Rests(b).torn = {} /\ Rests(b).old = {}
      BY <3>1, MakersAtRest DEF ArchivesInv
    <3> HIDE DEF Rests
    <3>3. MakerBecomes(b, Rests(b))
      BY <2>2 DEF PrunesAuto, MakerFails
    <3> QED
      BY <3>2, <3>3
  <2> QED
    BY <2>1, <2>2
<1>4. maker' \in [Makers -> MakerType]
  BY <1>3 DEF ArchivesInv, ArchiveTypes, MakerBecomes
<1>5. ASSUME NEW c \in Makers PROVE maker'[c].torn \cap Databases = {} /\ \A x \in maker'[c].old : Outnumbered(x)
  BY <1>2, <1>3 DEF ArchivesInv, ArchiveTypes, MakerBecomes, CopiesAreSound, OnlyOldOnesGo
<1>6. /\ archives' \subseteq archives /\ \A a \in archives : ArchiveName(a) # n => a \in archives'
      /\ removedOnes \subseteq removedOnes' /\ UNCHANGED <<moment, madeOnes, sharedNames>>
  BY DEF PrunesAuto
<1> QED
  BY <1>1, <1>4, <1>5, <1>6, ArchivesGo

\* What an admin, time and a restart do.
LEMMA StepsAround ==
    ASSUME ArchivesInv, \/ \E a \in archives : ArchiveDeleted(a)
                        \/ MomentPasses \/ MakersCutOff
                        \/ \E f \in DataFiles : WriteBegins(f) \/ WriteEnds(f)
                        \/ UNCHANGED configBackupVars
    PROVE  ArchivesInv'
<1>0. maker \in [Makers -> MakerType] /\ moment \in Nat
  BY DEF ArchivesInv, ArchiveTypes
<1>1. ASSUME NEW a \in archives, ArchiveDeleted(a) PROVE ArchivesInv'
  <2>1. ASSUME NEW c \in Makers PROVE maker'[c].torn \cap Databases = {} /\ \A x \in maker'[c].old : Outnumbered(x)
    BY <1>1 DEF ArchiveDeleted, ArchivesInv, CopiesAreSound, OnlyOldOnesGo
  <2> DEFINE n == ArchiveName(a)
  <2>2. /\ archives' \subseteq archives /\ \A x \in archives : ArchiveName(x) # n => x \in archives'
        /\ n \in removedOnes' /\ removedOnes \subseteq removedOnes' /\ UNCHANGED <<maker, moment, madeOnes, sharedNames>>
    BY <1>1 DEF ArchiveDeleted
  <2> HIDE DEF n
  <2> QED
    BY <1>0, <2>1, <2>2, ArchivesGo
<1>2. CASE MomentPasses
  <2>1. moment' \in Nat /\ UNCHANGED <<archives, maker, madeOnes, removedOnes, sharedNames>>
    BY <1>0, <1>2 DEF MomentPasses
  <2> QED
    BY <2>1 DEF ArchivesInv, ArchiveTypes, CopiesAreSound, ArchivesWereMade, OnlyOldOnesGo, ArchivesAreWhole,
                ArchivesStay, Outnumbered
<1>3. CASE MakersCutOff
  <2>1. UNCHANGED <<archives, moment, madeOnes, removedOnes, sharedNames>>
    BY <1>3 DEF MakersCutOff
  <2>2. ASSUME NEW b \in Makers
        PROVE  Rests(b) \in MakerType /\ Rests(b).torn = {} /\ Rests(b).old = {}
    <3>1. PICK at \in Nat : Rests(b) = IdleMaker(at)
      BY <1>0 DEF Rests
    <3> QED
      BY <3>1, MakersAtRest DEF ArchivesInv
  <2>3. ASSUME NEW b \in Makers
        PROVE  /\ maker'[b] \in MakerType /\ maker'[b].torn \cap Databases = {}
               /\ \A x \in maker'[b].old : Outnumbered(x)
    <3>1. maker'[b] = maker[b] \/ maker'[b] = Rests(b)
      BY <1>3 DEF MakersCutOff
    <3> HIDE DEF Rests
    <3> QED
      BY <1>0, <2>2, <3>1 DEF ArchivesInv, CopiesAreSound, OnlyOldOnesGo
  <2>4. maker' \in [Makers -> MakerType]
    <3>1. maker' = [b \in Makers |-> maker'[b]]
      BY <1>3 DEF MakersCutOff
    <3> QED
      BY <2>3, <3>1
  <2>5. ArchiveTypes' /\ CopiesAreSound' /\ ArchivesWereMade' /\ ArchivesAreWhole'
    BY <2>1, <2>3, <2>4 DEF ArchivesInv, ArchiveTypes, CopiesAreSound, ArchivesWereMade, ArchivesAreWhole
  <2>6. OnlyOldOnesGo' /\ ArchivesStay'
    BY <2>1, <2>3 DEF ArchivesInv, OnlyOldOnesGo, ArchivesStay, Outnumbered
  <2> QED
    BY <2>5, <2>6 DEF ArchivesInv
<1>4. CASE UNCHANGED configBackupVars \/ \E f \in DataFiles : WriteBegins(f) \/ WriteEnds(f)
  <2>1. UNCHANGED <<archives, maker, moment, madeOnes, removedOnes, sharedNames>>
    BY <1>4 DEF configBackupVars, WriteBegins, WriteEnds
  <2> QED
    BY <2>1 DEF ArchivesInv, ArchiveTypes, CopiesAreSound, ArchivesWereMade, OnlyOldOnesGo, ArchivesAreWhole,
                ArchivesStay, Outnumbered
<1> QED
  BY <1>1, <1>2, <1>3, <1>4

(* A backup of the data directory holds a consistent copy of each database and *)
(* is whole, but for two admins in one second, and it stays until an admin     *)
(* deletes it or enough newer ones of the daily thread were made, for any      *)
(* files, requests and number of kept ones (config_backup.create_backup(),     *)
(* prune()).                                                                   *)
THEOREM SystemBackupsStay == ConfigBackupSpec => []SystemBackupsHold
<1>1. ConfigBackupInit => ArchivesInv
  <2> SUFFICES ASSUME ConfigBackupInit PROVE ArchivesInv
    OBVIOUS
  <2>1. IdleMaker(0) \in MakerType /\ IdleMaker(0).torn = {} /\ IdleMaker(0).old = {}
    BY DEF IdleMaker, MakerType
  <2>2. \A b \in Makers : maker[b] = IdleMaker(0)
    BY DEF ConfigBackupInit
  <2>3. maker \in [Makers -> MakerType]
    BY <2>1 DEF ConfigBackupInit
  <2> HIDE DEF IdleMaker
  <2>4. ArchiveTypes
    BY <2>3, FS_EmptySet DEF ConfigBackupInit, ArchiveTypes
  <2>5. CopiesAreSound /\ OnlyOldOnesGo
    BY <2>1, <2>2 DEF CopiesAreSound, OnlyOldOnesGo
  <2> QED
    BY <2>4, <2>5 DEF ConfigBackupInit, ArchivesInv, ArchivesWereMade, ArchivesAreWhole, ArchivesStay
<1>2. ArchivesInv /\ [ConfigBackupNext]_configBackupVars => ArchivesInv'
  <2> SUFFICES ASSUME ArchivesInv, [ConfigBackupNext]_configBackupVars PROVE ArchivesInv'
    OBVIOUS
  <2>1. ASSUME NEW b \in Makers, MakerStep(b) PROVE ArchivesInv'
    <3>1. CASE MakeBegins(b) \/ OpensDraft(b) \/ \E f \in DataFiles : CopiesFile(b, f)
      BY <3>1, CopySteps
    <3>2. CASE MakeFails(b) \/ MoveFails(b)
      BY <3>2, RestingStep DEF MakeFails, MoveFails
    <3>3. CASE PruneEnds(b)
      BY <3>3, RestingStep DEF PruneEnds, MakerFails
    <3>4. CASE PacksDraft(b)
      BY <3>4, PackStep
    <3>5. CASE MovesDraft(b)
      BY <3>5, MoveStep
    <3>6. CASE ListsAutos(b)
      BY <3>6, ListStep
    <3>7. CASE \E n \in maker[b].old : PrunesAuto(b, n)
      BY <3>7, PruneAutoStep
    <3> QED
      BY <2>1, <3>1, <3>2, <3>3, <3>4, <3>5, <3>6, <3>7 DEF MakerStep
  <2> QED
    BY <2>1, StepsAround DEF ConfigBackupNext
<1>3. ArchivesInv => SystemBackupsHold
  BY DEF ArchivesInv, SystemBackupsHold
<1> QED
  BY <1>1, <1>2, <1>3, PTL DEF ConfigBackupSpec

(* What is kept: the rows of a backup server are of one poll, the answer to a  *)
(* power action or job start is what was logged of it, and saved backups of    *)
(* routers and of the data directory are kept (backup_controller,              *)
(* vm_controller, router_manager, config_backup).                              *)
THEOREM RecordsStayTrue == RecordsSpec /\ RouterBackupsSpec /\ VmSpec /\ ConfigBackupSpec => []RecordsAreTrue
<1> QED
  BY RowsAreOfOnePoll, VmActionsAreTold, BackupsStay, SystemBackupsStay, PTL DEF RecordsAreTrue
=============================================================================

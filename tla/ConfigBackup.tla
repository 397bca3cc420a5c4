----------------------------- MODULE ConfigBackup -----------------------------
(***************************************************************************)
(* Backups of FleetPilot's own data (config_backup.py, its routes in       *)
(* app.py): an admin or the daily thread copies the files of the data      *)
(* directory one by one, packs the copies into a .tmp file named by second *)
(* and label, and moves it to its place; the daily thread then removes all *)
(* but the newest of its own.  ConfigRestore begins where an archive is    *)
(* uploaded.                                                               *)
(***************************************************************************)
EXTENDS Naturals, FiniteSets

CONSTANTS DataFiles, Databases,  \* the files, and those of SQLite among them
          MakeRequests, Daily,   \* requests to make a backup, and the daily thread
          KeepAutos,             \* FLEETPILOT_BACKUP_KEEP
          MaxMoment              \* bound: seconds

ASSUME ConfigBackupAssumption ==
    Databases \subseteq DataFiles /\ Daily \notin MakeRequests /\ KeepAutos \in Nat \ {0} /\ MaxMoment \in Nat

VARIABLES halfWritten,  \* the files in the middle of a write or a transaction
          archives,     \* backups/*.tar.gz, with the files that are torn in them
          drafts,       \* backups/*.tar.gz.tmp, by name
          maker,        \* what each request and the daily thread are doing
          moment,       \* the second
          madeOnes,     \* history: the names that were moved to their place, ...
          removedOnes,  \* ... those an admin deleted since, ...
          sharedNames   \* ... and those whose .tmp file two had open at once

configBackupVars == <<halfWritten, archives, drafts, maker, moment, madeOnes, removedOnes, sharedNames>>

Makers == MakeRequests \cup {Daily}
ArchiveName(x) == [at |-> x.at, label |-> x.label]
Archive(name, whole, torn) == [at |-> name.at, label |-> name.label, whole |-> whole, torn |-> torn]
IdleMaker(at) == [pc |-> "none", at |-> at, label |-> "manual", todo |-> {}, torn |-> {}, old |-> {}]

ConfigBackupInit ==
    /\ halfWritten = {} /\ archives = {} /\ drafts = {} /\ moment = 1
    /\ maker = [b \in Makers |-> IdleMaker(0)]
    /\ madeOnes = {} /\ removedOnes = {} /\ sharedNames = {}

MakerBecomes(b, m) == maker' = [maker EXCEPT ![b] = m]
Rests(b) == IdleMaker(IF b = Daily THEN moment ELSE 1)  \* A request is made once.
MakerFails(b) == MakerBecomes(b, Rests(b))
OthersAt(b, name) == {c \in Makers \ {b} : maker[c].pc \in {"packs", "moves"} /\ ArchiveName(maker[c]) = name}

-----------------------------------------------------------------------------
(* Meanwhile the program writes its files: databases in transactions, others  *)
(* in place.                                                                  *)
WriteBegins(f) ==
    /\ f \notin halfWritten /\ halfWritten' = halfWritten \cup {f}
    /\ UNCHANGED <<archives, drafts, maker, moment, madeOnes, removedOnes, sharedNames>>

WriteEnds(f) ==
    /\ f \in halfWritten /\ halfWritten' = halfWritten \ {f}
    /\ UNCHANGED <<archives, drafts, maker, moment, madeOnes, removedOnes, sharedNames>>

(* create_backup(), of a request, or of the daily thread, which slept for a   *)
(* minute at least.                                                           *)
MakeBegins(b) ==
    /\ maker[b].pc = "none" /\ IF b = Daily THEN maker[b].at < moment ELSE maker[b].at = 0
    /\ MakerBecomes(b, [IdleMaker(moment) EXCEPT !.pc = "copies", !.label = IF b = Daily THEN "auto" ELSE "manual",
                                            !.todo = DataFiles])
    /\ UNCHANGED <<halfWritten, archives, drafts, moment, madeOnes, removedOnes, sharedNames>>

\* Mutant: a database is copied like any other file.
PlainCopy(f) == f \in halfWritten

(* SQLite's backup gives what is committed; another file is copied as it is,  *)
(* and the checksum is of the copy.                                           *)
CopyIsTorn(f) == f \in halfWritten /\ f \notin Databases

CopiesFile(b, f) ==
    /\ maker[b].pc = "copies" /\ f \in maker[b].todo
    /\ MakerBecomes(b, [maker[b] EXCEPT !.todo = @ \ {f}, !.torn = IF CopyIsTorn(f) THEN @ \cup {f} ELSE @])
    /\ UNCHANGED <<halfWritten, archives, drafts, moment, madeOnes, removedOnes, sharedNames>>

(* A file that is gone, a database that is locked, a disk that is full; the   *)
(* .tmp file stays behind.  An archive that goes while they are listed.       *)
MakeFails(b) ==
    /\ maker[b].pc \in {"copies", "packs", "lists"} /\ MakerFails(b)
    /\ UNCHANGED <<halfWritten, archives, drafts, moment, madeOnes, removedOnes, sharedNames>>

(* O_CREAT | O_TRUNC: the file is there afterwards, perhaps another's too.    *)
OpensDraft(b) ==
    LET name == ArchiveName(maker[b]) IN
    /\ maker[b].pc = "copies" /\ maker[b].todo = {}
    /\ MakerBecomes(b, [maker[b] EXCEPT !.pc = "packs"])
    /\ drafts' = drafts \cup {name}
    /\ sharedNames' = IF OthersAt(b, name) = {} THEN sharedNames ELSE sharedNames \cup {name}
    /\ UNCHANGED <<halfWritten, archives, moment, madeOnes, removedOnes>>

(* The archive is written.  Of two in one file the first may have moved it    *)
(* already: what the second writes then is in the archive.                    *)
PacksDraft(b) ==
    LET name == ArchiveName(maker[b]) IN
    /\ maker[b].pc = "packs" /\ MakerBecomes(b, [maker[b] EXCEPT !.pc = "moves"])
    /\ IF name \in sharedNames
       THEN \E whole \in BOOLEAN : archives' = {IF ArchiveName(a) = name
                                                THEN Archive(name, whole, a.torn \cup maker[b].torn) ELSE a : a \in archives}
       ELSE UNCHANGED archives
    /\ UNCHANGED <<halfWritten, drafts, moment, madeOnes, removedOnes, sharedNames>>

(* os.replace()                                                               *)
MovesDraft(b) ==
    LET m == maker[b]
        name == ArchiveName(m) IN
    /\ m.pc = "moves" /\ name \in drafts
    /\ drafts' = drafts \ {name} /\ madeOnes' = madeOnes \cup {name} /\ removedOnes' = removedOnes \ {name}
    /\ \E whole \in IF name \in sharedNames THEN BOOLEAN ELSE {TRUE} :
           archives' = {a \in archives : ArchiveName(a) # name} \cup {Archive(name, whole, m.torn)}
    /\ MakerBecomes(b, IF m.label = "auto" THEN [m EXCEPT !.pc = "lists"] ELSE Rests(b))
    /\ UNCHANGED <<halfWritten, moment, sharedNames>>

MoveFails(b) ==
    /\ maker[b].pc = "moves" /\ ArchiveName(maker[b]) \notin drafts /\ MakerFails(b)
    /\ UNCHANGED <<halfWritten, archives, drafts, moment, madeOnes, removedOnes, sharedNames>>

-----------------------------------------------------------------------------
Autos == {ArchiveName(a) : a \in {x \in archives : x.label = "auto"}}
NewerIn(names, n) == {m \in names : m.label = "auto" /\ m.at > n.at}

(* prune(): list_backups() is newest first; those after the first few, ...    *)
ListsAutos(b) ==
    /\ maker[b].pc = "lists"
    /\ MakerBecomes(b, [maker[b] EXCEPT !.pc = "prunes",
                                        !.old = {n \in Autos : Cardinality(NewerIn(Autos, n)) >= KeepAutos}])
    /\ UNCHANGED <<halfWritten, archives, drafts, moment, madeOnes, removedOnes, sharedNames>>

(* ... one by one; one that is gone ends it until tomorrow.                   *)
PrunesAuto(b, n) ==
    /\ maker[b].pc = "prunes" /\ n \in maker[b].old /\ NewerIn(maker[b].old, n) = {}
    /\ archives' = {a \in archives : ArchiveName(a) # n}
    /\ IF n \in Autos THEN MakerBecomes(b, [maker[b] EXCEPT !.old = @ \ {n}]) ELSE MakerFails(b)
    /\ UNCHANGED <<halfWritten, drafts, moment, madeOnes, removedOnes, sharedNames>>

PruneEnds(b) ==
    /\ maker[b].pc = "prunes" /\ maker[b].old = {} /\ MakerBecomes(b, Rests(b))
    /\ UNCHANGED <<halfWritten, archives, drafts, moment, madeOnes, removedOnes, sharedNames>>

(* system_backups_delete()                                                    *)
ArchiveDeleted(a) ==
    /\ a \in archives /\ archives' = archives \ {a} /\ removedOnes' = removedOnes \cup {ArchiveName(a)}
    /\ UNCHANGED <<halfWritten, drafts, maker, moment, madeOnes, sharedNames>>

MomentPasses ==
    /\ moment < MaxMoment /\ moment' = moment + 1
    /\ UNCHANGED <<halfWritten, archives, drafts, maker, madeOnes, removedOnes, sharedNames>>

(* The process stops and starts: transactions are rolled back, files written  *)
(* in place stay as they are.                                                 *)
MakersCutOff ==
    /\ maker' = [b \in Makers |-> IF b \in MakeRequests /\ maker[b].at = 0 THEN maker[b] ELSE Rests(b)]
    /\ halfWritten' = halfWritten \ Databases
    /\ UNCHANGED <<archives, drafts, moment, madeOnes, removedOnes, sharedNames>>

MakerStep(b) ==
    \/ MakeBegins(b) \/ MakeFails(b) \/ OpensDraft(b) \/ PacksDraft(b) \/ MovesDraft(b) \/ MoveFails(b)
    \/ ListsAutos(b) \/ PruneEnds(b) \/ \E f \in DataFiles : CopiesFile(b, f)
    \/ \E n \in maker[b].old : PrunesAuto(b, n)

ConfigBackupNext ==
    \/ \E f \in DataFiles : WriteBegins(f) \/ WriteEnds(f)
    \/ \E b \in Makers : MakerStep(b)
    \/ \E a \in archives : ArchiveDeleted(a)
    \/ MomentPasses \/ MakersCutOff

ConfigBackupSpec == ConfigBackupInit /\ [][ConfigBackupNext]_configBackupVars

-----------------------------------------------------------------------------
(* "A consistent copy of every database" (config_backup.py), in an archive    *)
(* that is whole whenever it was cut off; but for two admins in one second.   *)
ArchivesAreWhole ==
    \A a \in archives : a.torn \cap Databases = {} /\ (a.whole \/ ArchiveName(a) \in sharedNames)

(* "Automatic daily backups run ... and the last 7 are kept"                  *)
(* (docs/installation.md); others stay until they are deleted.                *)
ArchivesStay ==
    \A n \in madeOnes : \/ \E a \in archives : ArchiveName(a) = n
                        \/ n \in removedOnes
                        \/ n.label = "auto" /\ Cardinality(NewerIn(madeOnes, n)) >= KeepAutos

SystemBackupsHold == ArchivesAreWhole /\ ArchivesStay
=============================================================================

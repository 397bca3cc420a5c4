---------------------------- MODULE RouterBackups ----------------------------
(***************************************************************************)
(* Configuration backups of routers (router_manager.py, its routes in      *)
(* app.py): requests download one, create its file, named by the second,   *)
(* write it, list the router's files and remove all but the newest.        *)
(***************************************************************************)
EXTENDS Naturals, FiniteSets

CONSTANTS BackupRouters,    \* their ids; AUTOINCREMENT gives none out twice
          BackupRequests,
          KeepBackups,
          MaxBackupTime     \* bound: seconds

ASSUME KeepBound == KeepBackups \in Nat

VARIABLES routersListed,   \* the rows
          gone,            \* the routers deleted
          files,           \* the files in router_backups/: router, second, whether whole
          backingUp,       \* what each request is doing
          savedOnes,       \* the backups that were answered as saved, ...
          everStored,      \* ... and all files there have ever been
          backupTime

routerBackupVars == <<routersListed, gone, files, backingUp, savedOnes, everStored, backupTime>>

NoBackup == [pc |-> "none", router |-> 0, at |-> 0, todo |-> {}]
Name(id, at) == [router |-> id, at |-> at]
FileNames == {Name(f.router, f.at) : f \in files}

RouterBackupsInit ==
    /\ routersListed = {} /\ gone = {} /\ files = {} /\ savedOnes = {} /\ everStored = {}
    /\ backingUp = [b \in BackupRequests |-> NoBackup] /\ backupTime = 1

-----------------------------------------------------------------------------
Turns(b, to) == backingUp' = [backingUp EXCEPT ![b] = to]
BackupGoesOn(b, pc) == Turns(b, [backingUp[b] EXCEPT !.pc = pc])

RouterAdded(id) ==
    /\ id \notin routersListed \cup gone /\ routersListed' = routersListed \cup {id}
    /\ UNCHANGED <<gone, files, backingUp, savedOnes, everStored, backupTime>>

(* backup(): the row, and the download that follows.                          *)
BackupAsked(b, id) ==
    /\ backingUp[b].pc = "none" /\ id \in routersListed
    /\ Turns(b, [NoBackup EXCEPT !.pc = "downloads", !.router = id])
    /\ UNCHANGED <<routersListed, gone, files, savedOnes, everStored, backupTime>>

(* _router_or_404()                                                           *)
BackupRefused(b, id) == backingUp[b].pc = "none" /\ id \in gone /\ UNCHANGED routerBackupVars

(* The router does not answer, or with too little or too much.                *)
DownloadFails(b) ==
    /\ backingUp[b].pc = "downloads" /\ Turns(b, NoBackup)
    /\ UNCHANGED <<routersListed, gone, files, savedOnes, everStored, backupTime>>

(* The name: the id and the second.                                           *)
NamesFile(b) ==
    /\ backingUp[b].pc = "downloads" /\ Turns(b, [backingUp[b] EXCEPT !.pc = "creates", !.at = backupTime])
    /\ UNCHANGED <<routersListed, gone, files, savedOnes, everStored, backupTime>>

\* Mutant: without O_EXCL a second backup of the second empties the first one's file.
CreatesOver(name) == TRUE

(* O_CREAT | O_EXCL                                                           *)
MayCreate(name) == name \notin FileNames

Without(name) == {f \in files : Name(f.router, f.at) # name}
Whole(name) == [router |-> name.router, at |-> name.at, whole |-> TRUE]
Empty(name) == [Whole(name) EXCEPT !.whole = FALSE]

CreatesFile(b) ==
    LET name == Name(backingUp[b].router, backingUp[b].at) IN
    /\ backingUp[b].pc = "creates"
    /\ IF MayCreate(name)
       THEN BackupGoesOn(b, "writes") /\ files' = Without(name) \cup {Empty(name)} /\ everStored' = everStored \cup {name}
       ELSE Turns(b, NoBackup) /\ UNCHANGED <<files, everStored>>
    /\ UNCHANGED <<routersListed, gone, savedOnes, backupTime>>

(* The open file is written even when another request has removed its name.   *)
WritesFile(b) ==
    LET name == Name(backingUp[b].router, backingUp[b].at) IN
    /\ backingUp[b].pc = "writes" /\ BackupGoesOn(b, "lists")
    /\ files' = IF name \in FileNames THEN Without(name) \cup {Whole(name)} ELSE files
    /\ UNCHANGED <<routersListed, gone, savedOnes, everStored, backupTime>>

(* Encrypting or writing fails: the file stays, empty.                        *)
WriteFails(b) ==
    /\ backingUp[b].pc = "writes" /\ Turns(b, NoBackup)
    /\ UNCHANGED <<routersListed, gone, files, savedOnes, everStored, backupTime>>

\* Mutant: one fewer is kept.
KeepsOneFewer(mine) == {n \in mine : Cardinality({m \in mine : m.at > n.at}) >= KeepBackups - 1}

(* list_backups()[KEEP_BACKUPS:]: the names in falling order.                 *)
Old(mine) == {n \in mine : Cardinality({m \in mine : m.at > n.at}) >= KeepBackups}

(* A file that is removed meanwhile makes the listing raise.                  *)
ListsBackups(b) ==
    /\ backingUp[b].pc = "lists"
    /\ \/ Turns(b, [backingUp[b] EXCEPT !.pc = "prunes", !.todo = Old({n \in FileNames : n.router = backingUp[b].router})])
       \/ /\ \E c \in BackupRequests : c # b /\ backingUp[c].router = backingUp[b].router
          /\ Turns(b, NoBackup)
    /\ UNCHANGED <<routersListed, gone, files, savedOnes, everStored, backupTime>>

(* os.remove(), which raises for a file another request has removed.          *)
PrunesOne(b, name) ==
    /\ backingUp[b].pc = "prunes" /\ name \in backingUp[b].todo
    /\ files' = Without(name)
    /\ Turns(b, IF name \in FileNames THEN [backingUp[b] EXCEPT !.todo = @ \ {name}] ELSE NoBackup)
    /\ UNCHANGED <<routersListed, gone, savedOnes, everStored, backupTime>>

(* "Configuration backup saved"                                               *)
AnswersSaved(b) ==
    /\ backingUp[b].pc = "prunes" /\ backingUp[b].todo = {} /\ Turns(b, NoBackup)
    /\ savedOnes' = savedOnes \cup {Name(backingUp[b].router, backingUp[b].at)}
    /\ UNCHANGED <<routersListed, gone, files, everStored, backupTime>>

(* delete_router(): the row, then each file it lists.                         *)
DeletesRow(b, id) ==
    /\ backingUp[b].pc = "none" /\ id \in routersListed
    /\ routersListed' = routersListed \ {id} /\ gone' = gone \cup {id}
    /\ Turns(b, [NoBackup EXCEPT !.pc = "deletes", !.router = id])
    /\ UNCHANGED <<files, savedOnes, everStored, backupTime>>

DeletesBackups(b) ==
    /\ backingUp[b].pc = "deletes" /\ Turns(b, NoBackup)
    /\ files' = {f \in files : f.router # backingUp[b].router}
    /\ UNCHANGED <<routersListed, gone, savedOnes, everStored, backupTime>>

BackupSecond ==
    /\ backupTime < MaxBackupTime /\ backupTime' = backupTime + 1
    /\ UNCHANGED <<routersListed, gone, files, backingUp, savedOnes, everStored>>

(* The process stops and starts: a file may stay empty.                       *)
BackupRestart ==
    /\ \E b \in BackupRequests : backingUp[b] # NoBackup
    /\ backingUp' = [b \in BackupRequests |-> NoBackup]
    /\ UNCHANGED <<routersListed, gone, files, savedOnes, everStored, backupTime>>

BackupStep(b) ==
    \/ DownloadFails(b) \/ NamesFile(b) \/ CreatesFile(b) \/ WritesFile(b) \/ WriteFails(b) \/ ListsBackups(b)
    \/ AnswersSaved(b) \/ DeletesBackups(b) \/ \E n \in backingUp[b].todo : PrunesOne(b, n)
    \/ \E id \in BackupRouters : BackupAsked(b, id) \/ BackupRefused(b, id) \/ DeletesRow(b, id)

RouterBackupsNext ==
    \/ BackupSecond \/ BackupRestart \/ \E id \in BackupRouters : RouterAdded(id)
    \/ \E b \in BackupRequests : BackupStep(b)

RouterBackupsSpec == RouterBackupsInit /\ [][RouterBackupsNext]_routerBackupVars

-----------------------------------------------------------------------------
(* "The newest 10 backups per router are kept" (docs/routers.md): a backup that*)
(* was answered as saved is there, and whole, until the router is deleted or as*)
(* many newer ones have been stored, however requests for backups overlap, fail*)
(* while pruning, or are cut off by a restart.                                *)
BackupsKept ==
    \A n \in savedOnes :
        \/ n.router \notin routersListed
        \/ Whole(n) \in files
        \/ Cardinality({m \in everStored : m.router = n.router /\ m.at > n.at}) >= KeepBackups
=============================================================================

--------------------------- MODULE ConfigRestore ---------------------------
(***************************************************************************)
(* Restoring FleetPilot's own data directory (config_backup.py).           *)
(*                                                                         *)
(* An uploaded archive is staged by a request thread in                    *)
(* DATA_DIR/restore_pending (stage_restore), may be cancelled, and is      *)
(* moved into place by the next start (apply_pending_restore, called by    *)
(* runtime_env before any module opens a database).  The process can stop  *)
(* between any two steps: of a request, or of the start itself.            *)
(*                                                                         *)
(* A file's content is the archive it came from, Live for what the running *)
(* application wrote, Torn for a half-written or damaged one, None for no  *)
(* file.                                                                   *)
(***************************************************************************)
EXTENDS Naturals, FiniteSets

CONSTANTS Files,      \* names of the data files
          DbFiles,    \* those that end in .db
          Archives,   \* uploaded archives
          Holds,      \* the files an archive's manifest lists
          RestoreRequests,   \* request threads
          MaxStops,   \* how often the process stops
          None, Live, Torn, Manifest

ASSUME ArchivesHold == Holds \in [Archives -> SUBSET Files]
ASSUME Distinct == /\ {None, Live, Torn} \cap Archives = {}
                   /\ {None, Manifest} \cap Files = {}
                   /\ None # Live /\ None # Torn /\ Live # Torn /\ None # Manifest
ASSUME DatabasesAreFiles == DbFiles \subseteq Files
ASSUME StopBound == MaxStops \in Nat

Content == Archives \cup {None, Live, Torn}

VARIABLES data,       \* the data directory: file -> content
          side,       \* a database's -wal and -shm files: the content they belong to
          staged,     \* the files in restore_pending
          pending,    \* whether the directory restore_pending exists
          kept,       \* what start-ups moved to pre-restore folders since the last run
          uncaught,   \* history: an error that stage_restore does not catch left it so
          req,        \* request threads inside stage_restore
          phase,      \* "running", "down" or "applying"
          todo,       \* apply_pending_restore: listed names not yet moved
          cur, step,  \* the name being moved, and which of its moves is next
          stops,      \* number of stops so far
          before,     \* history: data and side files when the application last ran
          restoring   \* history: the archive wholly staged, and unclaimed, at that time

restoreVars == <<data, side, staged, pending, uncaught, kept, req, phase, todo, cur, step, stops, before, restoring>>

NoUpload == [pc |-> "idle", arch |-> None, flaw |-> None, left |-> {}, file |-> None]
NoFiles == [f \in Files |-> None]
Stage(a) == [f \in Files |-> IF f \in Holds[a] THEN a ELSE None]

RestoreInit == /\ data \in [Files -> {None, Live}]
               /\ side = NoFiles
               /\ staged = NoFiles /\ pending = FALSE /\ uncaught = FALSE
               /\ kept = {}
               /\ req = [r \in RestoreRequests |-> NoUpload]
               /\ phase = "running" /\ todo = {} /\ cur = None /\ step = "file"
               /\ stops = 0
               /\ before = [data |-> data, side |-> side]
               /\ restoring = None

start == <<phase, todo, cur, step, stops, before, restoring>>

(* shutil.rmtree(pending, ignore_errors=True) *)
RemovePending == pending' = FALSE /\ staged' = NoFiles /\ uncaught' = FALSE

(* stage_restore on an uploaded archive: flaw is None for a good one, Manifest  *)
(* for one that fails before extraction, a file for one whose checksum is wrong *)
(* or which is no sound database.                                               *)
StageClears(r, a, flaw) ==
    /\ phase = "running" /\ req[r] = NoUpload
    /\ RemovePending
    /\ req' = [req EXCEPT ![r] = [pc |-> "clear", arch |-> a, flaw |-> flaw, left |-> Holds[a], file |-> None]]
    /\ UNCHANGED <<data, side, kept, start>>

(* os.makedirs stands before the try block: it fails, without cleaning up, when *)
(* another request made the directory first.                                    *)
StageMakes(r) ==
    /\ req[r].pc = "clear"
    /\ pending' = TRUE
    /\ req' = [req EXCEPT ![r] = IF pending THEN NoUpload ELSE [@ EXCEPT !.pc = "reading"]]
    /\ UNCHANGED <<data, side, kept, staged, uncaught, start>>

\* Mutant: a refused upload leaves what it had written.
RefuseKeeps(r) == UNCHANGED <<pending, staged, uncaught>> /\ req' = [req EXCEPT ![r] = NoUpload]

(* Either except clause: the pending directory is removed, whoever made it. *)
Refuse(r) == RemovePending /\ req' = [req EXCEPT ![r] = NoUpload]

StageRefuses(r) ==
    /\ req[r].pc = "reading" /\ req[r].flaw = Manifest
    /\ Refuse(r)
    /\ UNCHANGED <<data, side, kept, start>>

(* EOFError of a truncated archive, AttributeError of a manifest that is no     *)
(* object, sqlite3.DatabaseError of a file that is no database: neither except  *)
(* clause names them, and what was written so far stays for the next start.     *)
StageEscapes(r) ==
    /\ \/ req[r].pc = "reading" /\ req[r].flaw = Manifest /\ UNCHANGED staged
       \/ /\ req[r].pc = "writing" /\ req[r].flaw = req[r].file /\ req[r].file \in DbFiles
          /\ staged[req[r].file] # None
          /\ staged' = [staged EXCEPT ![req[r].file] = Torn]
    /\ uncaught' = pending
    /\ req' = [req EXCEPT ![r] = NoUpload]
    /\ UNCHANGED <<data, side, kept, pending, start>>

\* Mutant: the upload waits for the directory instead of failing.
StageOpensWaits(r, f) ==
    /\ req[r].pc = "reading" /\ req[r].flaw # Manifest /\ f \in req[r].left /\ pending
    /\ staged' = [staged EXCEPT ![f] = Torn]
    /\ req' = [req EXCEPT ![r] = [@ EXCEPT !.pc = "writing", !.file = f]]
    /\ UNCHANGED <<data, side, kept, pending, uncaught, start>>

StageOpens(r, f) ==
    /\ req[r].pc = "reading" /\ req[r].flaw # Manifest /\ f \in req[r].left
    /\ IF pending
       THEN /\ staged' = [staged EXCEPT ![f] = Torn]
            /\ req' = [req EXCEPT ![r] = [@ EXCEPT !.pc = "writing", !.file = f]]
            /\ UNCHANGED <<pending, uncaught>>
       ELSE Refuse(r)
    /\ UNCHANGED <<data, side, kept, start>>

(* What the path holds once r has copied its member: r's content, unless the    *)
(* file is gone, another request wrote the same path, or the member is flawed.  *)
OthersWrite(r, f) == \E q \in RestoreRequests \ {r} : req[q].pc = "writing" /\ req[q].file = f
Landed(r, f) ==
    CASE staged[f] = None                            -> {None}
      [] staged[f] # None /\ req[r].flaw = f         -> {Torn}
      [] staged[f] = Torn /\ ~OthersWrite(r, f)
           /\ req[r].flaw # f                        -> {req[r].arch}
      [] OTHER                                       -> {req[r].arch, staged[f], Torn}

StageVerifies(r) ==
    /\ req[r].pc = "writing"
    /\ \E got \in Landed(r, req[r].file) :
         IF got = req[r].arch
         THEN /\ staged' = [staged EXCEPT ![req[r].file] = got]
              /\ req' = [req EXCEPT ![r] = [@ EXCEPT !.pc = "reading", !.file = None,
                                                     !.left = req[r].left \ {req[r].file}]]
              /\ UNCHANGED <<pending, uncaught>>
         ELSE Refuse(r)
    /\ UNCHANGED <<data, side, kept, start>>

(* return manifest: the page says the backup is ready. *)
StageReady(r) ==
    /\ req[r].pc = "reading" /\ req[r].flaw # Manifest /\ req[r].left = {}
    /\ req' = [req EXCEPT ![r] = NoUpload]
    /\ UNCHANGED <<data, side, staged, pending, uncaught, kept, start>>

CancelRestore ==
    /\ phase = "running" /\ pending
    /\ RemovePending
    /\ UNCHANGED <<data, side, kept, req, start>>

(* The running application, as far as this component sees it: it creates files, *)
(* leaves changes in a database's -wal file and checkpoints them.               *)
AppCreates(f) ==
    /\ phase = "running" /\ data[f] = None
    /\ data' = [data EXCEPT ![f] = Live]
    /\ side' = [side EXCEPT ![f] = None]
    /\ UNCHANGED <<staged, pending, uncaught, kept, req, start>>

AppWrites(f) ==
    /\ phase = "running" /\ data[f] # None
    /\ side' = [side EXCEPT ![f] = data[f]]
    /\ UNCHANGED <<data, staged, pending, uncaught, kept, req, start>>

AppCheckpoints(f) ==
    /\ phase = "running" /\ data[f] # None /\ side[f] = data[f]
    /\ data' = [data EXCEPT ![f] = Live]
    /\ side' = [side EXCEPT ![f] = None]
    /\ UNCHANGED <<staged, pending, uncaught, kept, req, start>>

(* The process stops, cleanly or not: its threads stop where they are. *)
StagedWhole(a) == pending /\ staged = Stage(a) /\ \A r \in RestoreRequests : req[r] = NoUpload
ProcessStops ==
    /\ phase # "down" /\ stops < MaxStops
    /\ stops' = stops + 1
    /\ phase' = "down" /\ todo' = {} /\ cur' = None /\ step' = "file"
    /\ req' = [r \in RestoreRequests |-> NoUpload]
    /\ uncaught' = FALSE
    /\ IF phase = "running"
       THEN /\ before' = [data |-> data, side |-> side]
            /\ kept' = {}
            /\ restoring' = IF \E a \in Archives : StagedWhole(a)
                            THEN CHOOSE a \in Archives : StagedWhole(a) ELSE None
       ELSE UNCHANGED <<before, kept, restoring>>
    /\ UNCHANGED <<data, side, staged, pending>>

BootRestore ==
    /\ phase = "down"
    /\ phase' = IF pending THEN "applying" ELSE "running"
    /\ todo' = {f \in Files : staged[f] # None}
    /\ UNCHANGED <<data, side, staged, pending, uncaught, kept, req, cur, step, stops, before, restoring>>

\* Mutant: the staged file overwrites the current one, which is not kept.
MoveCurrentOverwrites(f) ==
    /\ phase = "applying" /\ cur = None /\ f \in todo
    /\ cur' = f /\ step' = "side" /\ data' = [data EXCEPT ![f] = None]
    /\ UNCHANGED <<side, staged, pending, uncaught, kept, req, phase, todo, stops, before, restoring>>

\* Mutant: the side files of the old database stay where they are.
MoveSideForgets ==
    /\ phase = "applying" /\ cur # None /\ step = "side"
    /\ step' = "staged"
    /\ UNCHANGED <<data, side, staged, pending, uncaught, kept, req, phase, todo, cur, stops, before, restoring>>

\* Mutant: the name stays on the list of names to move.
MoveStagedAgain ==
    /\ phase = "applying" /\ cur # None /\ step = "staged"
    /\ data' = [data EXCEPT ![cur] = staged[cur]]
    /\ staged' = [staged EXCEPT ![cur] = None]
    /\ cur' = None /\ step' = "file"
    /\ UNCHANGED <<side, pending, uncaught, kept, req, phase, todo, stops, before, restoring>>

\* Mutant: the start-up goes on before everything is moved.
ApplyDoneEarly ==
    /\ phase = "applying" /\ cur = None
    /\ pending' = FALSE /\ phase' = "running" /\ todo' = {}
    /\ UNCHANGED <<data, side, staged, uncaught, kept, req, cur, step, stops, before, restoring>>

(* The loop of apply_pending_restore: the current file, then its -wal and -shm  *)
(* files, go to the pre-restore folder; then the staged file takes the place.   *)
MoveCurrent(f) ==
    /\ phase = "applying" /\ cur = None /\ f \in todo
    /\ cur' = f /\ step' = "side"
    /\ kept' = IF data[f] = None THEN kept ELSE kept \cup {<<f, "data", data[f]>>}
    /\ data' = [data EXCEPT ![f] = None]
    /\ UNCHANGED <<side, staged, pending, uncaught, req, phase, todo, stops, before, restoring>>

MoveSide ==
    /\ phase = "applying" /\ cur # None /\ step = "side"
    /\ step' = "staged"
    /\ kept' = IF side[cur] = None THEN kept ELSE kept \cup {<<cur, "side", side[cur]>>}
    /\ side' = [side EXCEPT ![cur] = None]
    /\ UNCHANGED <<data, staged, pending, uncaught, req, phase, todo, cur, stops, before, restoring>>

MoveStaged ==
    /\ phase = "applying" /\ cur # None /\ step = "staged"
    /\ data' = [data EXCEPT ![cur] = staged[cur]]
    /\ staged' = [staged EXCEPT ![cur] = None]
    /\ todo' = todo \ {cur} /\ cur' = None /\ step' = "file"
    /\ UNCHANGED <<side, pending, uncaught, kept, req, phase, stops, before, restoring>>

ApplyDone ==
    /\ phase = "applying" /\ cur = None /\ todo = {} /\ staged = NoFiles
    /\ pending' = FALSE /\ phase' = "running"
    /\ UNCHANGED <<data, side, staged, uncaught, kept, req, todo, cur, step, stops, before, restoring>>

Staging(r) == \/ StageMakes(r) \/ StageRefuses(r) \/ StageEscapes(r) \/ StageVerifies(r) \/ StageReady(r)
              \/ \E f \in Files : StageOpens(r, f)
Applying == MoveSide \/ MoveStaged \/ ApplyDone \/ \E f \in Files : MoveCurrent(f)

RestoreNext == \/ \E r \in RestoreRequests, a \in Archives : \E flaw \in Holds[a] \cup {None, Manifest} : StageClears(r, a, flaw)
               \/ \E r \in RestoreRequests : Staging(r)
               \/ CancelRestore
               \/ \E f \in Files : AppCreates(f) \/ AppWrites(f) \/ AppCheckpoints(f)
               \/ ProcessStops
               \/ BootRestore
               \/ Applying

RestoreSpec == RestoreInit /\ [][RestoreNext]_restoreVars

(* systemd starts the service again (Restart=on-failure, or the operator's      *)
(* restart), and a thread that can run does.  Nobody has to upload, cancel,     *)
(* write or stop.                                                               *)
RestoreFairness == /\ WF_restoreVars(BootRestore) /\ WF_restoreVars(Applying)
                   /\ \A r \in RestoreRequests : WF_restoreVars(Staging(r))
RestoreFairSpec == RestoreSpec /\ RestoreFairness

-----------------------------------------------------------------------------
ReqState == [pc : {"idle", "clear", "reading", "writing"}, arch : Archives \cup {None},
             flaw : Files \cup {None, Manifest}, left : SUBSET Files, file : Files \cup {None}]
Snapshot == [data : [Files -> Content], side : [Files -> Content]]
KeptFiles == Files \X {"data", "side"} \X Content

(* The type of the state; a name being moved is one of the names listed at the  *)
(* start of apply_pending_restore, and the files of a missing directory are     *)
(* missing.                                                                     *)
RestoreTypeOK ==
    /\ data \in [Files -> Content] /\ side \in [Files -> Content]
    /\ staged \in [Files -> Content] /\ pending \in BOOLEAN /\ uncaught \in BOOLEAN
    /\ ~pending => staged = NoFiles
    /\ kept \subseteq KeptFiles
    /\ req \in [RestoreRequests -> ReqState]
    /\ phase \in {"running", "down", "applying"}
    /\ todo \subseteq Files
    /\ cur \in todo \cup {None}
    /\ step \in {"file", "side", "staged"} /\ (step = "file" <=> cur = None)
    /\ stops \in Nat
    /\ before \in Snapshot
    /\ restoring \in Archives \cup {None}

(* A database is never opened with the -wal or -shm file of another one: the    *)
(* old side files are out of the way before the restored database is in place,  *)
(* wherever the start-up is interrupted and repeated.                           *)
NoForeignSide == \A f \in Files : side[f] # None /\ data[f] # None => side[f] = data[f]

(* "keeping the previous files" (docs/installation.md): until a start-up is     *)
(* over, every file the application left is still in place or is in a           *)
(* pre-restore folder, over any number of interrupted start-ups.                *)
Safe(f, kind, content, place) == content # None => place = content \/ <<f, kind, content>> \in kept
NothingLost ==
    phase # "running" => \A f \in Files : /\ Safe(f, "data", before.data[f], data[f])
                                          /\ Safe(f, "side", before.side[f], side[f])

(* Once no upload is in progress, what waits in restore_pending is exactly the  *)
(* files of one archive: what stage_restore verified, all of it, nothing else;  *)
(* unless an error that stage_restore does not catch ended an upload, whose     *)
(* part then waits until the next upload, a cancel or the next start.  This is  *)
(* for uploads that come one at a time; two at once write into the same         *)
(* directory and can mix their archives.                                        *)
StagedIsOneArchive ==
    phase = "running" /\ pending /\ ~uncaught /\ (\A r \in RestoreRequests : req[r] = NoUpload)
        => \E a \in Archives : staged = Stage(a)

(* An archive that was wholly staged when the application stopped is wholly in  *)
(* place when it runs again, and files the archive does not hold are as they    *)
(* were, also when start-ups were cut short in between.                         *)
RestoreIsWhole ==
    [][phase = "applying" /\ phase' = "running" /\ restoring # None
        => \A f \in Files : data'[f] = IF f \in Holds[restoring] THEN restoring ELSE before.data[f]]_restoreVars

(* "FleetPilot verifies its checksums and applies it at the next restart"       *)
(* (docs/user-guide.md): no half-written file reaches the data directory.       *)
NoTornData == \A f \in Files : data[f] # Torn

(* Every start of the service leads to a running application, and every upload  *)
(* is answered.                                                                 *)
StartsFinish == (phase = "down") ~> (phase = "running")
UploadsAnswered == \A r \in RestoreRequests : (req[r] # NoUpload) ~> (req[r] = NoUpload)

=============================================================================

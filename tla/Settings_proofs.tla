-------------------------- MODULE Settings_proofs --------------------------
(***************************************************************************)
(* Proofs about what administrators configure: ConfigRestore and Notify,   *)
(* for any sets of files, archives, request threads, channels and messages *)
(* and any number of stops.                                                *)
(*                                                                         *)
(* IInv strengthens the type with what the code keeps true between its     *)
(* moves: no upload is in progress unless the application runs, the name   *)
(* being moved has no current file left, and the names to be moved are     *)
(* those still staged.                                                     *)
(***************************************************************************)
EXTENDS ConfigRestore, Notify, FiniteSetTheorems, TLAPS

(* Uploads run in the running application only. *)
UploadsWhileRunning == phase # "running" => \A r \in RestoreRequests : req[r] = NoUpload

(* A request that is inside stage_restore has its archive, and its file while   *)
(* it writes one.                                                               *)
UploadsHaveArchive ==
    \A r \in RestoreRequests : /\ req[r].pc # "idle" => req[r].arch \in Archives
                               /\ req[r].pc = "writing" => req[r].file \in Files

(* The moves of one name happen in order. *)
MovesInOrder == /\ cur # None => phase = "applying" /\ data[cur] = None
                /\ step = "staged" => side[cur] = None

(* What is left to move is what is still staged. *)
TodoIsStaged == phase = "applying" => todo = {f \in Files : staged[f] # None}

(* The archive that was whole when the application stopped is staged or in place *)
(* file by file, and the other files are untouched.                              *)
Restoring ==
    phase # "running" /\ restoring # None =>
        \A f \in Files :
            IF f \in Holds[restoring]
            THEN staged[f] = restoring \/ (staged[f] = None /\ data[f] = restoring)
            ELSE staged[f] = None /\ data[f] = before.data[f]

IInv == /\ RestoreTypeOK /\ UploadsWhileRunning /\ UploadsHaveArchive
        /\ MovesInOrder /\ TodoIsStaged
        /\ NoForeignSide /\ NothingLost /\ Restoring
-----------------------------------------------------------------------------
LEMMA Initially == RestoreInit => IInv
<1> SUFFICES ASSUME RestoreInit PROVE IInv
  OBVIOUS
<1> USE Distinct
<1>1. RestoreTypeOK
  BY StopBound DEF RestoreInit, RestoreTypeOK, Content, NoFiles, NoUpload, ReqState, Snapshot, KeptFiles
<1>2. UploadsWhileRunning /\ UploadsHaveArchive
  BY DEF RestoreInit, UploadsWhileRunning, UploadsHaveArchive, NoUpload
<1>3. MovesInOrder /\ TodoIsStaged
  BY DEF RestoreInit, MovesInOrder, TodoIsStaged
<1>4. NoForeignSide /\ NothingLost /\ Restoring
  BY DEF RestoreInit, NoForeignSide, NothingLost, Restoring, NoFiles
<1> QED
  BY <1>1, <1>2, <1>3, <1>4 DEF IInv

LEMMA ClearsKeeps ==
    ASSUME IInv, NEW r \in RestoreRequests, NEW a \in Archives, NEW flaw \in Holds[a] \cup {None, Manifest}, StageClears(r, a, flaw)
    PROVE  IInv'
<1> USE Distinct, ArchivesHold DEF start
<1>1. RestoreTypeOK'
  BY DEF IInv, RestoreTypeOK, Content, NoFiles, NoUpload, ReqState, Snapshot, KeptFiles, UploadsHaveArchive, StageClears, RemovePending
<1>2. UploadsWhileRunning'
  BY DEF IInv, UploadsWhileRunning, RestoreTypeOK, Content, NoFiles, NoUpload, ReqState, Snapshot, KeptFiles, StageClears, RemovePending
<1>3. UploadsHaveArchive'
  BY DEF IInv, UploadsHaveArchive, RestoreTypeOK, Content, NoFiles, NoUpload, ReqState, Snapshot, KeptFiles, UploadsWhileRunning, StageClears, RemovePending
<1>4. MovesInOrder'
  BY DEF IInv, MovesInOrder, RestoreTypeOK, Content, NoFiles, NoUpload, ReqState, Snapshot, KeptFiles, TodoIsStaged, StageClears, RemovePending
<1>5. TodoIsStaged'
  BY DEF IInv, TodoIsStaged, RestoreTypeOK, Content, NoFiles, NoUpload, ReqState, Snapshot, KeptFiles, UploadsWhileRunning, StageClears, RemovePending
<1>6. NoForeignSide'
  BY DEF IInv, NoForeignSide, RestoreTypeOK, Content, NoFiles, NoUpload, ReqState, Snapshot, KeptFiles, MovesInOrder, UploadsWhileRunning, StageClears, RemovePending
<1>7. NothingLost'
  BY DEF IInv, NothingLost, Safe, RestoreTypeOK, Content, NoFiles, NoUpload, ReqState, Snapshot, KeptFiles, MovesInOrder, StageClears, RemovePending
<1>8. Restoring'
  BY DEF IInv, Restoring, RestoreTypeOK, Content, NoFiles, NoUpload, ReqState, Snapshot, KeptFiles, UploadsWhileRunning, MovesInOrder, TodoIsStaged, StageClears, RemovePending
<1> QED
  BY <1>1, <1>2, <1>3, <1>4, <1>5, <1>6, <1>7, <1>8, Zenon DEF IInv

LEMMA MakesKeeps ==
    ASSUME IInv, NEW r \in RestoreRequests, StageMakes(r)
    PROVE  IInv'
<1> USE Distinct, ArchivesHold DEF start
<1>1. RestoreTypeOK'
  <2> DEFINE new == IF pending THEN NoUpload ELSE [req[r] EXCEPT !.pc = "reading"]
  <2>1. NoUpload \in ReqState /\ req[r] \in ReqState
    BY DEF NoUpload, ReqState, IInv, RestoreTypeOK
  <2>2. new \in ReqState
    BY <2>1 DEF ReqState
  <2>3. /\ req' = [req EXCEPT ![r] = new] /\ pending' = TRUE
        /\ UNCHANGED <<data, side, kept, staged, uncaught, start>>
    BY DEF StageMakes
  <2> HIDE DEF new
  <2>4. req' \in [RestoreRequests -> ReqState]
    BY <2>2, <2>3 DEF IInv, RestoreTypeOK
  <2> QED
    BY <2>3, <2>4 DEF IInv, RestoreTypeOK
<1>2. UploadsWhileRunning'
  BY DEF IInv, UploadsWhileRunning, RestoreTypeOK, Content, NoFiles, NoUpload, ReqState, Snapshot, KeptFiles, StageMakes
<1>3. UploadsHaveArchive'
  BY DEF IInv, UploadsHaveArchive, RestoreTypeOK, Content, NoFiles, NoUpload, ReqState, Snapshot, KeptFiles, UploadsWhileRunning, StageMakes
<1>4. MovesInOrder'
  BY DEF IInv, MovesInOrder, RestoreTypeOK, Content, NoFiles, NoUpload, ReqState, Snapshot, KeptFiles, TodoIsStaged, StageMakes
<1>5. TodoIsStaged'
  BY DEF IInv, TodoIsStaged, RestoreTypeOK, Content, NoFiles, NoUpload, ReqState, Snapshot, KeptFiles, UploadsWhileRunning, StageMakes
<1>6. NoForeignSide'
  BY DEF IInv, NoForeignSide, RestoreTypeOK, Content, NoFiles, NoUpload, ReqState, Snapshot, KeptFiles, MovesInOrder, UploadsWhileRunning, StageMakes
<1>7. NothingLost'
  BY DEF IInv, NothingLost, Safe, RestoreTypeOK, Content, NoFiles, NoUpload, ReqState, Snapshot, KeptFiles, MovesInOrder, StageMakes
<1>8. Restoring'
  BY DEF IInv, Restoring, RestoreTypeOK, Content, NoFiles, NoUpload, ReqState, Snapshot, KeptFiles, UploadsWhileRunning, MovesInOrder, TodoIsStaged, StageMakes
<1> QED
  BY <1>1, <1>2, <1>3, <1>4, <1>5, <1>6, <1>7, <1>8, Zenon DEF IInv

LEMMA RefusesKeeps ==
    ASSUME IInv, NEW r \in RestoreRequests, StageRefuses(r)
    PROVE  IInv'
<1> USE Distinct, ArchivesHold DEF start
<1>1. RestoreTypeOK'
  BY DEF IInv, RestoreTypeOK, Content, NoFiles, NoUpload, ReqState, Snapshot, KeptFiles, UploadsHaveArchive, StageRefuses, Refuse, RemovePending
<1>2. UploadsWhileRunning'
  BY DEF IInv, UploadsWhileRunning, RestoreTypeOK, Content, NoFiles, NoUpload, ReqState, Snapshot, KeptFiles, StageRefuses, Refuse, RemovePending
<1>3. UploadsHaveArchive'
  BY DEF IInv, UploadsHaveArchive, RestoreTypeOK, Content, NoFiles, NoUpload, ReqState, Snapshot, KeptFiles, UploadsWhileRunning, StageRefuses, Refuse, RemovePending
<1>4. MovesInOrder'
  BY DEF IInv, MovesInOrder, RestoreTypeOK, Content, NoFiles, NoUpload, ReqState, Snapshot, KeptFiles, TodoIsStaged, StageRefuses, Refuse, RemovePending
<1>5. TodoIsStaged'
  BY DEF IInv, TodoIsStaged, RestoreTypeOK, Content, NoFiles, NoUpload, ReqState, Snapshot, KeptFiles, UploadsWhileRunning, StageRefuses, Refuse, RemovePending
<1>6. NoForeignSide'
  BY DEF IInv, NoForeignSide, RestoreTypeOK, Content, NoFiles, NoUpload, ReqState, Snapshot, KeptFiles, MovesInOrder, UploadsWhileRunning, StageRefuses, Refuse, RemovePending
<1>7. NothingLost'
  BY DEF IInv, NothingLost, Safe, RestoreTypeOK, Content, NoFiles, NoUpload, ReqState, Snapshot, KeptFiles, MovesInOrder, StageRefuses, Refuse, RemovePending
<1>8. Restoring'
  BY DEF IInv, Restoring, RestoreTypeOK, Content, NoFiles, NoUpload, ReqState, Snapshot, KeptFiles, UploadsWhileRunning, MovesInOrder, TodoIsStaged, StageRefuses, Refuse, RemovePending
<1> QED
  BY <1>1, <1>2, <1>3, <1>4, <1>5, <1>6, <1>7, <1>8, Zenon DEF IInv

LEMMA EscapesKeeps ==
    ASSUME IInv, NEW r \in RestoreRequests, StageEscapes(r)
    PROVE  IInv'
<1> USE Distinct, ArchivesHold DEF start
<1>q. NoUpload \in ReqState /\ Torn \in Content /\ NoUpload.pc = "idle"
  BY DEF ReqState, NoUpload, Content
<1>0. /\ UNCHANGED <<data, side, kept, pending, start>>
      /\ req' = [req EXCEPT ![r] = NoUpload] /\ req' \in [RestoreRequests -> ReqState]
      /\ \A q \in RestoreRequests : req'[q] \in {NoUpload, req[q]}
      /\ uncaught' \in BOOLEAN /\ phase = "running"
  <2>1. req[r] # NoUpload
    BY <1>q DEF StageEscapes
  <2> QED
    BY <1>q, <2>1 DEF StageEscapes, IInv, RestoreTypeOK, UploadsWhileRunning
<1>s. staged' \in [Files -> Content] /\ (~pending => staged' = NoFiles)
  <2>1. CASE req[r].pc = "reading" /\ UNCHANGED staged
    BY <2>1 DEF IInv, RestoreTypeOK
  <2>2. CASE /\ req[r].pc = "writing" /\ staged[req[r].file] # None
             /\ staged' = [staged EXCEPT ![req[r].file] = Torn]
    <3>1. req[r].file \in Files /\ pending
      BY <2>2 DEF IInv, RestoreTypeOK, UploadsHaveArchive, NoFiles
    <3> QED
      BY <2>2, <3>1, <1>q DEF IInv, RestoreTypeOK
  <2> QED
    BY <2>1, <2>2 DEF StageEscapes
<1>1. RestoreTypeOK'
  BY <1>0, <1>s DEF IInv, RestoreTypeOK
<1>2. UploadsWhileRunning' /\ UploadsHaveArchive'
  BY <1>0, <1>q DEF IInv, UploadsWhileRunning, UploadsHaveArchive
<1>3. MovesInOrder' /\ TodoIsStaged' /\ NoForeignSide'
  BY <1>0 DEF IInv, MovesInOrder, TodoIsStaged, NoForeignSide
<1>4. NothingLost' /\ Restoring'
  BY <1>0 DEF IInv, NothingLost, Safe, Restoring
<1> QED
  BY <1>1, <1>2, <1>3, <1>4, Zenon DEF IInv

LEMMA OpensKeeps ==
    ASSUME IInv, NEW r \in RestoreRequests, NEW f \in Files, StageOpens(r, f)
    PROVE  IInv'
<1> USE Distinct, ArchivesHold DEF start
<1>q. req[r] \in ReqState /\ NoUpload \in ReqState /\ Torn \in Content /\ None \in Content
  BY DEF IInv, RestoreTypeOK, ReqState, NoUpload, Content
<1>t. ASSUME NEW q \in ReqState, req' = [req EXCEPT ![r] = q],
             staged' \in [Files -> Content], pending' \in BOOLEAN, ~pending' => staged' = NoFiles,
             uncaught' \in BOOLEAN,
             UNCHANGED <<data, side, kept, start>>
      PROVE  RestoreTypeOK'
  <2>1. req' \in [RestoreRequests -> ReqState]
    BY <1>t DEF IInv, RestoreTypeOK
  <2> QED
    BY <1>t, <2>1 DEF IInv, RestoreTypeOK
<1>1. RestoreTypeOK'
  <2>1. CASE pending
    <3>1. [req[r] EXCEPT !.pc = "writing", !.file = f] \in ReqState
      BY <1>q DEF ReqState
    <3>2. staged' \in [Files -> Content] /\ pending' /\ pending' \in BOOLEAN /\ uncaught' \in BOOLEAN
      BY <2>1, <1>q DEF StageOpens, IInv, RestoreTypeOK
    <3> QED
      BY <2>1, <3>1, <3>2, <1>t DEF StageOpens
  <2>2. CASE ~pending
    <3>1. staged' = NoFiles /\ pending' = FALSE /\ uncaught' = FALSE /\ req' = [req EXCEPT ![r] = NoUpload]
      BY <2>2 DEF StageOpens, Refuse, RemovePending
    <3>2. NoFiles \in [Files -> Content]
      BY <1>q DEF NoFiles
    <3> QED
      BY <3>1, <3>2, <1>q, <1>t DEF StageOpens
  <2> QED
    BY <2>1, <2>2
<1>2. UploadsWhileRunning'
  BY DEF IInv, UploadsWhileRunning, RestoreTypeOK, Content, NoFiles, NoUpload, ReqState, Snapshot, KeptFiles, StageOpens, Refuse, RemovePending
<1>3. UploadsHaveArchive'
  <2>1. CASE pending
    <3>1. req' = [req EXCEPT ![r] = [req[r] EXCEPT !.pc = "writing", !.file = f]]
      BY <2>1 DEF StageOpens
    <3>2. req'[r].arch = req[r].arch /\ req'[r].file = f
      BY <3>1, <1>q DEF IInv, RestoreTypeOK, ReqState
    <3>3. \A q \in RestoreRequests \ {r} : req'[q] = req[q]
      BY <3>1 DEF IInv, RestoreTypeOK
    <3> QED
      BY <3>2, <3>3 DEF IInv, UploadsHaveArchive, StageOpens
  <2>2. CASE ~pending
    BY <2>2 DEF IInv, RestoreTypeOK, UploadsHaveArchive, NoUpload, StageOpens, Refuse
  <2> QED
    BY <2>1, <2>2
<1>4. MovesInOrder'
  BY DEF IInv, MovesInOrder, RestoreTypeOK, Content, NoFiles, NoUpload, ReqState, Snapshot, KeptFiles, TodoIsStaged, StageOpens, Refuse, RemovePending
<1>5. TodoIsStaged'
  BY DEF IInv, TodoIsStaged, RestoreTypeOK, Content, NoFiles, NoUpload, ReqState, Snapshot, KeptFiles, UploadsWhileRunning, StageOpens, Refuse, RemovePending
<1>6. NoForeignSide'
  BY DEF IInv, NoForeignSide, RestoreTypeOK, Content, NoFiles, NoUpload, ReqState, Snapshot, KeptFiles, MovesInOrder, UploadsWhileRunning, StageOpens, Refuse, RemovePending
<1>7. NothingLost'
  BY DEF IInv, NothingLost, Safe, RestoreTypeOK, Content, NoFiles, NoUpload, ReqState, Snapshot, KeptFiles, MovesInOrder, StageOpens, Refuse, RemovePending
<1>8. Restoring'
  BY DEF IInv, Restoring, RestoreTypeOK, Content, NoFiles, NoUpload, ReqState, Snapshot, KeptFiles, UploadsWhileRunning, MovesInOrder, TodoIsStaged, StageOpens, Refuse, RemovePending
<1> QED
  BY <1>1, <1>2, <1>3, <1>4, <1>5, <1>6, <1>7, <1>8, Zenon DEF IInv

LEMMA VerifiesKeeps ==
    ASSUME IInv, NEW r \in RestoreRequests, StageVerifies(r)
    PROVE  IInv'
<1> USE Distinct, ArchivesHold DEF start
<1> DEFINE f == req[r].file
           Accepts == /\ staged' = [staged EXCEPT ![f] = req[r].arch]
                      /\ req' = [req EXCEPT ![r] = [@ EXCEPT !.pc = "reading", !.file = None,
                                                             !.left = req[r].left \ {f}]]
                      /\ pending /\ UNCHANGED <<pending, uncaught>>
<1>f. f \in Files /\ req[r].arch \in Archives
  BY DEF IInv, UploadsHaveArchive, StageVerifies
<1>p. ~pending => staged[f] = None
  BY <1>f DEF IInv, RestoreTypeOK, NoFiles
<1>0. (req'[r] = NoUpload /\ Refuse(r)) \/ Accepts
  <2>1. PICK got \in Landed(r, f) :
          IF got = req[r].arch
          THEN /\ staged' = [staged EXCEPT ![f] = got]
               /\ req' = [req EXCEPT ![r] = [@ EXCEPT !.pc = "reading", !.file = None,
                                                      !.left = req[r].left \ {f}]]
               /\ UNCHANGED <<pending, uncaught>>
          ELSE Refuse(r)
    BY DEF StageVerifies
  <2>2. CASE got = req[r].arch
    <3>1. pending
      BY <1>f, <1>p, <2>1, <2>2 DEF Landed, IInv, RestoreTypeOK
    <3> QED
      BY <2>1, <2>2, <3>1
  <2>3. CASE got # req[r].arch
    BY <2>1, <2>3 DEF Refuse, IInv, RestoreTypeOK
  <2> QED
    BY <2>2, <2>3
<1>1. RestoreTypeOK'
  <2>1. CASE req'[r] = NoUpload /\ Refuse(r)
    BY <2>1 DEF IInv, RestoreTypeOK, Content, NoFiles, NoUpload, ReqState, Snapshot, KeptFiles, UploadsHaveArchive, StageVerifies, Refuse, RemovePending, Landed
  <2>2. CASE Accepts
    <3>1. req[r] \in ReqState /\ None \in Files \cup {None}
      BY DEF IInv, RestoreTypeOK
    <3>2. [req[r] EXCEPT !.pc = "reading", !.file = None, !.left = req[r].left \ {f}] \in ReqState
      BY <3>1 DEF ReqState
    <3>5. \A q \in ReqState : [req EXCEPT ![r] = q] \in [RestoreRequests -> ReqState]
      BY DEF IInv, RestoreTypeOK
    <3>6. req' = [req EXCEPT ![r] = [@ EXCEPT !.pc = "reading", !.file = None, !.left = req[r].left \ {f}]]
      BY <2>2
    <3>3. req' \in [RestoreRequests -> ReqState]
      <4> HIDE DEF f
      <4> DEFINE q == [req[r] EXCEPT !.pc = "reading", !.file = None, !.left = req[r].left \ {f}]
      <4>1. q \in ReqState
        BY <3>2
      <4>2. req' = [req EXCEPT ![r] = q]
        BY <3>6, Zenon
      <4> HIDE DEF q
      <4> QED
        BY <4>1, <4>2, <3>5
    <3>4. staged' \in [Files -> Content] /\ pending' = pending /\ pending /\ uncaught' = uncaught
      BY <2>2, <1>f DEF IInv, RestoreTypeOK, Content
    <3> QED
      BY <3>3, <3>4 DEF IInv, RestoreTypeOK, StageVerifies
  <2> QED
    BY <2>1, <2>2, <1>0
<1>2. UploadsWhileRunning'
  BY DEF IInv, UploadsWhileRunning, RestoreTypeOK, Content, NoFiles, NoUpload, ReqState, Snapshot, KeptFiles, StageVerifies, Refuse, RemovePending, Landed
<1>3. UploadsHaveArchive'
  <2>1. CASE req'[r] = NoUpload /\ Refuse(r)
    BY <2>1 DEF IInv, RestoreTypeOK, Content, NoFiles, NoUpload, ReqState, Snapshot, KeptFiles, UploadsHaveArchive, StageVerifies, Refuse, RemovePending, Landed
  <2>2. CASE Accepts
    <3>1. req'[r].pc = "reading" /\ req'[r].arch = req[r].arch
      BY <2>2 DEF IInv, RestoreTypeOK, ReqState
    <3>2. \A q \in RestoreRequests \ {r} : req'[q] = req[q]
      BY <2>2 DEF IInv, RestoreTypeOK
    <3> QED
      BY <3>1, <3>2, <1>f DEF IInv, UploadsHaveArchive
  <2> QED
    BY <2>1, <2>2, <1>0
<1>4. MovesInOrder'
  BY DEF IInv, MovesInOrder, RestoreTypeOK, Content, NoFiles, NoUpload, ReqState, Snapshot, KeptFiles, TodoIsStaged, StageVerifies, Refuse, RemovePending, Landed
<1>5. TodoIsStaged'
  BY DEF IInv, TodoIsStaged, RestoreTypeOK, Content, NoFiles, NoUpload, ReqState, Snapshot, KeptFiles, UploadsWhileRunning, StageVerifies, Refuse, RemovePending, Landed
<1>6. NoForeignSide'
  BY DEF IInv, NoForeignSide, RestoreTypeOK, Content, NoFiles, NoUpload, ReqState, Snapshot, KeptFiles, MovesInOrder, UploadsWhileRunning, StageVerifies, Refuse, RemovePending, Landed
<1>7. NothingLost'
  BY DEF IInv, NothingLost, Safe, RestoreTypeOK, Content, NoFiles, NoUpload, ReqState, Snapshot, KeptFiles, MovesInOrder, StageVerifies, Refuse, RemovePending, Landed
<1>8. Restoring'
  BY DEF IInv, Restoring, RestoreTypeOK, Content, NoFiles, NoUpload, ReqState, Snapshot, KeptFiles, UploadsWhileRunning, MovesInOrder, TodoIsStaged, StageVerifies, Refuse, RemovePending, Landed
<1> QED
  BY <1>1, <1>2, <1>3, <1>4, <1>5, <1>6, <1>7, <1>8, Zenon DEF IInv

LEMMA ReadyKeeps ==
    ASSUME IInv, NEW r \in RestoreRequests, StageReady(r)
    PROVE  IInv'
<1> USE Distinct, ArchivesHold DEF start
<1>1. RestoreTypeOK'
  BY DEF IInv, RestoreTypeOK, Content, NoFiles, NoUpload, ReqState, Snapshot, KeptFiles, UploadsHaveArchive, StageReady
<1>2. UploadsWhileRunning'
  BY DEF IInv, UploadsWhileRunning, RestoreTypeOK, Content, NoFiles, NoUpload, ReqState, Snapshot, KeptFiles, StageReady
<1>3. UploadsHaveArchive'
  BY DEF IInv, UploadsHaveArchive, RestoreTypeOK, Content, NoFiles, NoUpload, ReqState, Snapshot, KeptFiles, UploadsWhileRunning, StageReady
<1>4. MovesInOrder'
  BY DEF IInv, MovesInOrder, RestoreTypeOK, Content, NoFiles, NoUpload, ReqState, Snapshot, KeptFiles, TodoIsStaged, StageReady
<1>5. TodoIsStaged'
  BY DEF IInv, TodoIsStaged, RestoreTypeOK, Content, NoFiles, NoUpload, ReqState, Snapshot, KeptFiles, UploadsWhileRunning, StageReady
<1>6. NoForeignSide'
  BY DEF IInv, NoForeignSide, RestoreTypeOK, Content, NoFiles, NoUpload, ReqState, Snapshot, KeptFiles, MovesInOrder, UploadsWhileRunning, StageReady
<1>7. NothingLost'
  BY DEF IInv, NothingLost, Safe, RestoreTypeOK, Content, NoFiles, NoUpload, ReqState, Snapshot, KeptFiles, MovesInOrder, StageReady
<1>8. Restoring'
  BY DEF IInv, Restoring, RestoreTypeOK, Content, NoFiles, NoUpload, ReqState, Snapshot, KeptFiles, UploadsWhileRunning, MovesInOrder, TodoIsStaged, StageReady
<1> QED
  BY <1>1, <1>2, <1>3, <1>4, <1>5, <1>6, <1>7, <1>8, Zenon DEF IInv

LEMMA CancelKeeps ==
    ASSUME IInv, CancelRestore
    PROVE  IInv'
<1> USE Distinct, ArchivesHold DEF start
<1>1. RestoreTypeOK'
  BY DEF IInv, RestoreTypeOK, Content, NoFiles, NoUpload, ReqState, Snapshot, KeptFiles, UploadsHaveArchive, CancelRestore, RemovePending
<1>2. UploadsWhileRunning'
  BY DEF IInv, UploadsWhileRunning, RestoreTypeOK, Content, NoFiles, NoUpload, ReqState, Snapshot, KeptFiles, CancelRestore, RemovePending
<1>3. UploadsHaveArchive'
  BY DEF IInv, UploadsHaveArchive, RestoreTypeOK, Content, NoFiles, NoUpload, ReqState, Snapshot, KeptFiles, UploadsWhileRunning, CancelRestore, RemovePending
<1>4. MovesInOrder'
  BY DEF IInv, MovesInOrder, RestoreTypeOK, Content, NoFiles, NoUpload, ReqState, Snapshot, KeptFiles, TodoIsStaged, CancelRestore, RemovePending
<1>5. TodoIsStaged'
  BY DEF IInv, TodoIsStaged, RestoreTypeOK, Content, NoFiles, NoUpload, ReqState, Snapshot, KeptFiles, UploadsWhileRunning, CancelRestore, RemovePending
<1>6. NoForeignSide'
  BY DEF IInv, NoForeignSide, RestoreTypeOK, Content, NoFiles, NoUpload, ReqState, Snapshot, KeptFiles, MovesInOrder, UploadsWhileRunning, CancelRestore, RemovePending
<1>7. NothingLost'
  BY DEF IInv, NothingLost, Safe, RestoreTypeOK, Content, NoFiles, NoUpload, ReqState, Snapshot, KeptFiles, MovesInOrder, CancelRestore, RemovePending
<1>8. Restoring'
  BY DEF IInv, Restoring, RestoreTypeOK, Content, NoFiles, NoUpload, ReqState, Snapshot, KeptFiles, UploadsWhileRunning, MovesInOrder, TodoIsStaged, CancelRestore, RemovePending
<1> QED
  BY <1>1, <1>2, <1>3, <1>4, <1>5, <1>6, <1>7, <1>8, Zenon DEF IInv

LEMMA AppKeeps ==
    ASSUME IInv, NEW f \in Files, AppCreates(f) \/ AppWrites(f) \/ AppCheckpoints(f)
    PROVE  IInv'
<1> USE Distinct, ArchivesHold DEF start
<1>1. RestoreTypeOK'
  BY DEF IInv, RestoreTypeOK, Content, NoFiles, NoUpload, ReqState, Snapshot, KeptFiles, UploadsHaveArchive, AppCreates, AppWrites, AppCheckpoints
<1>2. UploadsWhileRunning'
  BY DEF IInv, UploadsWhileRunning, RestoreTypeOK, Content, NoFiles, NoUpload, ReqState, Snapshot, KeptFiles, AppCreates, AppWrites, AppCheckpoints
<1>3. UploadsHaveArchive'
  BY DEF IInv, UploadsHaveArchive, RestoreTypeOK, Content, NoFiles, NoUpload, ReqState, Snapshot, KeptFiles, UploadsWhileRunning, AppCreates, AppWrites, AppCheckpoints
<1>4. MovesInOrder'
  BY DEF IInv, MovesInOrder, RestoreTypeOK, Content, NoFiles, NoUpload, ReqState, Snapshot, KeptFiles, TodoIsStaged, AppCreates, AppWrites, AppCheckpoints
<1>5. TodoIsStaged'
  BY DEF IInv, TodoIsStaged, RestoreTypeOK, Content, NoFiles, NoUpload, ReqState, Snapshot, KeptFiles, UploadsWhileRunning, AppCreates, AppWrites, AppCheckpoints
<1>6. NoForeignSide'
  BY DEF IInv, NoForeignSide, RestoreTypeOK, Content, NoFiles, NoUpload, ReqState, Snapshot, KeptFiles, MovesInOrder, UploadsWhileRunning, AppCreates, AppWrites, AppCheckpoints
<1>7. NothingLost'
  BY DEF IInv, NothingLost, Safe, RestoreTypeOK, Content, NoFiles, NoUpload, ReqState, Snapshot, KeptFiles, MovesInOrder, AppCreates, AppWrites, AppCheckpoints
<1>8. Restoring'
  BY DEF IInv, Restoring, RestoreTypeOK, Content, NoFiles, NoUpload, ReqState, Snapshot, KeptFiles, UploadsWhileRunning, MovesInOrder, TodoIsStaged, AppCreates, AppWrites, AppCheckpoints
<1> QED
  BY <1>1, <1>2, <1>3, <1>4, <1>5, <1>6, <1>7, <1>8, Zenon DEF IInv

LEMMA StopKeeps ==
    ASSUME IInv, ProcessStops
    PROVE  IInv'
<1> USE Distinct, ArchivesHold DEF start
<1>1. RestoreTypeOK'
  <2>1. /\ req' \in [RestoreRequests -> ReqState] /\ uncaught' \in BOOLEAN /\ stops' \in Nat
        /\ todo' \subseteq Files /\ cur' = None /\ step' = "file" /\ phase' = "down"
    <3>1. NoUpload \in ReqState
      BY DEF NoUpload, ReqState
    <3>2. req' = [x \in RestoreRequests |-> NoUpload]
      BY DEF ProcessStops
    <3>3. uncaught' \in BOOLEAN /\ todo' \subseteq Files /\ cur' = None /\ step' = "file" /\ phase' = "down"
      BY DEF ProcessStops
    <3>4. stops' \in Nat
      BY DEF ProcessStops, IInv, RestoreTypeOK
    <3> QED
      BY <3>1, <3>2, <3>3, <3>4
  <2>2. before' \in Snapshot /\ kept' \subseteq KeptFiles /\ restoring' \in Archives \cup {None}
    <3>1. CASE phase = "running"
      BY <3>1 DEF ProcessStops, IInv, RestoreTypeOK, Snapshot, KeptFiles
    <3>2. CASE phase # "running"
      BY <3>2 DEF ProcessStops, IInv, RestoreTypeOK
    <3> QED
      BY <3>1, <3>2
  <2> QED
    BY <2>1, <2>2 DEF ProcessStops, IInv, RestoreTypeOK
<1>2. UploadsWhileRunning'
  BY DEF IInv, UploadsWhileRunning, RestoreTypeOK, Content, NoFiles, NoUpload, ReqState, Snapshot, KeptFiles, ProcessStops, StagedWhole, Stage
<1>3. UploadsHaveArchive'
  BY DEF IInv, UploadsHaveArchive, RestoreTypeOK, Content, NoFiles, NoUpload, ReqState, Snapshot, KeptFiles, UploadsWhileRunning, ProcessStops, StagedWhole, Stage
<1>4. MovesInOrder'
  BY DEF IInv, MovesInOrder, RestoreTypeOK, Content, NoFiles, NoUpload, ReqState, Snapshot, KeptFiles, TodoIsStaged, ProcessStops, StagedWhole, Stage
<1>5. TodoIsStaged'
  BY DEF IInv, TodoIsStaged, RestoreTypeOK, Content, NoFiles, NoUpload, ReqState, Snapshot, KeptFiles, UploadsWhileRunning, ProcessStops, StagedWhole, Stage
<1>6. NoForeignSide'
  BY DEF IInv, NoForeignSide, RestoreTypeOK, Content, NoFiles, NoUpload, ReqState, Snapshot, KeptFiles, MovesInOrder, UploadsWhileRunning, ProcessStops, StagedWhole, Stage
<1>7. NothingLost'
  BY DEF IInv, NothingLost, Safe, RestoreTypeOK, Content, NoFiles, NoUpload, ReqState, Snapshot, KeptFiles, MovesInOrder, ProcessStops, StagedWhole, Stage
<1>8. Restoring'
  BY DEF IInv, Restoring, RestoreTypeOK, Content, NoFiles, NoUpload, ReqState, Snapshot, KeptFiles, UploadsWhileRunning, MovesInOrder, TodoIsStaged, ProcessStops, StagedWhole, Stage
<1> QED
  BY <1>1, <1>2, <1>3, <1>4, <1>5, <1>6, <1>7, <1>8, Zenon DEF IInv

LEMMA BootKeeps ==
    ASSUME IInv, BootRestore
    PROVE  IInv'
<1> USE Distinct, ArchivesHold DEF start
<1>1. RestoreTypeOK'
  BY DEF IInv, RestoreTypeOK, Content, NoFiles, NoUpload, ReqState, Snapshot, KeptFiles, UploadsHaveArchive, MovesInOrder, BootRestore
<1>2. UploadsWhileRunning'
  BY DEF IInv, UploadsWhileRunning, RestoreTypeOK, Content, NoFiles, NoUpload, ReqState, Snapshot, KeptFiles, BootRestore
<1>3. UploadsHaveArchive'
  BY DEF IInv, UploadsHaveArchive, RestoreTypeOK, Content, NoFiles, NoUpload, ReqState, Snapshot, KeptFiles, UploadsWhileRunning, BootRestore
<1>4. MovesInOrder'
  BY DEF IInv, MovesInOrder, RestoreTypeOK, Content, NoFiles, NoUpload, ReqState, Snapshot, KeptFiles, TodoIsStaged, BootRestore
<1>5. TodoIsStaged'
  BY DEF IInv, TodoIsStaged, RestoreTypeOK, Content, NoFiles, NoUpload, ReqState, Snapshot, KeptFiles, UploadsWhileRunning, BootRestore
<1>6. NoForeignSide'
  BY DEF IInv, NoForeignSide, RestoreTypeOK, Content, NoFiles, NoUpload, ReqState, Snapshot, KeptFiles, MovesInOrder, UploadsWhileRunning, BootRestore
<1>7. NothingLost'
  BY DEF IInv, NothingLost, Safe, RestoreTypeOK, Content, NoFiles, NoUpload, ReqState, Snapshot, KeptFiles, MovesInOrder, BootRestore
<1>8. Restoring'
  BY DEF IInv, Restoring, RestoreTypeOK, Content, NoFiles, NoUpload, ReqState, Snapshot, KeptFiles, UploadsWhileRunning, MovesInOrder, TodoIsStaged, BootRestore
<1> QED
  BY <1>1, <1>2, <1>3, <1>4, <1>5, <1>6, <1>7, <1>8, Zenon DEF IInv

LEMMA CurrentKeeps ==
    ASSUME IInv, NEW f \in Files, MoveCurrent(f)
    PROVE  IInv'
<1> USE Distinct, ArchivesHold DEF start
<1>1. RestoreTypeOK'
  BY DEF IInv, RestoreTypeOK, Content, NoFiles, NoUpload, ReqState, Snapshot, KeptFiles, UploadsHaveArchive, MoveCurrent
<1>2. UploadsWhileRunning'
  BY DEF IInv, UploadsWhileRunning, RestoreTypeOK, Content, NoFiles, NoUpload, ReqState, Snapshot, KeptFiles, MoveCurrent
<1>3. UploadsHaveArchive'
  BY DEF IInv, UploadsHaveArchive, RestoreTypeOK, Content, NoFiles, NoUpload, ReqState, Snapshot, KeptFiles, UploadsWhileRunning, MoveCurrent
<1>4. MovesInOrder'
  BY DEF IInv, MovesInOrder, RestoreTypeOK, Content, NoFiles, NoUpload, ReqState, Snapshot, KeptFiles, TodoIsStaged, MoveCurrent
<1>5. TodoIsStaged'
  BY DEF IInv, TodoIsStaged, RestoreTypeOK, Content, NoFiles, NoUpload, ReqState, Snapshot, KeptFiles, UploadsWhileRunning, MoveCurrent
<1>6. NoForeignSide'
  BY DEF IInv, NoForeignSide, RestoreTypeOK, Content, NoFiles, NoUpload, ReqState, Snapshot, KeptFiles, MovesInOrder, UploadsWhileRunning, MoveCurrent
<1>7. NothingLost'
  BY DEF IInv, NothingLost, Safe, RestoreTypeOK, Content, NoFiles, NoUpload, ReqState, Snapshot, KeptFiles, MovesInOrder, MoveCurrent
<1>8. Restoring'
  BY DEF IInv, Restoring, RestoreTypeOK, Content, NoFiles, NoUpload, ReqState, Snapshot, KeptFiles, UploadsWhileRunning, MovesInOrder, TodoIsStaged, MoveCurrent
<1> QED
  BY <1>1, <1>2, <1>3, <1>4, <1>5, <1>6, <1>7, <1>8, Zenon DEF IInv

LEMMA SideKeeps ==
    ASSUME IInv, MoveSide
    PROVE  IInv'
<1> USE Distinct, ArchivesHold DEF start
<1>1. RestoreTypeOK'
  BY DEF IInv, RestoreTypeOK, Content, NoFiles, NoUpload, ReqState, Snapshot, KeptFiles, UploadsHaveArchive, MoveSide
<1>2. UploadsWhileRunning'
  BY DEF IInv, UploadsWhileRunning, RestoreTypeOK, Content, NoFiles, NoUpload, ReqState, Snapshot, KeptFiles, MoveSide
<1>3. UploadsHaveArchive'
  BY DEF IInv, UploadsHaveArchive, RestoreTypeOK, Content, NoFiles, NoUpload, ReqState, Snapshot, KeptFiles, UploadsWhileRunning, MoveSide
<1>4. MovesInOrder'
  BY DEF IInv, MovesInOrder, RestoreTypeOK, Content, NoFiles, NoUpload, ReqState, Snapshot, KeptFiles, TodoIsStaged, MoveSide
<1>5. TodoIsStaged'
  BY DEF IInv, TodoIsStaged, RestoreTypeOK, Content, NoFiles, NoUpload, ReqState, Snapshot, KeptFiles, UploadsWhileRunning, MoveSide
<1>6. NoForeignSide'
  BY DEF IInv, NoForeignSide, RestoreTypeOK, Content, NoFiles, NoUpload, ReqState, Snapshot, KeptFiles, MovesInOrder, UploadsWhileRunning, MoveSide
<1>7. NothingLost'
  BY DEF IInv, NothingLost, Safe, RestoreTypeOK, Content, NoFiles, NoUpload, ReqState, Snapshot, KeptFiles, MovesInOrder, MoveSide
<1>8. Restoring'
  BY DEF IInv, Restoring, RestoreTypeOK, Content, NoFiles, NoUpload, ReqState, Snapshot, KeptFiles, UploadsWhileRunning, MovesInOrder, TodoIsStaged, MoveSide
<1> QED
  BY <1>1, <1>2, <1>3, <1>4, <1>5, <1>6, <1>7, <1>8, Zenon DEF IInv

LEMMA StagedKeeps ==
    ASSUME IInv, MoveStaged
    PROVE  IInv'
<1> USE Distinct, ArchivesHold DEF start
<1>1. RestoreTypeOK'
  BY DEF IInv, RestoreTypeOK, Content, NoFiles, NoUpload, ReqState, Snapshot, KeptFiles, UploadsHaveArchive, MoveStaged
<1>2. UploadsWhileRunning'
  BY DEF IInv, UploadsWhileRunning, RestoreTypeOK, Content, NoFiles, NoUpload, ReqState, Snapshot, KeptFiles, MoveStaged
<1>3. UploadsHaveArchive'
  BY DEF IInv, UploadsHaveArchive, RestoreTypeOK, Content, NoFiles, NoUpload, ReqState, Snapshot, KeptFiles, UploadsWhileRunning, MoveStaged
<1>4. MovesInOrder'
  BY DEF IInv, MovesInOrder, RestoreTypeOK, Content, NoFiles, NoUpload, ReqState, Snapshot, KeptFiles, TodoIsStaged, MoveStaged
<1>5. TodoIsStaged'
  BY DEF IInv, TodoIsStaged, RestoreTypeOK, Content, NoFiles, NoUpload, ReqState, Snapshot, KeptFiles, UploadsWhileRunning, MoveStaged
<1>6. NoForeignSide'
  BY DEF IInv, NoForeignSide, RestoreTypeOK, Content, NoFiles, NoUpload, ReqState, Snapshot, KeptFiles, MovesInOrder, UploadsWhileRunning, MoveStaged
<1>7. NothingLost'
  BY DEF IInv, NothingLost, Safe, RestoreTypeOK, Content, NoFiles, NoUpload, ReqState, Snapshot, KeptFiles, MovesInOrder, MoveStaged
<1>8. Restoring'
  BY DEF IInv, Restoring, RestoreTypeOK, Content, NoFiles, NoUpload, ReqState, Snapshot, KeptFiles, UploadsWhileRunning, MovesInOrder, TodoIsStaged, MoveStaged
<1> QED
  BY <1>1, <1>2, <1>3, <1>4, <1>5, <1>6, <1>7, <1>8, Zenon DEF IInv

LEMMA AppliedKeeps ==
    ASSUME IInv, ApplyDone
    PROVE  IInv'
<1> USE Distinct, ArchivesHold DEF start
<1>1. RestoreTypeOK'
  BY DEF IInv, RestoreTypeOK, Content, NoFiles, NoUpload, ReqState, Snapshot, KeptFiles, UploadsHaveArchive, ApplyDone
<1>2. UploadsWhileRunning'
  BY DEF IInv, UploadsWhileRunning, RestoreTypeOK, Content, NoFiles, NoUpload, ReqState, Snapshot, KeptFiles, ApplyDone
<1>3. UploadsHaveArchive'
  BY DEF IInv, UploadsHaveArchive, RestoreTypeOK, Content, NoFiles, NoUpload, ReqState, Snapshot, KeptFiles, UploadsWhileRunning, ApplyDone
<1>4. MovesInOrder'
  BY DEF IInv, MovesInOrder, RestoreTypeOK, Content, NoFiles, NoUpload, ReqState, Snapshot, KeptFiles, TodoIsStaged, ApplyDone
<1>5. TodoIsStaged'
  BY DEF IInv, TodoIsStaged, RestoreTypeOK, Content, NoFiles, NoUpload, ReqState, Snapshot, KeptFiles, UploadsWhileRunning, ApplyDone
<1>6. NoForeignSide'
  BY DEF IInv, NoForeignSide, RestoreTypeOK, Content, NoFiles, NoUpload, ReqState, Snapshot, KeptFiles, MovesInOrder, UploadsWhileRunning, ApplyDone
<1>7. NothingLost'
  BY DEF IInv, NothingLost, Safe, RestoreTypeOK, Content, NoFiles, NoUpload, ReqState, Snapshot, KeptFiles, MovesInOrder, ApplyDone
<1>8. Restoring'
  BY DEF IInv, Restoring, RestoreTypeOK, Content, NoFiles, NoUpload, ReqState, Snapshot, KeptFiles, UploadsWhileRunning, MovesInOrder, TodoIsStaged, ApplyDone
<1> QED
  BY <1>1, <1>2, <1>3, <1>4, <1>5, <1>6, <1>7, <1>8, Zenon DEF IInv

LEMMA StutterKeeps ==
    ASSUME IInv, UNCHANGED restoreVars
    PROVE  IInv'
<1> USE DEF restoreVars
<1>1. RestoreTypeOK' /\ UploadsWhileRunning' /\ UploadsHaveArchive'
  BY DEF IInv, RestoreTypeOK, UploadsWhileRunning, UploadsHaveArchive
<1>2. MovesInOrder' /\ TodoIsStaged' /\ NoForeignSide'
  BY DEF IInv, MovesInOrder, TodoIsStaged, NoForeignSide
<1>3. NothingLost' /\ Restoring'
  BY DEF IInv, NothingLost, Safe, Restoring
<1> QED
  BY <1>1, <1>2, <1>3, Zenon DEF IInv

LEMMA Inductive == IInv /\ [RestoreNext]_restoreVars => IInv'
<1> SUFFICES ASSUME IInv, [RestoreNext]_restoreVars PROVE IInv'
  OBVIOUS
<1>1. ASSUME NEW r \in RestoreRequests, Staging(r) PROVE IInv'
  BY <1>1, MakesKeeps, RefusesKeeps, EscapesKeeps, OpensKeeps, VerifiesKeeps, ReadyKeeps, Zenon DEF Staging
<1>2. CASE Applying
  BY <1>2, CurrentKeeps, SideKeeps, StagedKeeps, AppliedKeeps, Zenon DEF Applying
<1>3. CASE UNCHANGED restoreVars
  BY <1>3, StutterKeeps
<1> QED
  BY <1>1, <1>2, <1>3, ClearsKeeps, CancelKeeps, AppKeeps, StopKeeps, BootKeeps, Zenon DEF RestoreNext

(* Every reachable state has the declared type, whatever is uploaded, however    *)
(* many uploads run at once and wherever the process stops (config_backup.py).   *)
THEOREM RestoreTypeCorrect == RestoreSpec => []RestoreTypeOK
<1>1. IInv => RestoreTypeOK
  BY DEF IInv
<1> QED
  BY <1>1, Initially, Inductive, PTL DEF RestoreSpec

(* No interrupted or repeated apply_pending_restore leaves a restored database   *)
(* beside the -wal or -shm file of the database it replaced.                     *)
THEOREM SideFilesMatch == RestoreSpec => []NoForeignSide
<1>1. IInv => NoForeignSide
  BY DEF IInv
<1> QED
  BY <1>1, Initially, Inductive, PTL DEF RestoreSpec

(* Whatever the application had left in its data directory is in place or in a   *)
(* pre-restore folder as long as the start-up that replaces it is not over.      *)
THEOREM PreviousFilesKept == RestoreSpec => []NothingLost
<1>1. IInv => NothingLost
  BY DEF IInv
<1> QED
  BY <1>1, Initially, Inductive, PTL DEF RestoreSpec

(* An archive that was wholly staged when the application stopped is in place,    *)
(* whole and alone, when it runs again.                                           *)
THEOREM WholeArchiveRestored == RestoreSpec => RestoreIsWhole
<1>1. ASSUME IInv, [RestoreNext]_restoreVars
      PROVE  [phase = "applying" /\ phase' = "running" /\ restoring # None
                => \A f \in Files : data'[f] = IF f \in Holds[restoring] THEN restoring
                                                                       ELSE before.data[f]]_restoreVars
  <2> SUFFICES ASSUME phase = "applying", phase' = "running", restoring # None, NEW f \in Files
               PROVE  data'[f] = IF f \in Holds[restoring] THEN restoring ELSE before.data[f]
    OBVIOUS
  <2>1. ApplyDone
    <3>1. ASSUME NEW r \in RestoreRequests, Staging(r) PROVE FALSE
      BY <3>1 DEF Staging, StageMakes, StageRefuses, StageEscapes, StageVerifies, StageReady, StageOpens, start
    <3>2. ~UNCHANGED restoreVars
      BY DEF restoreVars
    <3>3. CASE Applying
      BY <3>3 DEF Applying, MoveSide, MoveStaged, MoveCurrent
    <3> QED
      BY <1>1, <3>1, <3>2, <3>3 DEF RestoreNext, StageClears, CancelRestore, AppCreates, AppWrites,
         AppCheckpoints, ProcessStops, BootRestore
  <2>2. staged[f] = None /\ data' = data
    BY <2>1 DEF ApplyDone, NoFiles
  <2>3. restoring \in Archives
    BY <1>1 DEF IInv, RestoreTypeOK
  <2> QED
    BY <1>1, <2>2, <2>3, Distinct DEF IInv, Restoring
<1> QED
  BY <1>1, Initially, Inductive, PTL DEF RestoreSpec, RestoreIsWhole

-----------------------------------------------------------------------------
(* One upload at a time: the directory holds what the request has verified so   *)
(* far, unless somebody cancelled, and then the request finds no directory.     *)
(* (Two uploads write into the same directory, and each may finish what the     *)
(* other one began.)                                                            *)
StagedSoFar(q) ==
    [f \in Files |-> IF f \in Holds[q.arch] \ q.left THEN q.arch
                     ELSE IF q.pc = "writing" /\ f = q.file THEN Torn ELSE None]

UploadProceeds(q) ==
    /\ q.pc = "clear" => ~pending /\ q.left = Holds[q.arch]
    /\ q.pc \in {"reading", "writing"} =>
            q.arch \in Archives /\ q.left \subseteq Holds[q.arch] /\ (pending => staged = StagedSoFar(q))
    /\ q.pc = "writing" => q.file \in q.left
    /\ q = NoUpload /\ phase = "running" /\ pending /\ ~uncaught => \E a \in Archives : staged = Stage(a)

StageInv == IInv /\ \A r \in RestoreRequests : UploadProceeds(req[r])

LEMMA StagingInitially == RestoreInit => StageInv
BY Initially DEF RestoreInit, StageInv, UploadProceeds, NoUpload

LEMMA NoPendingProceeds ==
    ASSUME ~pending' PROVE UploadProceeds(NoUpload)'
BY DEF UploadProceeds, NoUpload

LEMMA StagingInductive ==
    ASSUME NEW g, RestoreRequests = {g}
    PROVE  StageInv /\ [RestoreNext]_restoreVars => StageInv'
<1> SUFFICES ASSUME StageInv, [RestoreNext]_restoreVars PROVE UploadProceeds(req[g])'
  BY Inductive DEF StageInv
<1> DEFINE q == req[g]
<1>1. IInv /\ UploadProceeds(q)
  BY DEF StageInv
<1>2. /\ req \in [RestoreRequests -> ReqState] /\ q \in ReqState /\ staged \in [Files -> Content]
      /\ ~pending => staged = NoFiles
      /\ q.pc # "idle" => phase = "running" /\ q.arch \in Archives
  BY <1>1 DEF IInv, RestoreTypeOK, UploadsHaveArchive, UploadsWhileRunning, NoUpload
<1>3. NoUpload.pc = "idle"
  BY DEF NoUpload
<1>4. ASSUME Refuse(g) PROVE UploadProceeds(req[g])'
  <2>1. ~pending' /\ req'[g] = NoUpload
    BY <1>2, <1>4 DEF Refuse, RemovePending
  <2> QED
    BY <2>1, NoPendingProceeds DEF UploadProceeds
<1>5. ASSUME UNCHANGED req, ~pending' PROVE UploadProceeds(req[g])'
  BY <1>1, <1>5 DEF UploadProceeds
<1>6. ASSUME UNCHANGED <<req, staged, pending, uncaught>>, phase' = "running" /\ pending' => phase = "running"
      PROVE  UploadProceeds(req[g])'
  BY <1>1, <1>6 DEF UploadProceeds, StagedSoFar
<1>7. ASSUME NEW a \in Archives, NEW flaw \in Holds[a] \cup {None, Manifest}, StageClears(g, a, flaw)
      PROVE  UploadProceeds(req[g])'
  <2> DEFINE u == [pc |-> "clear", arch |-> a, flaw |-> flaw, left |-> Holds[a], file |-> None]
  <2>1. req'[g] = u /\ ~pending'
    BY <1>2, <1>7 DEF StageClears, RemovePending
  <2>2. u.pc = "clear" /\ u.left = Holds[u.arch] /\ u # NoUpload
    BY <1>3
  <2> HIDE DEF u
  <2> QED
    BY <2>1, <2>2 DEF UploadProceeds
<1>8. CASE StageMakes(g)
  <2>1. q.pc = "clear" /\ ~pending /\ q.left = Holds[q.arch] /\ q.arch \in Archives /\ staged = NoFiles
    BY <1>1, <1>2, <1>8 DEF StageMakes, UploadProceeds
  <2>2. req'[g] = [q EXCEPT !.pc = "reading"] /\ pending' /\ staged' = staged
    BY <1>2, <1>8, <2>1 DEF StageMakes
  <2>3. req'[g].pc = "reading" /\ req'[g].arch = q.arch /\ req'[g].left = q.left /\ req'[g] # NoUpload
    BY <1>2, <1>3, <2>2 DEF ReqState
  <2>4. StagedSoFar(req[g])' = NoFiles
    BY <2>1, <2>3 DEF StagedSoFar, NoFiles
  <2> QED
    BY <2>1, <2>2, <2>3, <2>4 DEF UploadProceeds
<1>9. CASE StageRefuses(g)
  BY <1>4, <1>9 DEF StageRefuses
<1>10. ASSUME NEW f \in Files, StageOpens(g, f)
       PROVE  UploadProceeds(req[g])'
  <2>1. q.pc = "reading" /\ f \in q.left
    BY <1>10 DEF StageOpens
  <2>2. CASE ~pending
    BY <1>4, <1>10, <2>2 DEF StageOpens
  <2>3. CASE pending
    <3>1. /\ req'[g] = [q EXCEPT !.pc = "writing", !.file = f] /\ pending' /\ staged' = [staged EXCEPT ![f] = Torn]
      BY <1>2, <1>10, <2>3 DEF StageOpens
    <3>2. /\ req'[g].pc = "writing" /\ req'[g].arch = q.arch /\ req'[g].left = q.left /\ req'[g].file = f
          /\ req'[g] # NoUpload
      BY <1>2, <1>3, <3>1 DEF ReqState
    <3>3. staged = StagedSoFar(q) /\ q.arch \in Archives /\ q.left \subseteq Holds[q.arch]
      BY <1>1, <2>1, <2>3 DEF UploadProceeds
    <3>4. StagedSoFar(req[g])' = [staged EXCEPT ![f] = Torn]
      BY <2>1, <3>2, <3>3 DEF StagedSoFar
    <3> QED
      BY <2>1, <3>1, <3>2, <3>3, <3>4 DEF UploadProceeds
  <2> QED
    BY <2>2, <2>3
<1>11. CASE StageVerifies(g)
  <2>1. q.pc = "writing" /\ q.arch \in Archives /\ q.file \in q.left /\ q.left \subseteq Holds[q.arch] /\ q.file \in Files
    BY <1>1, <1>2, <1>11 DEF StageVerifies, UploadProceeds, IInv, UploadsHaveArchive
  <2>2. PICK got \in Landed(g, q.file) :
           IF got = q.arch
           THEN /\ staged' = [staged EXCEPT ![q.file] = got]
                /\ req' = [req EXCEPT ![g] = [@ EXCEPT !.pc = "reading", !.file = None, !.left = q.left \ {q.file}]]
                /\ UNCHANGED pending
           ELSE Refuse(g)
    BY <1>11 DEF StageVerifies
  <2>3. CASE got # q.arch
    BY <1>4, <2>2, <2>3
  <2>4. CASE got = q.arch
    <3>1. /\ req'[g].pc = "reading" /\ req'[g].arch = q.arch /\ req'[g].left = q.left \ {q.file} /\ req'[g] # NoUpload
          /\ pending' = pending /\ staged' = [staged EXCEPT ![q.file] = q.arch]
      <4> DEFINE x == [q EXCEPT !.pc = "reading", !.file = None, !.left = q.left \ {q.file}]
      <4>1. req' = [req EXCEPT ![g] = x] /\ pending' = pending /\ staged' = [staged EXCEPT ![q.file] = q.arch]
        BY <1>2, <2>2, <2>4
      <4>2. x.pc = "reading" /\ x.arch = q.arch /\ x.left = q.left \ {q.file}
        BY <1>2 DEF ReqState
      <4>3. req'[g] = x
        BY <1>2, <4>1
      <4> QED
        BY <1>3, <4>1, <4>2, <4>3
    <3>2. ASSUME pending PROVE StagedSoFar(req[g])' = staged'
      <4>1. staged = StagedSoFar(q)
        BY <1>1, <2>1, <3>2 DEF UploadProceeds
      <4> QED
        BY <2>1, <3>1, <4>1 DEF StagedSoFar
    <3> QED
      BY <2>1, <3>1, <3>2 DEF UploadProceeds
  <2> QED
    BY <2>3, <2>4
<1>12. CASE StageReady(g)
  <2>1. q.pc = "reading" /\ q.left = {} /\ req'[g] = NoUpload /\ UNCHANGED <<staged, pending>> /\ q.arch \in Archives
    BY <1>2, <1>12 DEF StageReady
  <2>2. ASSUME pending PROVE staged = Stage(q.arch)
    BY <1>1, <2>1, <2>2 DEF UploadProceeds, StagedSoFar, Stage
  <2> QED
    BY <1>3, <2>1, <2>2 DEF UploadProceeds, Stage
<1>13. CASE CancelRestore
  BY <1>5, <1>13 DEF CancelRestore, RemovePending
<1>14. ASSUME NEW f \in Files, AppCreates(f) \/ AppWrites(f) \/ AppCheckpoints(f)
       PROVE  UploadProceeds(req[g])'
  BY <1>6, <1>14 DEF AppCreates, AppWrites, AppCheckpoints, start
<1>15. CASE ProcessStops
  <2>1. req'[g] = NoUpload /\ phase' = "down"
    BY <1>15 DEF ProcessStops
  <2> QED
    BY <1>3, <2>1 DEF UploadProceeds
<1>16. CASE BootRestore
  BY <1>6, <1>16 DEF BootRestore
<1>17. CASE Applying
  <2>1. phase = "applying" /\ req' = req /\ (phase' = "running" => ~pending')
    BY <1>17 DEF Applying, MoveCurrent, MoveSide, MoveStaged, ApplyDone
  <2>2. q = NoUpload
    BY <1>1, <2>1 DEF IInv, UploadsWhileRunning
  <2> QED
    BY <1>3, <2>1, <2>2 DEF UploadProceeds
<1>18. CASE StageEscapes(g)
  <2>1. req'[g] = NoUpload /\ (pending' => uncaught')
    BY <1>2, <1>18 DEF StageEscapes
  <2> QED
    BY <1>3, <2>1 DEF UploadProceeds
<1>19. CASE UNCHANGED restoreVars
  BY <1>6, <1>19 DEF restoreVars
<1> QED
  BY <1>7, <1>8, <1>9, <1>10, <1>11, <1>12, <1>13, <1>14, <1>15, <1>16, <1>17, <1>18, <1>19 DEF RestoreNext, Staging

(* With one upload at a time, what waits for the next start is all of one       *)
(* verified archive and nothing else, whatever is refused, cancelled or stopped *)
(* in between, unless an error that stage_restore() does not catch left a part  *)
(* of an upload behind (stage_restore() and cancel_restore() in                 *)
(* config_backup.py).                                                           *)
THEOREM OneArchiveIsStaged ==
    ASSUME NEW g, RestoreRequests = {g}
    PROVE  RestoreSpec => []StagedIsOneArchive
<1>1. StageInv => StagedIsOneArchive
  BY DEF StageInv, UploadProceeds, StagedIsOneArchive
<1> QED
  BY <1>1, StagingInitially, StagingInductive, PTL DEF RestoreSpec

-----------------------------------------------------------------------------
(* Notification channels.  Whoever is inside the lock holds the file as it is,*)
(* because nobody else saves meanwhile: that is what makes both lists, the    *)
(* one in the file and the one the requests asked for, change alike.          *)
Levels == {"info", "warning"}
GivenStatuses == {"ok", "refused", "error"}
NeverTried == "" \* the status of a channel that nothing was delivered to
ChannelRow == [there : BOOLEAN, on : BOOLEAN, low : Levels, status : GivenStatuses \cup {NeverTried}]
ChannelRequest ==
    {q \in [pc : {"idle", "wait", "inside"}, op : {"add", "change", "delete"}, id : ChannelIds \cup {""},
            on : BOOLEAN, low : Levels] : q.pc # "idle" => q.id \in ChannelIds}
Deliveries == Messages \X ChannelIds

ChannelTypes ==
    /\ channels \in [ChannelIds -> ChannelRow] /\ askedChannels \in [ChannelIds -> ChannelRow]
    /\ lockedBy.list \in [ChannelIds -> ChannelRow]
    /\ lockedBy \in [who : SUBSET (ChannelAdmins \cup Deliveries), list : [ChannelIds -> ChannelRow]]
    /\ chAsk \in [ChannelAdmins -> ChannelRequest]
    /\ delivery \in [Deliveries -> {"none", "post", "done"} \cup GivenStatuses]
    /\ issued \subseteq ChannelIds
    /\ outcomes \in [ChannelIds -> SUBSET (GivenStatuses \cup {NeverTried})]

LockHeld ==
    /\ \A w \in lockedBy.who : lockedBy.who = {w} /\ lockedBy.list = channels
    /\ \A r \in ChannelAdmins : chAsk[r].pc = "inside" => lockedBy.who = {r}
    /\ \A d \in Deliveries : d \in lockedBy.who => delivery[d] \in GivenStatuses

SameSwitches(one, other) ==
    \A c \in ChannelIds : /\ one[c].there = other[c].there
                          /\ one[c].there => one[c].on = other[c].on /\ one[c].low = other[c].low
StatusGiven(list) == \A c \in ChannelIds : list[c].there => list[c].status \in outcomes[c]
WithinLimit(list) == IsFiniteSet(Listing(list)) /\ Cardinality(Listing(list)) <= ChannelLimit

ChannelsSafe ==
    /\ SameSwitches(channels, askedChannels) /\ StatusGiven(channels) /\ WithinLimit(channels)
    /\ \A c \in ChannelIds : NeverTried \in outcomes[c]
    /\ \A d \in Deliveries : delivery[d] \in GivenStatuses => delivery[d] \in outcomes[d[2]]

ChannelInv == ChannelTypes /\ LockHeld /\ ChannelsSafe

LEMMA RowsAreRecords ==
    /\ NoChannel \in ChannelRow /\ ~NoChannel.there
    /\ \A on \in BOOLEAN, low \in Levels, status \in GivenStatuses \cup {NeverTried} :
           /\ Channel(on, low, status) \in ChannelRow
           /\ Channel(on, low, status).there /\ Channel(on, low, status).on = on
           /\ Channel(on, low, status).low = low /\ Channel(on, low, status).status = status
    BY DEF ChannelRow, NoChannel, Channel, Levels, NeverTried

LEMMA ChannelStarts == ChannelInit => ChannelInv
<1> SUFFICES ASSUME ChannelInit PROVE ChannelInv
    OBVIOUS
<1>1. NoChannels \in [ChannelIds -> ChannelRow] /\ \A c \in ChannelIds : ~NoChannels[c].there
    BY RowsAreRecords DEF NoChannels, ChannelRow
<1>2. ChannelTypes
    BY <1>1 DEF ChannelInit, ChannelTypes, NobodyIn, ChannelRequest, NoChannelWork, Levels, Deliveries, NeverTried
<1>3. LockHeld
    BY DEF ChannelInit, LockHeld, NobodyIn, NoChannelWork, Deliveries
<1>4. Listing(channels) = {}
    BY <1>1 DEF ChannelInit, Listing
<1>5. WithinLimit(channels)
    BY <1>4, FS_EmptySet, LimitAssumption DEF WithinLimit
<1> QED BY <1>1, <1>2, <1>3, <1>5 DEF ChannelInv, ChannelsSafe, ChannelInit, SameSwitches, StatusGiven, GivenStatuses, Deliveries,
      NeverTried

LEMMA SmallerIsWithin ==
    ASSUME NEW one, NEW other, WithinLimit(one), Listing(other) \subseteq Listing(one)
    PROVE  WithinLimit(other)
<1> DEFINE all == Listing(one)  some == Listing(other)
<1> HIDE DEF all, some
<1>1. IsFiniteSet(all) /\ some \subseteq all /\ Cardinality(all) <= ChannelLimit
    BY DEF WithinLimit, all, some
<1>2. IsFiniteSet(some) /\ Cardinality(some) <= Cardinality(all)
    BY <1>1, FS_Subset
<1>3. Cardinality(some) \in Nat /\ Cardinality(all) \in Nat
    BY <1>1, <1>2, FS_CardinalityType
<1>4. Cardinality(some) <= ChannelLimit
    BY <1>1, <1>2, <1>3, LimitAssumption
<1> QED BY <1>2, <1>4 DEF WithinLimit, some

LEMMA RoomForOne == \A n \in Nat : ~(n >= ChannelLimit) => n <= ChannelLimit /\ n + 1 <= ChannelLimit
    BY LimitAssumption

(* The same edit of two lists with the same switches.                         *)
LEMMA EditsAlike ==
    ASSUME NEW one \in [ChannelIds -> ChannelRow], NEW other \in [ChannelIds -> ChannelRow],
           NEW q \in ChannelRequest, q.pc = "inside", SameSwitches(one, other), StatusGiven(one), WithinLimit(one),
           \A c \in ChannelIds : NeverTried \in outcomes[c]
    PROVE  /\ EditedList(one, q) \in [ChannelIds -> ChannelRow] /\ EditedList(other, q) \in [ChannelIds -> ChannelRow]
           /\ SameSwitches(EditedList(one, q), EditedList(other, q))
           /\ StatusGiven(EditedList(one, q)) /\ WithinLimit(EditedList(one, q))
<1>1. q.op \in {"add", "change", "delete"} /\ q.id \in ChannelIds /\ q.on \in BOOLEAN /\ q.low \in Levels
    BY DEF ChannelRequest
<1>2. Listing(one) = Listing(other)
    BY DEF SameSwitches, Listing
<1>3. CASE q.op = "add" /\ Cardinality(Listing(one)) >= ChannelLimit
    BY <1>2, <1>3 DEF EditedList
<1>4. CASE q.op = "add" /\ ~(Cardinality(Listing(one)) >= ChannelLimit)
    <2> DEFINE new == Channel(q.on, q.low, NeverTried)
    <2>1. /\ EditedList(one, q) = [one EXCEPT ![q.id] = new]
          /\ EditedList(other, q) = [other EXCEPT ![q.id] = new]
        BY <1>2, <1>4 DEF EditedList, NeverTried
    <2>2. new \in ChannelRow /\ new.there /\ new.status = NeverTried
        BY <1>1 DEF Channel, ChannelRow
    <2> HIDE DEF new
    <2>3. \A c \in ChannelIds : /\ EditedList(one, q)[c] = IF c = q.id THEN new ELSE one[c]
                               /\ EditedList(other, q)[c] = IF c = q.id THEN new ELSE other[c]
        BY <2>1
    <2>4. Listing(EditedList(one, q)) = Listing(one) \cup {q.id}
        BY <1>1, <2>2, <2>3 DEF Listing
    <2>5. WithinLimit(EditedList(one, q))
        <3> DEFINE all == Listing(one)
        <3> HIDE DEF all
        <3>1. IsFiniteSet(all) /\ ~(Cardinality(all) >= ChannelLimit)
            BY <1>4 DEF WithinLimit, all
        <3>2. Cardinality(all) \in Nat
            BY <3>1, FS_CardinalityType
        <3>3. /\ IsFiniteSet(all \cup {q.id})
              /\ Cardinality(all \cup {q.id}) \in {Cardinality(all), Cardinality(all) + 1}
            BY <3>1, FS_AddElement
        <3>4. \A n \in Nat : ~(n >= ChannelLimit) => n <= ChannelLimit /\ n + 1 <= ChannelLimit
            BY RoomForOne
        <3>5. Cardinality(all \cup {q.id}) <= ChannelLimit
            BY <3>1, <3>2, <3>3, <3>4
        <3> QED BY <2>4, <3>3, <3>5 DEF WithinLimit, all
    <2>6. SameSwitches(EditedList(one, q), EditedList(other, q))
        BY <2>3 DEF SameSwitches
    <2>7. StatusGiven(EditedList(one, q))
        BY <2>2, <2>3 DEF StatusGiven
    <2>8. /\ EditedList(one, q) \in [ChannelIds -> ChannelRow]
          /\ EditedList(other, q) \in [ChannelIds -> ChannelRow]
        BY <2>1, <2>2
    <2> QED BY <2>5, <2>6, <2>7, <2>8
<1>5. CASE q.op = "delete"
    <2>1. /\ EditedList(one, q) = [one EXCEPT ![q.id] = NoChannel]
          /\ EditedList(other, q) = [other EXCEPT ![q.id] = NoChannel]
        BY <1>5 DEF EditedList
    <2>2. NoChannel \in ChannelRow /\ ~NoChannel.there
        BY RowsAreRecords DEF ChannelRow
    <2>3. \A c \in ChannelIds : /\ EditedList(one, q)[c] = IF c = q.id THEN NoChannel ELSE one[c]
                               /\ EditedList(other, q)[c] = IF c = q.id THEN NoChannel ELSE other[c]
        BY <2>1
    <2>4. Listing(EditedList(one, q)) \in SUBSET Listing(one)
        BY <2>2, <2>3 DEF Listing
    <2>5. WithinLimit(EditedList(one, q))
        BY <2>4, SmallerIsWithin
    <2>6. SameSwitches(EditedList(one, q), EditedList(other, q))
        BY <2>3 DEF SameSwitches
    <2>7. StatusGiven(EditedList(one, q))
        BY <2>2, <2>3 DEF StatusGiven
    <2>8. /\ EditedList(one, q) \in [ChannelIds -> ChannelRow]
          /\ EditedList(other, q) \in [ChannelIds -> ChannelRow]
        BY <2>1, <2>2
    <2> QED BY <2>5, <2>6, <2>7, <2>8
<1>6. CASE q.op = "change" /\ one[q.id].there
    <2> DEFINE new(list) == Channel(q.on, q.low, list[q.id].status)
    <2>1. other[q.id].there
        BY <1>1, <1>6 DEF SameSwitches
    <2>2. /\ EditedList(one, q) = [one EXCEPT ![q.id] = new(one)]
          /\ EditedList(other, q) = [other EXCEPT ![q.id] = new(other)]
        BY <1>6, <2>1 DEF EditedList
    <2>3. one[q.id].status \in GivenStatuses \cup {NeverTried} /\ other[q.id].status \in GivenStatuses \cup {NeverTried}
        BY <1>1 DEF ChannelRow
    <2>4. /\ new(one) \in ChannelRow /\ new(one).there /\ new(one).on = q.on /\ new(one).low = q.low
          /\ new(one).status = one[q.id].status
          /\ new(other) \in ChannelRow /\ new(other).there /\ new(other).on = q.on /\ new(other).low = q.low
        BY <1>1, <2>3 DEF Channel, ChannelRow
    <2> HIDE DEF new
    <2>5. \A c \in ChannelIds : /\ EditedList(one, q)[c] = IF c = q.id THEN new(one) ELSE one[c]
                               /\ EditedList(other, q)[c] = IF c = q.id THEN new(other) ELSE other[c]
        BY <2>2
    <2>6. Listing(EditedList(one, q)) = Listing(one)
        BY <1>6, <2>4, <2>5 DEF Listing
    <2>7. WithinLimit(EditedList(one, q))
        BY <2>6 DEF WithinLimit
    <2>8. SameSwitches(EditedList(one, q), EditedList(other, q))
        <3> SUFFICES ASSUME NEW c \in ChannelIds
                     PROVE  LET mine == EditedList(one, q)[c]  theirs == EditedList(other, q)[c]
                            IN  mine.there = theirs.there /\ (mine.there => mine.on = theirs.on /\ mine.low = theirs.low)
            BY DEF SameSwitches
        <3>1. CASE c = q.id
            <4>1. EditedList(one, q)[c] = new(one) /\ EditedList(other, q)[c] = new(other)
                BY <2>5, <3>1
            <4>2. /\ new(one).there /\ new(other).there
                  /\ new(one).on = new(other).on /\ new(one).low = new(other).low
                BY <2>4
            <4> QED BY <4>1, <4>2
        <3>2. CASE c # q.id
            BY <2>5, <3>2 DEF SameSwitches
        <3> QED BY <3>1, <3>2
    <2>9. StatusGiven(EditedList(one, q))
        BY <1>6, <2>4, <2>5 DEF StatusGiven
    <2>10. /\ EditedList(one, q) \in [ChannelIds -> ChannelRow]
           /\ EditedList(other, q) \in [ChannelIds -> ChannelRow]
        BY <2>2, <2>4
    <2> QED BY <2>7, <2>8, <2>9, <2>10
<1>7. CASE q.op = "change" /\ ~one[q.id].there
    <2>1. ~other[q.id].there
        BY <1>1, <1>7 DEF SameSwitches
    <2> QED BY <1>7, <2>1 DEF EditedList
<1> QED BY <1>1, <1>3, <1>4, <1>5, <1>6, <1>7

(* A delivery writes a status and nothing else.                               *)
LEMMA NotedAlike ==
    ASSUME NEW one \in [ChannelIds -> ChannelRow], NEW new \in [ChannelIds -> ChannelRow], NEW other \in [ChannelIds -> ChannelRow],
           NEW c \in ChannelIds, NEW status \in outcomes[c], status \in GivenStatuses,
           \A e \in ChannelIds : new[e] = IF e = c THEN [one[c] EXCEPT !.status = status] ELSE one[e],
           SameSwitches(one, other), StatusGiven(one), WithinLimit(one)
    PROVE  SameSwitches(new, other) /\ StatusGiven(new) /\ WithinLimit(new)
<1>1. \A e \in ChannelIds : /\ new[e].there = one[e].there /\ new[e].on = one[e].on /\ new[e].low = one[e].low
                            /\ new[e].status = IF e = c THEN status ELSE one[e].status
    <2>1. \A row \in ChannelRow : LET noted == [row EXCEPT !.status = status] IN
             /\ noted.there = row.there /\ noted.on = row.on /\ noted.low = row.low /\ noted.status = status
        BY DEF ChannelRow
    <2> TAKE e \in ChannelIds
    <2>2. CASE e = c
        <3>1. new[e] = [one[e] EXCEPT !.status = status] /\ one[e] \in ChannelRow
            BY <2>2
        <3>2. /\ new[e].there = one[e].there /\ new[e].on = one[e].on /\ new[e].low = one[e].low
              /\ new[e].status = status
            <4> DEFINE row == one[e]
            <4>1. row \in ChannelRow /\ new[e] = [row EXCEPT !.status = status]
                BY <3>1
            <4> HIDE DEF row
            <4>2. /\ new[e].there = row.there /\ new[e].on = row.on /\ new[e].low = row.low
                  /\ new[e].status = status
                BY <2>1, <4>1
            <4> QED
                BY <4>2 DEF row
        <3> QED
            BY <2>2, <3>2
    <2>3. CASE e # c
        <3>1. new[e] = one[e]
            BY <2>3
        <3> QED
            BY <2>3, <3>1
    <2> QED BY <2>2, <2>3
<1>2. Listing(new) \subseteq Listing(one)
    BY <1>1 DEF Listing
<1>3. SameSwitches(new, other)
    BY <1>1 DEF SameSwitches
<1>4. StatusGiven(new)
    BY <1>1 DEF StatusGiven
<1> QED BY <1>2, <1>3, <1>4, SmallerIsWithin

LEMMA ChannelSteps == ChannelInv /\ [ChannelNext]_channelVars => ChannelInv'
<1> SUFFICES ASSUME ChannelInv, [ChannelNext]_channelVars PROVE ChannelInv'
    OBVIOUS
<1> USE DEF ChannelInv
\* What leaves the file, the outcomes and the requested channels alone.
<1>1. ASSUME UNCHANGED <<channels, askedChannels, outcomes>>, ChannelTypes', LockHeld',
             \A d \in Deliveries : delivery'[d] \in GivenStatuses => delivery'[d] = delivery[d]
      PROVE  ChannelInv'
    BY <1>1 DEF ChannelsSafe, SameSwitches, StatusGiven, WithinLimit, Listing
<1>2. ASSUME NEW r \in ChannelAdmins, AddAsked(r) PROVE ChannelInv'
    <2>1. PICK c \in ChannelIds \ issued : chAsk' = [chAsk EXCEPT ![r] = AddsChannel(c)] /\ issued' = issued \cup {c}
        BY <1>2 DEF AddAsked
    <2>2. AddsChannel(c) \in ChannelRequest /\ AddsChannel(c).pc = "wait"
        BY DEF AddsChannel, ChannelRequest, Levels
    <2>3. ChannelTypes' /\ LockHeld'
        BY <1>2, <2>1, <2>2 DEF AddAsked, ChannelTypes, LockHeld
    <2> QED BY <1>1, <1>2, <2>3 DEF AddAsked
<1>3. ASSUME NEW r \in ChannelAdmins, ChangeAsked(r) PROVE ChannelInv'
    <2>1. PICK q \in ChannelRequest : q.pc = "wait" /\ chAsk' = [chAsk EXCEPT ![r] = q]
        <3>1. PICK c \in issued : \/ chAsk' = [chAsk EXCEPT ![r] = DeletesChannel(c)]
                                  \/ \E on \in BOOLEAN, low \in {"info", "warning"} :
                                         chAsk' = [chAsk EXCEPT ![r] = ChangesChannel(c, on, low)]
            BY <1>3 DEF ChangeAsked
        <3>2. c \in ChannelIds
            BY DEF ChannelTypes
        <3>3. /\ DeletesChannel(c) \in ChannelRequest /\ DeletesChannel(c).pc = "wait"
              /\ \A on \in BOOLEAN, low \in {"info", "warning"} :
                     ChangesChannel(c, on, low) \in ChannelRequest /\ ChangesChannel(c, on, low).pc = "wait"
            BY <3>2 DEF DeletesChannel, ChangesChannel, ChannelRequest, Levels
        <3> QED BY <3>1, <3>3
    <2>2. ChannelTypes' /\ LockHeld'
        BY <1>3, <2>1 DEF ChangeAsked, ChannelTypes, LockHeld
    <2> QED BY <1>1, <1>3, <2>2 DEF ChangeAsked
<1>4. ASSUME NEW r \in ChannelAdmins, RequestEnters(r) PROVE ChannelInv'
    <2>1. r \notin Deliveries
        BY AdminsAreNotDeliveries DEF Deliveries
    <2>2. chAsk' = [chAsk EXCEPT ![r].pc = "inside"] /\ [chAsk[r] EXCEPT !.pc = "inside"] \in ChannelRequest
        <3>1. \A q \in ChannelRequest : q.pc = "wait" => [q EXCEPT !.pc = "inside"] \in ChannelRequest
            BY DEF ChannelRequest
        <3>2. chAsk[r] \in ChannelRequest
            BY DEF ChannelTypes
        <3> QED BY <1>4, <3>1, <3>2 DEF RequestEnters
    <2>3. lockedBy' = [who |-> {r}, list |-> channels] /\ lockedBy.who = {}
        BY <1>4 DEF RequestEnters, Enters, NobodyInside
    <2>4. ChannelTypes'
        BY <1>4, <2>2, <2>3 DEF RequestEnters, ChannelTypes
    <2>5. LockHeld'
        BY <1>4, <2>1, <2>2, <2>3 DEF RequestEnters, LockHeld, ChannelTypes
    <2> QED BY <1>1, <1>4, <2>4, <2>5 DEF RequestEnters
<1>5. ASSUME NEW r \in ChannelAdmins, RequestSaves(r) PROVE ChannelInv'
    <2>1. chAsk[r] \in ChannelRequest /\ chAsk[r].pc = "inside" /\ lockedBy.list = channels
        BY <1>5 DEF RequestSaves, LockHeld, ChannelTypes
    <2>2. channels' = EditedList(channels, chAsk[r]) /\ askedChannels' = EditedList(askedChannels, chAsk[r])
        BY <1>5, <2>1 DEF RequestSaves
    <2>3. /\ channels' \in [ChannelIds -> ChannelRow] /\ askedChannels' \in [ChannelIds -> ChannelRow]
          /\ SameSwitches(channels', askedChannels') /\ StatusGiven(channels') /\ WithinLimit(channels')
        BY <2>1, <2>2, EditsAlike DEF ChannelTypes, ChannelsSafe
    <2>4. NoChannelWork \in ChannelRequest /\ NoChannelWork.pc = "idle"
        BY DEF NoChannelWork, ChannelRequest, Levels
    <2>5. NobodyIn \in [who : SUBSET (ChannelAdmins \cup Deliveries), list : [ChannelIds -> ChannelRow]]
        BY RowsAreRecords DEF NobodyIn, NoChannels
    <2>6. ChannelTypes'
        BY <1>5, <2>3, <2>4, <2>5 DEF RequestSaves, ChannelTypes
    <2>7. LockHeld'
        BY <1>5, <2>4 DEF RequestSaves, LockHeld, NobodyIn, ChannelTypes
    <2>8. ChannelsSafe'
        BY <1>5, <2>3 DEF RequestSaves, ChannelsSafe, StatusGiven, SameSwitches
    <2> QED BY <2>6, <2>7, <2>8
\* What sends, tests and stops change: deliveries that were not sent, or all but their status.
<1>6. ASSUME NEW m \in Messages, NEW them \in SUBSET ChannelIds, Unsent(m), SentTo(m, them),
             UNCHANGED <<channels, lockedBy, chAsk, issued, askedChannels, outcomes>>
      PROVE  ChannelInv'
    <2>1. \A d \in Deliveries : /\ d = <<d[1], d[2]>> /\ d[1] \in Messages /\ d[2] \in ChannelIds
        BY DEF Deliveries
    <2>2. /\ delivery' \in [Deliveries -> {"none", "post", "done"} \cup GivenStatuses]
          /\ \A d \in Deliveries : delivery'[d] = delivery[d] \/ (delivery[d] = "none" /\ delivery'[d] = "post")
        <3>1. DOMAIN delivery = Deliveries
            BY DEF ChannelTypes
        <3>2. ASSUME NEW d \in Deliveries, d[1] = m PROVE delivery[d] = "none"
            BY <1>6, <2>1, <3>2 DEF Unsent
        <3>3. delivery' = [d \in Deliveries |-> IF d[1] = m /\ d[2] \in them THEN "post" ELSE delivery[d]]
            BY <1>6, <3>1 DEF SentTo
        <3>4. \A d \in Deliveries : (d[1] = m /\ d[2] \in them) => delivery'[d] = "post"
            BY <3>3
        <3>5. \A d \in Deliveries : ~(d[1] = m /\ d[2] \in them) => delivery'[d] = delivery[d]
            BY <3>3
        <3>10. \A d \in Deliveries : delivery'[d] = delivery[d] \/ (delivery[d] = "none" /\ delivery'[d] = "post")
            <4> SUFFICES ASSUME NEW d \in Deliveries PROVE delivery'[d] = delivery[d] \/ (delivery[d] = "none" /\ delivery'[d] = "post")
                OBVIOUS
            <4>1. CASE d[1] = m /\ d[2] \in them
                BY <3>2, <3>4, <4>1, Zenon
            <4>2. CASE ~(d[1] = m /\ d[2] \in them)
                BY <3>5, <4>2, Zenon
            <4> QED BY <4>1, <4>2
        <3>6. \A d \in Deliveries : delivery[d] \in {"none", "post", "done"} \cup GivenStatuses
            BY DEF ChannelTypes
        <3>7. \A d \in Deliveries : delivery'[d] \in {"none", "post", "done"} \cup GivenStatuses
            BY <3>10, <3>6
        <3> QED BY <3>3, <3>10, <3>7
    <2>3. ChannelTypes' /\ LockHeld'
        BY <1>6, <2>2 DEF ChannelTypes, LockHeld, GivenStatuses
    <2> QED BY <1>1, <1>6, <2>2, <2>3 DEF GivenStatuses
<1>7. ASSUME NEW m \in Messages, NEW level, Sends(m, level) PROVE ChannelInv'
    <2>1. WhoWants(level) \in SUBSET ChannelIds
        BY DEF WhoWants, Listing
    <2> QED BY <1>6, <1>7, <2>1 DEF Sends
<1>8. ASSUME NEW m \in Messages, NEW c \in ChannelIds, Tests(m, c) PROVE ChannelInv'
    BY <1>6, <1>8 DEF Tests
<1>9. ASSUME NEW d \in Deliveries, NEW status \in GivenStatuses, ServiceAnswers(d, status) PROVE ChannelInv'
    <2>1. d[2] \in ChannelIds
        BY DEF Deliveries
    <2>2. ChannelTypes' /\ LockHeld'
        BY <1>9, <2>1 DEF ServiceAnswers, ChannelTypes, LockHeld, GivenStatuses
    <2>3. /\ outcomes' \in [ChannelIds -> SUBSET (GivenStatuses \cup {NeverTried})]
          /\ status \in outcomes'[d[2]] /\ \A c \in ChannelIds : outcomes[c] \subseteq outcomes'[c]
        BY <1>9, <2>1 DEF ServiceAnswers, ChannelTypes
    <2>4. \A e \in Deliveries : delivery'[e] = IF e = d THEN status ELSE delivery[e]
        BY <1>9 DEF ServiceAnswers, ChannelTypes
    <2>5. \A e \in Deliveries : e[2] \in ChannelIds
        BY DEF Deliveries
    <2>6. \A e \in Deliveries : delivery'[e] \in GivenStatuses => delivery'[e] \in outcomes'[e[2]]
        BY <2>3, <2>4, <2>5 DEF ChannelsSafe
    <2>7. ChannelsSafe'
        BY <1>9, <2>3, <2>6 DEF ServiceAnswers, ChannelsSafe, StatusGiven, SameSwitches, WithinLimit, Listing
    <2> QED BY <2>2, <2>7
<1>10. ASSUME NEW d \in Deliveries, DeliveryEnters(d) PROVE ChannelInv'
    <2>1. d \notin ChannelAdmins
        BY AdminsAreNotDeliveries DEF Deliveries
    <2>2. lockedBy' = [who |-> {d}, list |-> channels] /\ lockedBy.who = {} /\ delivery[d] \in GivenStatuses
        BY <1>10 DEF DeliveryEnters, Enters, NobodyInside, MayReport, GivenStatuses
    <2>3. ChannelTypes'
        BY <1>10, <2>2 DEF DeliveryEnters, ChannelTypes
    <2>4. LockHeld'
        BY <1>10, <2>1, <2>2 DEF DeliveryEnters, LockHeld
    <2> QED BY <1>1, <1>10, <2>3, <2>4 DEF DeliveryEnters
<1>11. ASSUME NEW d \in Deliveries, DeliverySaves(d) PROVE ChannelInv'
    <2> DEFINE c == d[2]  status == delivery[d]
    <2>1. c \in ChannelIds /\ lockedBy.list = channels /\ status \in GivenStatuses /\ status \in outcomes[c]
        <3>1. d \in lockedBy.who /\ d[2] \in ChannelIds
            BY <1>11 DEF DeliverySaves, Deliveries
        <3> QED BY <3>1 DEF LockHeld, ChannelsSafe
    <2>2. channels' = Noted(channels, c, status)
        BY <1>11, <2>1 DEF DeliverySaves
    <2> HIDE DEF c, status
    <2>3. ASSUME channels[c].there
          PROVE  /\ channels' \in [ChannelIds -> ChannelRow] /\ SameSwitches(channels', askedChannels)
                 /\ StatusGiven(channels') /\ WithinLimit(channels')
        <3>1. channels' = [channels EXCEPT ![c].status = status]
            BY <2>2, <2>3 DEF Noted
        <3>2. channels \in [ChannelIds -> ChannelRow] /\ askedChannels \in [ChannelIds -> ChannelRow]
            BY DEF ChannelTypes
        <3>3. \A e \in ChannelIds : channels'[e] = IF e = c THEN [channels[c] EXCEPT !.status = status] ELSE channels[e]
            BY <2>1, <3>1, <3>2
        <3>4. [channels[c] EXCEPT !.status = status] \in ChannelRow
            <4>1. channels[c] \in ChannelRow
                BY <2>1, <3>2
            <4> QED BY <2>1, <4>1 DEF ChannelRow
        <3>5. channels' = [channels EXCEPT ![c] = [channels[c] EXCEPT !.status = status]]
            BY <2>1, <3>1, <3>2
        <3>6. channels' \in [ChannelIds -> ChannelRow]
            BY <2>1, <3>2, <3>4, <3>5
        <3>7. SameSwitches(channels, askedChannels) /\ StatusGiven(channels) /\ WithinLimit(channels)
            BY DEF ChannelsSafe
        <3>8. SameSwitches(channels', askedChannels) /\ StatusGiven(channels') /\ WithinLimit(channels')
            BY <2>1, <3>2, <3>3, <3>6, <3>7, NotedAlike
        <3> QED BY <3>6, <3>8
    <2>4. /\ channels' \in [ChannelIds -> ChannelRow] /\ SameSwitches(channels', askedChannels)
          /\ StatusGiven(channels') /\ WithinLimit(channels')
        <3>1. CASE ~channels[c].there
            <4>1. channels' = channels
                BY <2>2, <3>1 DEF Noted
            <4> QED BY <4>1 DEF ChannelTypes, ChannelsSafe
        <3> QED BY <2>3, <3>1
    <2>5. NobodyIn \in [who : SUBSET (ChannelAdmins \cup Deliveries), list : [ChannelIds -> ChannelRow]]
        BY RowsAreRecords DEF NobodyIn, NoChannels
    <2>6. ChannelTypes'
        BY <1>11, <2>4, <2>5 DEF DeliverySaves, ChannelTypes
    <2>7. lockedBy' = NobodyIn /\ chAsk' = chAsk /\ \A r \in ChannelAdmins : chAsk[r].pc # "inside"
        <3>1. d \notin ChannelAdmins
            BY AdminsAreNotDeliveries DEF Deliveries
        <3> QED BY <1>11, <3>1 DEF DeliverySaves, LockHeld
    <2>8. LockHeld'
        BY <2>7 DEF LockHeld, NobodyIn
    <2>9. \A e \in Deliveries : delivery'[e] \in GivenStatuses => delivery'[e] = delivery[e]
        BY <1>11 DEF DeliverySaves, ChannelTypes, GivenStatuses
    <2>10. SameSwitches(channels', askedChannels') /\ StatusGiven(channels') /\ WithinLimit(channels')
        BY <1>11, <2>4 DEF DeliverySaves, ChannelsSafe, SameSwitches, StatusGiven, WithinLimit
    <2>11. ChannelsSafe'
        BY <1>11, <2>9, <2>10 DEF DeliverySaves, ChannelsSafe, StatusGiven, WithinLimit
    <2> QED BY <2>6, <2>8, <2>11
<1>12. CASE ChannelRestart
    <2>1. NoChannelWork \in ChannelRequest /\ NoChannelWork.pc = "idle"
        BY DEF NoChannelWork, ChannelRequest, Levels
    <2>2. NobodyIn \in [who : SUBSET (ChannelAdmins \cup Deliveries), list : [ChannelIds -> ChannelRow]]
        BY RowsAreRecords DEF NobodyIn, NoChannels
    <2>3. /\ delivery' \in [Deliveries -> {"none", "post", "done"} \cup GivenStatuses]
          /\ \A d \in Deliveries : delivery'[d] \notin GivenStatuses
        BY <1>12 DEF ChannelRestart, ChannelTypes, GivenStatuses
    <2>4. ChannelTypes'
        BY <1>12, <2>1, <2>2, <2>3 DEF ChannelRestart, ChannelTypes
    <2>5. LockHeld'
        BY <1>12, <2>1 DEF ChannelRestart, LockHeld, NobodyIn
    <2> QED BY <1>1, <1>12, <2>3, <2>4, <2>5 DEF ChannelRestart
<1>13. CASE UNCHANGED channelVars
    BY <1>1, <1>13 DEF channelVars, ChannelTypes, LockHeld
<1> QED BY <1>2, <1>3, <1>4, <1>5, <1>7, <1>8, <1>9, <1>10, <1>11, <1>12, <1>13 DEF ChannelNext, Deliveries, GivenStatuses

LEMMA SafeChannels == ChannelInv => ChannelsAreKept
    BY DEF ChannelInv, ChannelsSafe, SameSwitches, StatusGiven, WithinLimit, ChannelsAreKept, SwitchesOf, Listing

(* Deliveries that note their outcome and pages that change the list go       *)
(* through one lock (notify.py), so neither loses what the other wrote: the   *)
(* channels stay as requests left them, within the limit.                     *)
THEOREM ChannelsStay == ChannelSpec => []ChannelsAreKept
<1>1. ChannelSpec => []ChannelInv
    BY ChannelStarts, ChannelSteps, PTL DEF ChannelSpec
<1> QED BY <1>1, SafeChannels, PTL

-----------------------------------------------------------------------------
(* The settings of e-mail. While posts come alone the one at work carries     *)
(* what was asked for; whatever happens, a switch that is on anywhere was     *)
(* once asked to be.                                                          *)
MailSettings == [on : BOOLEAN, pass : {"", "secret"}, report : BOOLEAN]
MailFileType == [text : {"none", "empty", "torn", "json"}, settings : MailSettings]
MailFormType == [pc : {"idle", "loaded", "opened", "written"}, new : MailSettings, into : {"none", "tmp", "file", "gone"}]
MailTypes ==
    /\ mailFile \in MailFileType /\ mailTmp \in MailFileType
    /\ mailForm \in [MailForms -> MailFormType]
    /\ mail \in [Mails -> {"none", "scheduled", "send", "sent", "failed", "off"}]
    /\ mailAsked \in MailSettings /\ mailAlone \in BOOLEAN
    /\ mailWanted \subseteq {"smtp", "events"}

(* Where the settings of the one post at work are, while posts come alone.    *)
Carries(f) ==
    CASE mailForm[f].pc = "loaded"  -> mailForm[f].new = mailAsked
      [] mailForm[f].pc = "opened"  -> mailForm[f].new = mailAsked /\ mailForm[f].into = "tmp" /\ mailTmp = Truncated
      [] mailForm[f].pc = "written" -> mailTmp = MailText(mailAsked)
      [] mailForm[f].pc = "idle"    -> TRUE
PostsAlone ==
    mailAlone =>
        /\ \A f, g \in MailForms : mailForm[f].pc # "idle" /\ mailForm[g].pc # "idle" => f = g
        /\ \A f \in MailForms : Carries(f)
        /\ (\A f \in MailForms : mailForm[f].pc = "idle") => MailLoaded(mailFile) = mailAsked

(* A switch that is on anywhere was once asked to be.                         *)
Wanted(settings) == (settings.on => "smtp" \in mailWanted) /\ (settings.report => "events" \in mailWanted)
SwitchesWanted ==
    /\ Wanted(mailFile.settings) /\ Wanted(mailTmp.settings)
    /\ \A f \in MailForms : Wanted(mailForm[f].new)
    /\ \A m \in Mails : mail[m] \in {"scheduled", "send", "sent"} => mailWanted = {"smtp", "events"}

MailInv == MailTypes /\ PostsAlone /\ SwitchesWanted

LEMMA MailRecords ==
    /\ MailDefaults \in MailSettings /\ ~MailDefaults.on /\ ~MailDefaults.report
    /\ NoMailFile \in MailFileType /\ NoMailFile.text = "none" /\ NoMailFile.settings = MailDefaults
    /\ Truncated \in MailFileType /\ Truncated.text = "empty" /\ Truncated.settings = MailDefaults
    /\ Garbled \in MailFileType /\ Garbled.text = "torn" /\ Garbled.settings = MailDefaults
    /\ NoMailForm \in MailFormType /\ NoMailForm.pc = "idle" /\ NoMailForm.new = MailDefaults
<1>1. MailDefaults \in MailSettings /\ ~MailDefaults.on /\ ~MailDefaults.report
    BY DEF MailDefaults, MailSettings
<1> QED BY <1>1 DEF NoMailFile, Truncated, Garbled, NoMailForm, MailFileType, MailFormType

LEMMA TextsAreFiles ==
    \A s \in MailSettings : /\ MailText(s) \in MailFileType /\ MailText(s).text = "json" /\ MailText(s).settings = s
                            /\ MailLoaded(MailText(s)) = s
    BY DEF MailText, MailFileType, MailLoaded

LEMMA LoadedIsWanted ==
    ASSUME NEW file \in MailFileType, Wanted(file.settings)
    PROVE  MailLoaded(file) \in MailSettings /\ Wanted(MailLoaded(file))
    BY MailRecords DEF MailLoaded, MailFileType, Wanted

(* What the form changes is what the post asks for.                           *)
LEMMA ChangesAsAsked ==
    \A old \in MailSettings, section \in {"smtp", "events"}, on \in BOOLEAN, pass \in {"blank", "clear", "secret"} :
        /\ MailChanged(old, section, on, pass) \in MailSettings
        /\ MailChanged(old, section, on, pass) = MailAsked(old, section, on, pass)
        /\ MailChanged(old, section, on, pass).on => (section = "smtp" /\ on) \/ (section = "events" /\ old.on)
        /\ MailChanged(old, section, on, pass).report => (section = "events" /\ on) \/ (section = "smtp" /\ old.report)
<1> SUFFICES ASSUME NEW old \in MailSettings, NEW section \in {"smtp", "events"}, NEW on \in BOOLEAN,
                    NEW pass \in {"blank", "clear", "secret"}
             PROVE  /\ MailChanged(old, section, on, pass) \in MailSettings
                    /\ MailChanged(old, section, on, pass) = MailAsked(old, section, on, pass)
                    /\ MailChanged(old, section, on, pass).on => (section = "smtp" /\ on) \/ (section = "events" /\ old.on)
                    /\ MailChanged(old, section, on, pass).report => (section = "events" /\ on) \/ (section = "smtp" /\ old.report)
    OBVIOUS
<1>1. CASE section = "events"
    BY <1>1 DEF MailChanged, MailAsked, MailSettings
<1>2. CASE section = "smtp" /\ pass = "blank"
    BY <1>2 DEF MailChanged, MailAsked, MailSettings
<1>3. CASE section = "smtp" /\ pass = "clear"
    BY <1>3 DEF MailChanged, MailAsked, MailSettings
<1>4. CASE section = "smtp" /\ pass = "secret"
    BY <1>4 DEF MailChanged, MailAsked, MailSettings
<1> QED BY <1>1, <1>2, <1>3, <1>4

LEMMA ChangesAreAsked ==
    \A old \in MailSettings, section \in {"smtp", "events"}, on \in BOOLEAN, pass \in {"blank", "clear", "secret"} :
        MailChanged(old, section, on, pass) = MailAsked(old, section, on, pass)
    BY ChangesAsAsked

LEMMA MailStarts == MailInit => MailInv
    BY MailRecords DEF MailInit, MailInv, MailTypes, PostsAlone, SwitchesWanted, Carries, Wanted, MailLoaded

LEMMA MailSteps == MailInv /\ [MailNext]_mailVars => MailInv'
<1> SUFFICES ASSUME MailInv, [MailNext]_mailVars PROVE MailInv'
    OBVIOUS
<1> USE DEF MailInv
<1>1. ASSUME NEW f \in MailForms, FormLoads(f) PROVE MailInv'
    <2>1. PICK section \in {"smtp", "events"}, on \in BOOLEAN, pass \in {"blank", "clear", "secret"} :
              /\ mailForm' = [mailForm EXCEPT ![f] = [NoMailForm EXCEPT !.pc = "loaded",
                                                     !.new = MailChanged(MailLoaded(mailFile), section, on, pass)]]
              /\ mailAsked' = IF mailAlone' THEN MailAsked(mailAsked, section, on, pass) ELSE MailDefaults
              /\ mailWanted' = mailWanted \cup (IF on THEN {section} ELSE {})
        BY <1>1 DEF FormLoads
    <2> DEFINE new == MailChanged(MailLoaded(mailFile), section, on, pass)
               form == [NoMailForm EXCEPT !.pc = "loaded", !.new = new]
    <2>2. MailLoaded(mailFile) \in MailSettings /\ Wanted(MailLoaded(mailFile))
        BY LoadedIsWanted DEF MailTypes, SwitchesWanted
    <2>3. /\ new \in MailSettings /\ new = MailAsked(MailLoaded(mailFile), section, on, pass)
          /\ new.on => (section = "smtp" /\ on) \/ (section = "events" /\ MailLoaded(mailFile).on)
          /\ new.report => (section = "events" /\ on) \/ (section = "smtp" /\ MailLoaded(mailFile).report)
        <3> DEFINE old == MailLoaded(mailFile)
        <3>1. old \in MailSettings
            BY <2>2
        <3> HIDE DEF old
        <3>2. MailChanged(old, section, on, pass) \in MailSettings
            BY <3>1, ChangesAsAsked, Zenon
        <3>3. MailChanged(old, section, on, pass) = MailAsked(old, section, on, pass)
            BY <3>1, ChangesAreAsked
        <3>4. MailChanged(old, section, on, pass).on => (section = "smtp" /\ on) \/ (section = "events" /\ old.on)
            BY <3>1, ChangesAsAsked, Zenon
        <3>5. MailChanged(old, section, on, pass).report => (section = "events" /\ on) \/ (section = "smtp" /\ old.report)
            BY <3>1, ChangesAsAsked, Zenon
        <3> QED BY <3>2, <3>3, <3>4, <3>5 DEF old
    <2>4. mailForm' = [mailForm EXCEPT ![f] = form]
        BY <2>1
    <2> HIDE DEF new
    <2>5. form \in MailFormType /\ form.pc = "loaded" /\ form.new = new
        BY <2>3, MailRecords DEF MailFormType
    <2> HIDE DEF form
    <2>6. /\ mailWanted \subseteq mailWanted' /\ mailWanted' \subseteq {"smtp", "events"}
          /\ on => section \in mailWanted'
        BY <2>1 DEF MailTypes
    <2>7. MailAsked(mailAsked, section, on, pass) \in MailSettings
        <3> DEFINE old == mailAsked
        <3>1. old \in MailSettings
            BY DEF MailTypes
        <3> HIDE DEF old
        <3>2. MailChanged(old, section, on, pass) \in MailSettings
            BY <3>1, ChangesAsAsked, Zenon
        <3>3. MailChanged(old, section, on, pass) = MailAsked(old, section, on, pass)
            BY <3>1, ChangesAreAsked
        <3> QED BY <3>2, <3>3 DEF old
    <2>8. MailTypes'
        <3>1. mailAsked' \in MailSettings
            BY <2>1, <2>7, MailRecords
        <3>2. mailAlone' \in BOOLEAN /\ UNCHANGED <<mailFile, mailTmp, mail>>
            BY <1>1 DEF FormLoads
        <3> QED BY <2>4, <2>5, <2>6, <3>1, <3>2 DEF MailTypes
    <2>9. PostsAlone'
        <3> SUFFICES ASSUME mailAlone' PROVE /\ \A h, g \in MailForms : mailForm'[h].pc # "idle" /\ mailForm'[g].pc # "idle" => h = g
                                             /\ \A g \in MailForms : Carries(g)'
                                             /\ mailForm'[f].pc # "idle"
            BY DEF PostsAlone
        <3>1. mailAlone /\ \A g \in MailForms : mailForm[g].pc = "idle"
            BY <1>1 DEF FormLoads
        <3>2. mailAsked' = MailAsked(mailAsked, section, on, pass) /\ MailLoaded(mailFile) = mailAsked
            BY <2>1, <3>1 DEF PostsAlone
        <3>3. \A g \in MailForms : mailForm'[g] = IF g = f THEN form ELSE mailForm[g]
            BY <2>4 DEF MailTypes
        <3>4. Carries(f)'
            BY <2>3, <2>5, <3>2, <3>3 DEF Carries
        <3>5. \A g \in MailForms \ {f} : Carries(g)'
            BY <3>1, <3>3 DEF Carries
        <3> QED BY <2>5, <3>1, <3>3, <3>4, <3>5
    <2>10. SwitchesWanted'
        <3>1. \A s \in MailSettings : Wanted(s) => (s.on => "smtp" \in mailWanted') /\ (s.report => "events" \in mailWanted')
            BY <2>6 DEF Wanted
        <3>2. (new.on => "smtp" \in mailWanted') /\ (new.report => "events" \in mailWanted')
            BY <2>2, <2>3, <2>6, <3>1 DEF Wanted
        <3>3. /\ mailFile.settings \in MailSettings /\ mailTmp.settings \in MailSettings
              /\ \A g \in MailForms : mailForm[g].new \in MailSettings
            BY DEF MailTypes, MailFileType, MailFormType
        <3>4. \A g \in MailForms : mailForm'[g] = IF g = f THEN form ELSE mailForm[g]
            BY <2>4 DEF MailTypes
        <3>5. \A g \in MailForms : Wanted(mailForm[g].new)'
            BY <2>5, <3>1, <3>2, <3>3, <3>4 DEF SwitchesWanted, Wanted
        <3>6. UNCHANGED <<mailFile, mailTmp, mail>>
            BY <1>1 DEF FormLoads
        <3>7. \A m \in Mails : mail'[m] \in {"scheduled", "send", "sent"} => mailWanted' = {"smtp", "events"}
            BY <2>6, <3>6 DEF SwitchesWanted
        <3>8. Wanted(mailFile.settings)' /\ Wanted(mailTmp.settings)'
            BY <3>1, <3>3, <3>6 DEF SwitchesWanted, Wanted
        <3> QED BY <3>5, <3>7, <3>8 DEF SwitchesWanted
    <2> QED BY <2>8, <2>9, <2>10
\* The other steps leave what was asked for and wanted alone.
<1>2. ASSUME UNCHANGED <<mailAsked, mailAlone, mailWanted>>, MailTypes', PostsAlone',
             Wanted(mailFile'.settings), Wanted(mailTmp'.settings), \A f \in MailForms : Wanted(mailForm'[f].new),
             \A m \in Mails : mail'[m] \in {"scheduled", "send", "sent"} => mailWanted = {"smtp", "events"}
      PROVE  MailInv'
    BY <1>2 DEF SwitchesWanted, Wanted
<1>3. ASSUME NEW f \in MailForms, FormOpens(f) PROVE MailInv'
    <2> DEFINE form == [mailForm[f] EXCEPT !.pc = "opened", !.into = "tmp"]
    <2>1. /\ form \in MailFormType /\ form.pc = "opened" /\ form.into = "tmp" /\ form.new = mailForm[f].new
        BY DEF MailTypes, MailFormType
    <2>2. \A g \in MailForms : mailForm'[g] = IF g = f THEN form ELSE mailForm[g]
        BY <1>3 DEF FormOpens, MailTypes
    <2>3. mailForm' = [mailForm EXCEPT ![f] = form]
        BY <1>3 DEF FormOpens, MailTypes
    <2> HIDE DEF form
    <2>4. MailTypes'
        BY <1>3, <2>1, <2>3, MailRecords DEF FormOpens, MailTypes
    <2>5. PostsAlone'
        <3>1. \A g \in MailForms : mailForm'[g].pc = "idle" <=> mailForm[g].pc = "idle"
            BY <1>3, <2>1, <2>2 DEF FormOpens
        <3>2. ASSUME mailAlone PROVE \A g \in MailForms \ {f} : mailForm[g].pc = "idle"
            BY <1>3, <3>2 DEF FormOpens, PostsAlone
        <3>3. ASSUME mailAlone PROVE Carries(f)'
            <4>1. mailForm[f].new = mailAsked
                BY <1>3, <3>3 DEF FormOpens, PostsAlone, Carries
            <4>2. mailForm'[f].pc = "opened" /\ mailForm'[f].new = mailAsked /\ mailForm'[f].into = "tmp"
                BY <2>1, <2>2, <4>1
            <4> QED BY <1>3, <4>2 DEF FormOpens, Carries
        <3>4. mailAlone => \A g \in MailForms \ {f} : Carries(g)'
            BY <3>1, <3>2 DEF Carries
        <3> QED BY <1>3, <3>1, <3>3, <3>4 DEF FormOpens, PostsAlone
    <2>6. \A g \in MailForms : Wanted(mailForm'[g].new)
        BY <2>1, <2>2 DEF SwitchesWanted
    <2>7. Wanted(mailTmp'.settings) /\ Wanted(mailFile'.settings)
        BY <1>3, MailRecords DEF FormOpens, SwitchesWanted, Wanted
    <2> QED BY <1>2, <1>3, <2>4, <2>5, <2>6, <2>7 DEF FormOpens, SwitchesWanted
<1>4. ASSUME NEW f \in MailForms, FormWrites(f) PROVE MailInv'
    <2> DEFINE form == [mailForm[f] EXCEPT !.pc = "written"]  new == mailForm[f].new
    <2>1. /\ form \in MailFormType /\ form.pc = "written" /\ form.new = mailForm[f].new /\ new \in MailSettings
        BY DEF MailTypes, MailFormType
    <2>2. \A g \in MailForms : mailForm'[g] = IF g = f THEN form ELSE mailForm[g]
        BY <1>4 DEF FormWrites, MailTypes
    <2>3. mailForm' = [mailForm EXCEPT ![f] = form]
        BY <1>4 DEF FormWrites, MailTypes
    <2>4. /\ mailTmp' \in {mailTmp, MailText(new), Garbled} /\ mailFile' \in {mailFile, MailText(new), Garbled}
          /\ mailForm[f].into = "tmp" => mailTmp' \in WrittenOver(mailTmp, new) /\ mailFile' = mailFile
        BY <1>4 DEF FormWrites, WrittenOver
    <2> HIDE DEF form, new
    <2>5. MailTypes'
        BY <1>4, <2>1, <2>3, <2>4, MailRecords, TextsAreFiles DEF FormWrites, MailTypes
    <2>6. PostsAlone'
        <3>1. \A g \in MailForms : mailForm'[g].pc = "idle" <=> mailForm[g].pc = "idle"
            BY <1>4, <2>1, <2>2 DEF FormWrites
        <3>2. ASSUME mailAlone PROVE \A g \in MailForms \ {f} : mailForm[g].pc = "idle"
            BY <1>4, <3>2 DEF FormWrites, PostsAlone
        <3>3. ASSUME mailAlone PROVE Carries(f)'
            <4>1. new = mailAsked /\ mailForm[f].into = "tmp" /\ mailTmp = Truncated
                BY <1>4, <3>3 DEF FormWrites, PostsAlone, Carries, new
            <4>2. mailTmp' = MailText(mailAsked)
                BY <2>4, <4>1 DEF WrittenOver
            <4> QED BY <1>4, <2>1, <2>2, <4>2 DEF FormWrites, Carries
        <3>4. mailAlone => \A g \in MailForms \ {f} : Carries(g)'
            BY <3>1, <3>2 DEF Carries
        <3>5. mailForm'[f].pc # "idle"
            BY <2>1, <2>2
        <3> QED BY <1>4, <3>1, <3>3, <3>4, <3>5 DEF FormWrites, PostsAlone
    <2>7. Wanted(new) /\ Wanted(MailDefaults)
        BY MailRecords DEF SwitchesWanted, Wanted, new
    <2>8. Wanted(mailFile'.settings) /\ Wanted(mailTmp'.settings)
        BY <2>1, <2>4, <2>7, MailRecords, TextsAreFiles DEF SwitchesWanted
    <2>9. \A g \in MailForms : Wanted(mailForm'[g].new)
        BY <2>1, <2>2 DEF SwitchesWanted
    <2> QED BY <1>2, <1>4, <2>5, <2>6, <2>8, <2>9 DEF FormWrites, SwitchesWanted
<1>5. ASSUME NEW f \in MailForms, FormReplaces(f) PROVE MailInv'
    <2>1. CASE mailTmp = NoMailFile
        <3>1. mailForm' = [mailForm EXCEPT ![f] = NoMailForm] /\ UNCHANGED <<mailFile, mailTmp>>
            BY <1>5, <2>1 DEF FormReplaces
        <3>2. ~mailAlone
            <4>1. mailAlone => mailTmp = MailText(mailAsked)
                BY <1>5 DEF FormReplaces, PostsAlone, Carries
            <4> QED BY <2>1, <4>1, MailRecords, TextsAreFiles DEF MailTypes
        <3>3. MailTypes'
            BY <1>5, <3>1, MailRecords DEF FormReplaces, MailTypes
        <3>4. \A g \in MailForms : Wanted(mailForm'[g].new)
            BY <3>1, MailRecords DEF SwitchesWanted, Wanted, MailTypes
        <3> QED BY <1>2, <1>5, <3>1, <3>2, <3>3, <3>4 DEF FormReplaces, SwitchesWanted, PostsAlone
    <2>2. CASE mailTmp # NoMailFile
        <3>1. /\ mailFile' = mailTmp /\ mailTmp' = NoMailFile
              /\ mailForm' = [g \in MailForms |-> IF g = f THEN NoMailForm ELSE [mailForm[g] EXCEPT !.into = AfterRename(@)]]
            BY <1>5, <2>2 DEF FormReplaces
        <3>2. \A g \in MailForms : LET renamed == [mailForm[g] EXCEPT !.into = AfterRename(@)] IN
                  /\ renamed \in MailFormType /\ renamed.pc = mailForm[g].pc /\ renamed.new = mailForm[g].new
            BY DEF MailTypes, MailFormType, AfterRename
        <3>3. MailTypes'
            BY <1>5, <3>1, <3>2, MailRecords DEF FormReplaces, MailTypes
        <3>4. PostsAlone'
            <4> SUFFICES ASSUME mailAlone PROVE PostsAlone'
                BY <1>5 DEF FormReplaces, PostsAlone
            <4>1. mailTmp = MailText(mailAsked) /\ \A g \in MailForms \ {f} : mailForm[g].pc = "idle"
                BY <1>5 DEF FormReplaces, PostsAlone, Carries
            <4>2. \A g \in MailForms : mailForm'[g].pc = "idle"
                BY <3>1, <3>2, <4>1, MailRecords
            <4>3. MailLoaded(mailFile') = mailAsked
                BY <3>1, <4>1, TextsAreFiles DEF MailTypes
            <4> QED BY <1>5, <4>2, <4>3 DEF FormReplaces, PostsAlone, Carries
        <3>5. \A g \in MailForms : Wanted(mailForm'[g].new)
            BY <3>1, <3>2, MailRecords DEF SwitchesWanted, Wanted
        <3>6. Wanted(mailFile'.settings) /\ Wanted(mailTmp'.settings)
            BY <3>1, MailRecords DEF SwitchesWanted, Wanted
        <3> QED BY <1>2, <1>5, <3>3, <3>4, <3>5, <3>6 DEF FormReplaces, SwitchesWanted
    <2> QED BY <2>1, <2>2
<1>6. ASSUME NEW m \in Mails, NEW next \in {"scheduled", "send"}, MailPasses(m, next) PROVE MailInv'
    <2>1. mail' = [mail EXCEPT ![m] = IF ReportEnabled THEN next ELSE "off"]
        BY <1>6 DEF MailPasses
    <2>2. ReportEnabled => mailWanted = {"smtp", "events"}
        BY LoadedIsWanted DEF ReportEnabled, SwitchesWanted, Wanted, MailTypes
    <2>3. MailTypes'
        BY <1>6, <2>1 DEF MailPasses, MailTypes
    <2>4. \A n \in Mails : mail'[n] \in {"scheduled", "send", "sent"} => mailWanted = {"smtp", "events"}
        BY <2>1, <2>2 DEF SwitchesWanted, MailTypes
    <2> QED BY <1>2, <1>6, <2>3, <2>4 DEF MailPasses, SwitchesWanted, PostsAlone, Carries
<1>7. ASSUME NEW m \in Mails, MailSent(m) PROVE MailInv'
    <2>1. MailTypes'
        BY <1>7 DEF MailSent, MailTypes
    <2>2. \A n \in Mails : mail'[n] \in {"scheduled", "send", "sent"} => mailWanted = {"smtp", "events"}
        BY <1>7 DEF MailSent, SwitchesWanted, MailTypes
    <2> QED BY <1>2, <1>7, <2>1, <2>2 DEF MailSent, SwitchesWanted, PostsAlone, Carries
<1>8. CASE MailRestart
    <2>1. \A f \in MailForms : mailForm'[f] = NoMailForm
        BY <1>8 DEF MailRestart
    <2>2. MailLoaded(mailFile) \in MailSettings
        BY LoadedIsWanted DEF MailTypes, SwitchesWanted
    <2>3. MailTypes'
        BY <1>8, <2>2, MailRecords DEF MailRestart, MailTypes
    <2>4. PostsAlone'
        BY <1>8, <2>1, MailRecords DEF MailRestart, PostsAlone, Carries, MailLoaded
    <2>5. SwitchesWanted'
        BY <1>8, <2>1, MailRecords DEF MailRestart, SwitchesWanted, Wanted, MailTypes
    <2> QED BY <2>3, <2>4, <2>5
<1>9. CASE UNCHANGED mailVars
    BY <1>2, <1>9 DEF mailVars, MailTypes, PostsAlone, Carries, SwitchesWanted
<1> QED BY <1>1, <1>3, <1>4, <1>5, <1>6, <1>7, <1>8, <1>9 DEF MailNext, MailScheduled, MailWritten

(* email_config.py renames a complete file over the old one: as long as       *)
(* posts come one at a time the settings are what they asked for, and a       *)
(* report leaves only when posts switched e-mail and reports on.              *)
THEOREM MailSettingsStay == MailSpec => []MailSettingsAreKept
<1>1. MailSpec => []MailInv
    BY MailStarts, MailSteps, PTL DEF MailSpec
<1>2. MailInv => MailSettingsAreKept
    BY DEF MailInv, PostsAlone, SwitchesWanted, MailSettingsAreKept
<1> QED BY <1>1, <1>2, PTL

(* What administrators set up for notifications and e-mail stays as they      *)
(* left it (notify.py, email_config.py).                                      *)
THEOREM SettingsStayKept == ChannelSpec /\ MailSpec => []SettingsAreKept
<1> QED
    BY ChannelsStay, MailSettingsStay, PTL DEF SettingsAreKept
=============================================================================

---------------------------- MODULE VersionCheck ----------------------------
(***************************************************************************)
(* The notice of a new FleetPilot version (version_manager.py and its      *)
(* routes): a check loads version_check.json, asks GitHub for the latest   *)
(* release and perhaps for the newest commit, and saves what it found; a   *)
(* click on "dismiss" loads and saves the same file.  Nothing is locked,   *)
(* and a save truncates the file before it writes it.                      *)
(***************************************************************************)
EXTENDS Integers

CONSTANTS VersionChecks, \* requests that check
          Dismissals,    \* requests that dismiss
          MaxCommits,    \* how far the repository grows
          MaxReleases    \* how many releases it has

VARIABLES versionFile,   \* version_check.json
          runningCommit, \* the commit that runs, 0 where git cannot tell
          github,        \* the newest commit, the latest release and what it points to
          checking,      \* what each check is at
          dismissing,    \* what each dismissal is at
          announced,     \* history: what plugins were told last, and whether that was twice the same
          noticed,       \* history: every release and commit that a check found newer
          expected,      \* history: the notice that is due
          versionAlone   \* history: no two requests were ever at work together, nor cut off
versionVars == <<versionFile, runningCommit, github, checking, dismissing, announced, noticed, expected, versionAlone>>

NoNotice == [type |-> "none", version |-> 0]
NoData == [available |-> FALSE, type |-> "none", latest |-> 0, dismissed |-> FALSE]
NoVersionFile == [text |-> "none", data |-> NoData]
CutShort == [text |-> "cut", data |-> NoData]   \* truncated, or what two writers left: no JSON
VersionText(data) == [text |-> "json", data |-> data]
NotChecking == [pc |-> "idle", data |-> NoData, sha |-> 0, found |-> FALSE, before |-> 0]
NotDismissing == [pc |-> "idle", data |-> NoData]

VersionInit ==
    /\ versionFile = NoVersionFile /\ runningCommit \in {0, 1}
    /\ github = [head |-> 1, release |-> 0, target |-> 0]
    /\ checking = [r \in VersionChecks |-> NotChecking]
    /\ dismissing = [r \in Dismissals |-> NotDismissing]
    /\ announced = [last |-> 0, again |-> FALSE]
    /\ noticed = {} /\ expected = NoNotice /\ versionAlone = TRUE

(* load_version_data(): what cannot be read is the defaults.                    *)
VersionData(file) == IF file.text = "json" THEN file.data ELSE NoData

(* get_update_notification()                                                    *)
Notice(file) ==
    LET data == VersionData(file)
    IN  IF data.available /\ ~data.dismissed THEN [type |-> data.type, version |-> data.latest] ELSE NoNotice

NobodyAtWork == /\ \A r \in VersionChecks : checking[r].pc = "idle"
                /\ \A r \in Dismissals : dismissing[r].pc = "idle"

(* A write over what another request wrote since the file was truncated: the    *)
(* longer text shows behind.                                                    *)
WrittenInto(file, data) == {VersionText(data)} \cup (IF file = CutShort THEN {} ELSE {CutShort})

-----------------------------------------------------------------------------
(* The repository grows; a release points to a commit or to a branch, which is  *)
(* never the commit that runs.  Commits and releases are numbered, a release's  *)
(* tag is told from a commit by its sign.                                       *)
Pushed ==
    /\ github.head < MaxCommits /\ github' = [github EXCEPT !.head = @ + 1]
    /\ UNCHANGED <<versionFile, runningCommit, checking, dismissing, announced, noticed, expected, versionAlone>>
Released ==
    /\ github.release < MaxReleases
    /\ \E target \in {github.head, 0} : github' = [github EXCEPT !.release = @ + 1, !.target = target]
    /\ UNCHANGED <<versionFile, runningCommit, checking, dismissing, announced, noticed, expected, versionAlone>>
Tag(release) == -release

(* The process stops, perhaps to start as another commit.                       *)
VersionRestart ==
    /\ runningCommit' \in {runningCommit} \cup (IF runningCommit = 0 THEN {} ELSE {github.head})
    /\ checking' = [r \in VersionChecks |-> NotChecking]
    /\ dismissing' = [r \in Dismissals |-> NotDismissing]
    /\ versionAlone' = (versionAlone /\ NobodyAtWork)
    /\ UNCHANGED <<versionFile, github, announced, noticed, expected>>

-----------------------------------------------------------------------------
CheckStarts(r) ==
    /\ checking[r].pc = "idle"
    /\ LET data == VersionData(versionFile)
       IN  checking' = [checking EXCEPT ![r] = [pc |-> "release", data |-> data, sha |-> runningCommit,
                                                found |-> FALSE, before |-> data.latest]]
    /\ versionAlone' = (versionAlone /\ NobodyAtWork)
    /\ UNCHANGED <<versionFile, runningCommit, github, dismissing, announced, noticed, expected>>

\* Mutant: what was dismissed stays so, whatever is found.
FoundDismissed(data, type, version) == [data EXCEPT !.available = TRUE, !.type = type, !.latest = version]

Found(data, type, version) == [available |-> TRUE, type |-> type, latest |-> version, dismissed |-> FALSE]

Finds(r, type, version) ==
    /\ checking' = [checking EXCEPT ![r].pc = "save", ![r].data = Found(@, type, version), ![r].found = TRUE]
    /\ expected' = [type |-> type, version |-> version] /\ noticed' = noticed \cup {expected'}

(* The latest release, unless it is what runs, there is none, the answer is no  *)
(* success, or git told nothing.                                                *)
ReleaseAnswers(r) ==
    /\ checking[r].pc = "release"
    /\ \/ /\ github.release > 0 /\ checking[r].sha > 0 /\ github.target # checking[r].sha
          /\ Finds(r, "release", Tag(github.release))
       \/ checking' = [checking EXCEPT ![r].pc = "commit"] /\ UNCHANGED <<expected, noticed>>
    /\ UNCHANGED <<versionFile, runningCommit, github, dismissing, announced, versionAlone>>

(* The newest commit of the branch.                                             *)
CommitAnswers(r) ==
    /\ checking[r].pc = "commit"
    /\ IF checking[r].sha > 0 /\ github.head # checking[r].sha THEN Finds(r, "commit", github.head)
       ELSE /\ checking' = [checking EXCEPT ![r].pc = "save", ![r].data.available = FALSE, ![r].data.type = "none"]
            /\ expected' = NoNotice /\ UNCHANGED noticed
    /\ UNCHANGED <<versionFile, runningCommit, github, dismissing, announced, versionAlone>>

(* A request that fails, or a commit that GitHub does not know: what was loaded *)
(* is saved as it was.                                                          *)
VersionCheckFails(r) ==
    /\ checking[r].pc \in {"release", "commit"}
    /\ checking' = [checking EXCEPT ![r].pc = "save"]
    /\ UNCHANGED <<versionFile, runningCommit, github, dismissing, announced, noticed, expected, versionAlone>>

(* save_version_data(): open(..., "w"), then json.dump().                       *)
CheckOpens(r) ==
    /\ checking[r].pc = "save" /\ versionFile' = CutShort
    /\ checking' = [checking EXCEPT ![r].pc = "write"]
    /\ UNCHANGED <<runningCommit, github, dismissing, announced, noticed, expected, versionAlone>>

CheckWrites(r) ==
    /\ checking[r].pc = "write" /\ versionFile' \in WrittenInto(versionFile, checking[r].data)
    /\ checking' = [checking EXCEPT ![r] = IF @.found THEN [@ EXCEPT !.pc = "announce"] ELSE NotChecking]
    /\ UNCHANGED <<runningCommit, github, dismissing, announced, noticed, expected, versionAlone>>

(* _notify_new_version()                                                        *)
Announces(r) ==
    /\ checking[r].pc = "announce"
    /\ LET latest == checking[r].data.latest
       IN  announced' = IF latest = checking[r].before THEN announced
                        ELSE [last |-> latest, again |-> announced.again \/ latest = announced.last]
    /\ checking' = [checking EXCEPT ![r] = NotChecking]
    /\ UNCHANGED <<versionFile, runningCommit, github, dismissing, noticed, expected, versionAlone>>

-----------------------------------------------------------------------------
(* dismiss_notification()                                                       *)
DismissLoads(r) ==
    /\ dismissing[r].pc = "idle"
    /\ dismissing' = [dismissing EXCEPT ![r] = [pc |-> "save", data |-> [VersionData(versionFile) EXCEPT !.dismissed = TRUE]]]
    /\ versionAlone' = (versionAlone /\ NobodyAtWork)
    /\ expected' = NoNotice
    /\ UNCHANGED <<versionFile, runningCommit, github, checking, announced, noticed>>

DismissOpens(r) ==
    /\ dismissing[r].pc = "save" /\ versionFile' = CutShort
    /\ dismissing' = [dismissing EXCEPT ![r].pc = "write"]
    /\ UNCHANGED <<runningCommit, github, checking, announced, noticed, expected, versionAlone>>

DismissWrites(r) ==
    /\ dismissing[r].pc = "write" /\ versionFile' \in WrittenInto(versionFile, dismissing[r].data)
    /\ dismissing' = [dismissing EXCEPT ![r] = NotDismissing]
    /\ UNCHANGED <<runningCommit, github, checking, announced, noticed, expected, versionAlone>>

VersionNext ==
    \/ Pushed \/ Released \/ VersionRestart
    \/ \E r \in VersionChecks : \/ CheckStarts(r) \/ ReleaseAnswers(r) \/ CommitAnswers(r) \/ VersionCheckFails(r)
                                \/ CheckOpens(r) \/ CheckWrites(r) \/ Announces(r)
    \/ \E r \in Dismissals : DismissLoads(r) \/ DismissOpens(r) \/ DismissWrites(r)

VersionSpec == VersionInit /\ [][VersionNext]_versionVars

(* Checks and dismissals that overlap, fail or are cut off can lose a notice or *)
(* a dismissal, but what a page shows is a release or a commit that a check     *)
(* found newer, under its own kind.  As long as they come one at a time the     *)
(* page shows what the last check that GitHub answered found and nobody         *)
(* dismissed since, and plugins are never told the same version twice in a row. *)
NoticesAreTrue ==
    /\ Notice(versionFile) \in noticed \cup {NoNotice}
    /\ versionAlone => ~announced.again /\ (NobodyAtWork => Notice(versionFile) = expected)
=============================================================================

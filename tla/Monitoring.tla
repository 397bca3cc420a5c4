----------------------------- MODULE Monitoring -----------------------------
(***************************************************************************)
(* What monitoring systems are told (checkmk_integration.py, metrics.py and*)
(* their routes in app.py) and the token they show.  The token is a file   *)
(* that is made when it is first needed and when an administrator wants    *)
(* another; no lock is taken, and a write truncates the file first.  The   *)
(* agent's output, the piggyback data of a host, the status and the metrics*)
(* are made from one reading of the SMART registry each.                   *)
(***************************************************************************)
EXTENDS Integers

CONSTANTS Askers,      \* requests of pages, monitoring systems and administrators
          MaxTokens,   \* bound: tokens that are made
          NumSources,  \* sources of disks, numbered as their names are sorted
          DiskNames,   \* what the sources call their disks
          DiskHealths, \* what a disk's last snapshot can say
          HostNames,   \* the hosts of the host list, none called like a source
          EndpointNames \* the VM and storage endpoints

ASSUME SourcesAssumption == NumSources \in Nat

VARIABLES tokenFile,   \* .checkmk_token
          made,        \* tokens made so far: each is a new one
          asking,      \* what each request is at
          disksListed, \* the registry: the health of each source's disk of a name
          shownToken,  \* history: the token that a page showed last, 0 after another was asked for
          retired,     \* history: tokens that were once in the file and replaced
          tokenAlone,  \* history: no two requests were at the token together, nor was a write cut off
          answer       \* history: the last answer, until the registry changes
monitoringVars == <<tokenFile, made, asking, disksListed, shownToken, retired, tokenAlone, answer>>

Sources == 1..NumSources
NoTokenFile == 0   \* no file
Blank == -1    \* truncated, not written yet
Unlisted == "unlisted"
NotAsking == [pc |-> "idle", kind |-> "page", presented |-> 0, mine |-> 0, old |-> {}]
NoAnswer == [kind |-> "none", lines |-> {}, failed |-> {}, overall |-> "OK"]

MonitoringInit ==
    /\ tokenFile = NoTokenFile /\ made = 0
    /\ asking = [r \in Askers |-> NotAsking]
    /\ disksListed = [x \in Sources \X DiskNames |-> Unlisted]
    /\ shownToken = 0 /\ retired = {} /\ tokenAlone = TRUE /\ answer = NoAnswer

AtToken(r) == asking[r].pc \in {"token", "missed", "write", "has"}

-----------------------------------------------------------------------------
(* A page, or a monitoring system with one of the tokens there ever were.       *)
Asks(r) ==
    /\ asking[r].pc = "idle"
    /\ \/ asking' = [asking EXCEPT ![r] = [NotAsking EXCEPT !.pc = "token"]]
       \/ \E t \in 1..made : asking' = [asking EXCEPT ![r] = [NotAsking EXCEPT !.pc = "token", !.kind = "monitor",
                                                               !.presented = t, !.old = retired]]
    /\ tokenAlone' = (tokenAlone /\ \A q \in Askers : ~AtToken(q))
    /\ UNCHANGED <<tokenFile, made, disksListed, shownToken, retired, answer>>

(* _get_or_create_cmk_token() reads the file ...                                *)
ReadsToken(r) ==
    /\ asking[r].pc = "token"
    /\ asking' = [asking EXCEPT ![r] = IF tokenFile > 0 THEN [@ EXCEPT !.pc = "has", !.mine = tokenFile]
                                       ELSE [@ EXCEPT !.pc = "missed"]]
    /\ UNCHANGED <<tokenFile, made, disksListed, shownToken, retired, tokenAlone, answer>>

(* ... and if there was no token in it makes one and opens the file, whatever is*)
(* in it by now.                                                                *)
Replaced(file) == IF file > 0 THEN retired \cup {file} ELSE retired
OpensToken ==
    /\ made < MaxTokens /\ made' = made + 1
    /\ tokenFile' = Blank /\ retired' = Replaced(tokenFile)
    /\ UNCHANGED <<disksListed, answer>>

MakesToken(r) ==
    /\ asking[r].pc = "missed" /\ OpensToken
    /\ asking' = [asking EXCEPT ![r].pc = "write", ![r].mine = made']
    /\ UNCHANGED <<shownToken, tokenAlone>>

(* checkmk_regenerate_token(): an administrator wants another.                  *)
Regenerates(r) ==
    /\ asking[r].pc = "idle" /\ OpensToken
    /\ asking' = [asking EXCEPT ![r] = [NotAsking EXCEPT !.pc = "write", !.kind = "admin", !.mine = made']]
    /\ shownToken' = 0
    /\ tokenAlone' = (tokenAlone /\ \A q \in Askers : ~AtToken(q))

\* Mutant: the token of a page is not written.
NotWritten(kind, token) == IF kind = "page" THEN Blank ELSE token

(* All tokens are 64 characters: the last write is what the file holds.         *)
Written(kind, token) == token

WritesToken(r) ==
    /\ asking[r].pc = "write"
    /\ tokenFile' = Written(asking[r].kind, asking[r].mine) /\ retired' = Replaced(tokenFile)
    /\ asking' = [asking EXCEPT ![r] = IF @.kind = "admin" THEN NotAsking ELSE [@ EXCEPT !.pc = "has"]]
    /\ UNCHANGED <<made, disksListed, shownToken, tokenAlone, answer>>

(* A page shows the token; a monitoring system is refused or let in.            *)
ShowsToken(r) ==
    /\ asking[r].pc = "has" /\ asking[r].kind = "page" /\ shownToken' = asking[r].mine
    /\ asking' = [asking EXCEPT ![r].pc = "let in"]
    /\ UNCHANGED <<tokenFile, made, disksListed, retired, tokenAlone, answer>>

ChecksToken(r) ==
    /\ asking[r].pc = "has" /\ asking[r].kind = "monitor"
    /\ asking' = [asking EXCEPT ![r] = IF @.presented = @.mine THEN [@ EXCEPT !.pc = "let in"] ELSE NotAsking]
    /\ UNCHANGED <<tokenFile, made, disksListed, shownToken, retired, tokenAlone, answer>>

-----------------------------------------------------------------------------
(* register_disk() and _save_snapshot(): a source has a disk of that name, with *)
(* that health, "unread" before the first snapshot.  Nothing removes it.        *)
DiskSeen(x, health) ==
    /\ health = "unread" => disksListed[x] = Unlisted
    /\ disksListed' = [disksListed EXCEPT ![x] = health] /\ answer' = NoAnswer
    /\ UNCHANGED <<tokenFile, made, asking, shownToken, retired, tokenAlone>>

Rows(reg) == {x \in DOMAIN reg : reg[x] # Unlisted}
Failing == {"CRITICAL", "FAILED"}

(* get_all_disks() comes ordered by source; of the disks of one name the last   *)
(* is the one that CheckMK is told of.                                          *)
LastOf(reg, d) == CHOOSE s \in Sources : <<s, d>> \in Rows(reg) /\ \A q \in Sources : <<q, d>> \in Rows(reg) => q <= s
ByName(reg) == [d \in {x[2] : x \in Rows(reg)} |-> reg[<<LastOf(reg, d), d>>]]

\* Mutant: FAILED is not in the list of states.
StateForgotten(health) == CASE health = "CRITICAL" -> 2 [] health = "WARNING" -> 1 [] health = "GOOD" -> 0 [] OTHER -> 3

DiskState(health) == CASE health \in Failing -> 2 [] health = "WARNING" -> 1 [] health = "GOOD" -> 0 [] OTHER -> 3

Line(service, of, state) == [service |-> service, of |-> of, state |-> state]
DiskLines(reg) == {Line("disk", d, DiskState(ByName(reg)[d])) : d \in DOMAIN ByName(reg)}

(* No host of the list has a status or pending updates, no endpoint a           *)
(* "connected": these are lines of unknown hosts, none to update, and           *)
(* unreachable endpoints.                                                       *)
HostLines == {Line("host", h, 3) : h \in HostNames} \cup {Line("updates", h, 0) : h \in HostNames}
EndpointLines == {Line("endpoint", e, 2) : e \in EndpointNames}

(* build_agent_output() and build_host_piggyback(), whose disks are those of a  *)
(* source with the host's name: there is none.                                  *)
AgentAnswer(reg) == [NoAnswer EXCEPT !.kind = "agent", !.lines = DiskLines(reg) \cup HostLines \cup EndpointLines]
PiggybackAnswer(reg) == [NoAnswer EXCEPT !.kind = "piggyback", !.lines = HostLines]

(* build_status_json()                                                          *)
Failed(reg) == {d \in DOMAIN ByName(reg) : ByName(reg)[d] \in Failing}
StatusAnswer(reg) ==
    [NoAnswer EXCEPT !.kind = "status", !.failed = Failed(reg),
                     !.overall = IF Failed(reg) # {} THEN "CRITICAL" ELSE IF HostNames # {} THEN "WARNING" ELSE "OK"]

(* metrics.render(): a line for each row, healthy or not, or none before the    *)
(* first snapshot.                                                              *)
MetricsAnswer(reg) ==
    [NoAnswer EXCEPT !.kind = "metrics",
                     !.lines = {Line("healthy", x, IF reg[x] = "GOOD" THEN 1 ELSE 0) : x \in {y \in Rows(reg) : reg[y] # "unread"}}]

TellsMonitoring(r) ==
    /\ asking[r].pc = "let in"
    /\ answer' \in IF asking[r].kind = "page" THEN {StatusAnswer(disksListed), answer}
                   ELSE {AgentAnswer(disksListed), PiggybackAnswer(disksListed),
                         StatusAnswer(disksListed), MetricsAnswer(disksListed)}
    /\ asking' = [asking EXCEPT ![r] = NotAsking]
    /\ UNCHANGED <<tokenFile, made, disksListed, shownToken, retired, tokenAlone>>

(* The process stops: the file stays as it is.                                  *)
MonitoringRestart ==
    /\ asking' = [r \in Askers |-> NotAsking]
    /\ tokenAlone' = (tokenAlone /\ \A r \in Askers : asking[r].pc # "write")
    /\ UNCHANGED <<tokenFile, made, disksListed, shownToken, retired, answer>>

MonitoringNext ==
    \/ MonitoringRestart
    \/ \E r \in Askers : \/ Asks(r) \/ ReadsToken(r) \/ MakesToken(r) \/ Regenerates(r) \/ WritesToken(r)
                         \/ ShowsToken(r) \/ ChecksToken(r) \/ TellsMonitoring(r)
    \/ \E x \in Sources \X DiskNames, health \in DiskHealths : DiskSeen(x, health)

MonitoringSpec == MonitoringInit /\ [][MonitoringNext]_monitoringVars

(* A token that was replaced opens nothing to a request that comes later,       *)
(* however pages and administrators get in each other's way; and as long as     *)
(* they come one at a time the token that a page shows is the one that is       *)
(* asked for.                                                                   *)
TokensAreRight ==
    /\ \A r \in Askers : asking[r].kind = "monitor" /\ asking[r].pc = "let in" => asking[r].presented \notin asking[r].old
    /\ tokenAlone /\ (\A r \in Askers : ~AtToken(r)) => shownToken \in {0, tokenFile}

(* The agent's output and the status agree on the disks that fail: a disk that  *)
(* all sources of its name call failing is told as such, none is told that no   *)
(* source calls so; and the metrics tell each row by itself.                    *)
FailuresAreTold ==
    LET reg == disksListed
        Says(d) == {s \in Sources : <<s, d>> \in Rows(reg)}
        Told == IF answer.kind = "status" THEN answer.failed
                ELSE {l.of : l \in {k \in answer.lines : k.service = "disk" /\ k.state = 2}}
    IN  /\ answer.kind \in {"agent", "status"} =>
              \A d \in DiskNames : /\ d \in Told => \E s \in Says(d) : reg[<<s, d>>] \in Failing
                                   /\ Says(d) # {} /\ (\A s \in Says(d) : reg[<<s, d>>] \in Failing) => d \in Told
        /\ answer.kind = "status" => (answer.overall = "CRITICAL" <=> Told # {})
        /\ answer.kind = "metrics" => \A x \in Rows(reg) : reg[x] \in Failing => Line("healthy", x, 0) \in answer.lines
=============================================================================

---------------------------- MODULE RouterDrivers ----------------------------
(***************************************************************************)
(* What is asked of a router (router_manager.py, its routes in app.py): a  *)
(* row with its secrets; status, updates, backup and restart, each some    *)
(* requests to a router or a network that may answer anything at each of   *)
(* them; the status that is stored and the messages about outages.         *)
(* RouterStatus and RouterBackups say how such jobs meet in the row and in *)
(* the folder of backups; here a job is opened up.                         *)
(***************************************************************************)
EXTENDS Naturals

CONSTANTS RouterPlatforms, \* those in use
          DriverRequests,  \* the poller and requests
          MaxTries         \* how often OPNsense is asked whether its check is done

AllPlatforms == {"openwrt", "opnsense", "pfsense", "vyos", "ddwrt", "routeros", "linux",
                 "fritzbox", "fritzrepeater", "generic"}

ASSUME DriverAssumption == RouterPlatforms \subseteq AllPlatforms /\ MaxTries \in Nat \ {0}

VARIABLES record,       \* the router's row: its platform and the secrets it has
          online,       \* what status_json says: online or not, ...
          upgrades,     \* ... and whether there are updates
          believed,     \* what the first contact and the messages since have said of online
          session,      \* what the poller and each request are doing
          undisturbed   \* history: jobs came one at a time, and none was cut off

driverVars == <<record, online, upgrades, believed, session, undisturbed>>

Jobs == {"status", "updates", "backup", "restart"}
NoSession == [pc |-> "none", job |-> "status", at |-> 1, was |-> "new", had |-> FALSE, heard |-> FALSE,
              refused |-> FALSE, ok |-> FALSE, found |-> FALSE]
NoRouter == [there |-> FALSE, platform |-> "none", stored |-> {}]

DriversInit ==
    /\ record = NoRouter /\ online = "new" /\ upgrades = FALSE /\ believed = "new"
    /\ session = [a \in DriverRequests |-> NoSession] /\ undisturbed = TRUE

-----------------------------------------------------------------------------
(* PLATFORMS and _DRIVERS                                                     *)
Transport(p) == CASE p = "opnsense"                      -> "api"
                  [] p \in {"fritzbox", "fritzrepeater"} -> "tr064"
                  [] p = "generic"                       -> "tcp"
                  [] OTHER                               -> "ssh"
Offers(p, job) == CASE job = "updates" -> p \notin {"vyos", "ddwrt", "linux", "generic"}
                    [] job = "backup"  -> p \notin {"linux", "generic"}
                    [] job = "restart" -> p # "generic"
                    [] OTHER           -> TRUE

(* validate(): the secrets a platform takes, and those a new row must have; an*)
(* empty field of the form leaves the secret as it is.                        *)
Takes(p) == {"password"} \cup (IF Transport(p) = "api" THEN {"api_key", "api_secret"} ELSE {})
Needs(p) == CASE Transport(p) = "api"   -> {"api_key", "api_secret"}
              [] Transport(p) = "tr064" -> {"password"}
              [] OTHER                  -> {}

\* Mutant: what the form leaves empty is empty.
FormSecrets(stored, given) == given

KeptSecrets(stored, given) == stored \cup given

(* routers_add(), add_router().  One router is followed at a time: jobs of one*)
(* that was removed never meet the next, whose id is another.                 *)
AddsRouter(p, given) ==
    /\ ~record.there /\ (\A a \in DriverRequests : session[a] = NoSession) /\ Needs(p) \subseteq given
    /\ record' = [there |-> TRUE, platform |-> p, stored |-> given \cap Takes(p)]
    /\ online' = "new" /\ upgrades' = FALSE /\ believed' = "new" /\ undisturbed' = TRUE
    /\ UNCHANGED session

(* routers_edit(), update_router(): the platform stays.                       *)
EditsRouter(given) ==
    /\ record.there
    /\ record' = [record EXCEPT !.stored = KeptSecrets(@, given \cap Takes(record.platform))]
    /\ UNCHANGED <<online, upgrades, believed, session, undisturbed>>

(* delete_router(), while jobs may be going on.                               *)
RemovesRouter ==
    /\ record.there /\ record' = [record EXCEPT !.there = FALSE]
    /\ UNCHANGED <<online, upgrades, believed, session, undisturbed>>

-----------------------------------------------------------------------------
Active == {a \in DriverRequests : session[a].pc # "none"}
Moves(a, s) == session' = [session EXCEPT ![a] = s]
OnlyMoves(a, s) == Moves(a, s) /\ UNCHANGED <<record, online, upgrades, believed, undisturbed>>

(* poll(), check_updates(), backup() and reboot(): the row, with its status.  *)
BeginsJob(a, job) ==
    /\ a \notin Active /\ record.there /\ Offers(record.platform, job)
    /\ Moves(a, [NoSession EXCEPT !.pc = "asks", !.job = job, !.was = online, !.had = upgrades])
    /\ undisturbed' = (undisturbed /\ Active = {})
    /\ UNCHANGED <<record, online, upgrades, believed>>

-----------------------------------------------------------------------------
(* What a request meets with: nothing, a connection that is closed, a login or*)
(* key that is refused, an error, a page or redirect of something else, an    *)
(* answer that is cut short, the answer.                                      *)
Fates == {"silence", "closed", "refused", "error", "page", "cut", "data"}

(* _SshDriver: signing in, then commands whose exit code nobody looks at and  *)
(* whose output ends where the connection does.                               *)
SshRaises(at, fate) == IF at = 1 THEN fate # "data" ELSE fate \in {"silence", "closed", "refused"}

(* Status is one script but for the six commands of RouterOS; the rest is one *)
(* command.                                                                   *)
SshRequests(p, job) == IF p = "routeros" /\ job = "status" THEN 7 ELSE 2

(* TcpCheckDriver: the connection is all there is.                            *)
TcpRaises(fate) == fate # "data"

(* OpnsenseDriver._call(): redirects are no errors.                           *)
CallRaises(fate) == fate \in {"silence", "closed", "refused", "error", "cut"}

(* Tr064Driver.call(): only the XML it can parse; _fetch() for the file of a  *)
(* backup.  An answer that names no file, or one elsewhere, is an error.      *)
Tr064Raises(at, fate) == IF at = 1 THEN fate # "data" ELSE CallRaises(fate)

RequestRaises(t, at, fate) == CASE t = "ssh"   -> SshRaises(at, fate)
                                [] t = "tcp"   -> TcpRaises(fate)
                                [] t = "api"   -> CallRaises(fate)
                                [] t = "tr064" -> Tr064Raises(at, fate)

(* How many requests have to be answered.                                     *)
Required(p, job) == CASE Transport(p) = "ssh"                     -> SshRequests(p, job)
                      [] Transport(p) = "api" /\ job = "status"   -> 2
                      [] Transport(p) = "tr064" /\ job = "backup" -> 2
                      [] OTHER                                    -> 1

(* Others follow that need not be: _get() and _try() of the two with an API.  *)
Optional(p, job) == \/ Transport(p) \in {"api", "tr064"} /\ job = "status"
                    \/ Transport(p) = "api" /\ job = "updates"

-----------------------------------------------------------------------------
(* The parsers take what there is and leave blank what is missing; some raise *)
(* at a value that is not what it should be.                                  *)
Understood(job) == IF job = "status" THEN BOOLEAN ELSE {TRUE}

(* updates(): whether there are any, of an answer that is there, at least in  *)
(* part; without one, none.                                                   *)
UpdatesIn(job, fate) == IF job = "updates" /\ fate \in {"data", "cut"} THEN BOOLEAN ELSE {FALSE}

(* backup(): at least 16 bytes and at most MAX_BACKUP, whatever they are.  A  *)
(* command that fails prints nothing, but for RouterOS.                       *)
BackupAccepted(p, fate) == IF fate = "error" /\ p # "routeros" THEN {FALSE} ELSE BOOLEAN

(* What the end of a job is: a poll and a check are stored, ...               *)
EndsJob(s, ok) == [s EXCEPT !.pc = IF s.job \in {"status", "updates"} THEN "saves" ELSE "answers", !.ok = ok]

(* ... and a job that raises is answered, but for a poll, for which that is a *)
(* status too.  reboot() takes a connection that is closed for the router     *)
(* going down.                                                                *)
Raises(s, t, fate) ==
    [s EXCEPT !.pc = IF s.job = "status" THEN "saves" ELSE "answers", !.refused = (fate = "refused"),
              !.ok = s.job = "restart" /\ t = "ssh" /\ fate = "closed"]

\* Mutant: an endpoint that the version does not have is as good as an answer.
SystemIgnored(s) == [s EXCEPT !.pc = "more", !.at = 1]

(* OpnsenseDriver.status(): when system_information gives nothing,            *)
(* firmware/status has to answer.                                             *)
SystemUnknown(s) == [s EXCEPT !.at = 2]

AsksSystem(s, t) == t = "api" /\ s.job = "status" /\ s.at = 1
Unanswered(s, t, fate) == RequestRaises(t, s.at, fate) \/ (AsksSystem(s, t) /\ fate = "page")
NotTheLast(s, p) == s.at < Required(p, s.job) /\ ~AsksSystem(s, Transport(p))

(* A request that has to be answered, ...                                     *)
RequestFails(a, fate) ==
    LET s == session[a]
        t == Transport(record.platform) IN
    /\ s.pc = "asks" /\ Unanswered(s, t, fate)
    /\ OnlyMoves(a, IF AsksSystem(s, t) /\ fate # "refused" THEN SystemUnknown(s) ELSE Raises(s, t, fate))

RequestAnswered(a, fate) ==
    LET s == session[a]
        p == record.platform
        t == Transport(p)
        answered == [s EXCEPT !.heard = TRUE] IN
    /\ s.pc = "asks" /\ ~Unanswered(s, t, fate)
    /\ IF NotTheLast(s, p) THEN OnlyMoves(a, [answered EXCEPT !.at = @ + 1])
       ELSE IF Optional(p, s.job) THEN OnlyMoves(a, [answered EXCEPT !.pc = "more", !.at = 1])
       ELSE \E found \in UpdatesIn(s.job, fate),
               ok \in IF s.job = "backup" THEN BackupAccepted(p, fate) ELSE Understood(s.job) :
                   OnlyMoves(a, EndsJob([answered EXCEPT !.found = found], ok))

(* ... and the others: of _get() and _try() only a key or password that is    *)
(* refused is an error, any other answer fills in the status or does not.     *)
StatusRefused(a) ==
    /\ session[a].pc = "more" /\ session[a].job = "status"
    /\ OnlyMoves(a, Raises(session[a], Transport(record.platform), "refused"))

StatusComplete(a) ==
    /\ session[a].pc = "more" /\ session[a].job = "status"
    /\ \E ok \in Understood("status") : OnlyMoves(a, EndsJob(session[a], ok))

(* OpnsenseDriver.updates(): asks until the check is no longer running, or for*)
(* long enough.                                                               *)
CheckTried(a, fate) ==
    LET s == session[a] IN
    /\ s.pc = "more" /\ s.job = "updates"
    /\ \/ fate = "refused" /\ OnlyMoves(a, Raises(s, "api", fate))
       \/ fate # "refused" /\ s.at < MaxTries /\ OnlyMoves(a, [s EXCEPT !.at = @ + 1])
       \/ /\ fate = "data" \/ (fate # "refused" /\ s.at = MaxTries)
          /\ \E found \in UpdatesIn("updates", fate) : OnlyMoves(a, EndsJob([s EXCEPT !.found = found], TRUE))

-----------------------------------------------------------------------------
Now(s) == IF s.ok THEN "up" ELSE "down"

(* _save_status(): of a check with the rest of the status as it was before, of*)
(* a poll with the updates as they were.  The first contact shows on the page.*)
StoresStatus(a) ==
    LET s == session[a] IN
    /\ s.pc = "saves" /\ s.job = "status" /\ Moves(a, [s EXCEPT !.pc = "reports"])
    /\ IF record.there THEN online' = Now(s) /\ upgrades' = s.had ELSE UNCHANGED <<online, upgrades>>
    /\ believed' = IF believed = "new" THEN Now(s) ELSE believed
    /\ UNCHANGED <<record, undisturbed>>

StoresUpdates(a) ==
    LET s == session[a] IN
    /\ s.pc = "saves" /\ s.job = "updates" /\ Moves(a, [s EXCEPT !.pc = "answers"])
    /\ IF record.there THEN online' = s.was /\ upgrades' = s.found ELSE UNCHANGED <<online, upgrades>>
    /\ UNCHANGED <<record, believed, undisturbed>>

\* Mutant: a router that comes back is not news.
OnlyOutages(s) == s.was = "up" /\ ~s.ok

StatusChanged(s) == s.was # "new" /\ s.was # Now(s)

(* _report_change(), against the status that was read before.                 *)
ReportsChange(a) ==
    /\ session[a].pc = "reports" /\ Moves(a, NoSession)
    /\ believed' = IF StatusChanged(session[a]) THEN Now(session[a]) ELSE believed
    /\ UNCHANGED <<record, online, upgrades, undisturbed>>

(* What the page of the request says.                                         *)
JobAnswered(a) == session[a].pc = "answers" /\ OnlyMoves(a, NoSession)

(* The process stops and starts.                                              *)
JobsCutOff ==
    /\ Active # {} /\ session' = [a \in DriverRequests |-> NoSession] /\ undisturbed' = FALSE
    /\ UNCHANGED <<record, online, upgrades, believed>>

JobStep(a) ==
    \/ \E fate \in Fates : RequestFails(a, fate) \/ RequestAnswered(a, fate) \/ CheckTried(a, fate)
    \/ StatusRefused(a) \/ StatusComplete(a) \/ StoresStatus(a) \/ StoresUpdates(a) \/ ReportsChange(a)
    \/ JobAnswered(a)

DriversNext ==
    \/ \E given \in SUBSET {"password", "api_key", "api_secret"} :
           EditsRouter(given) \/ \E p \in RouterPlatforms : AddsRouter(p, given)
    \/ RemovesRouter \/ JobsCutOff
    \/ \E a \in DriverRequests : JobStep(a) \/ \E job \in Jobs : BeginsJob(a, job)

DriversSpec == DriversInit /\ [][DriversNext]_driverVars

-----------------------------------------------------------------------------
(* What is answered well was earned: the router has answered, and refused     *)
(* nothing that counts, in this very job.  A restart over SSH excepted, where *)
(* a connection that is closed will do.                                       *)
AnswersAreEarned ==
    \A a \in DriverRequests :
        session[a].ok => /\ ~session[a].refused
                         /\ session[a].heard \/ (session[a].job = "restart" /\ Transport(record.platform) = "ssh")

(* "Routers that go offline or come back ... are sent to notification         *)
(* channels" (docs/routers.md), as long as jobs come one at a time and none is*)
(* cut off: whoever saw the first contact and the messages since knows what   *)
(* the page shows.                                                            *)
OutagesAreTold ==
    undisturbed /\ record.there /\ (\A a \in DriverRequests : session[a].pc # "reports") => believed = online

(* A router has the secrets its platform needs, whatever is edited.           *)
SecretsStay == record # NoRouter => Needs(record.platform) \subseteq record.stored

(* What is told of routers is so.                                             *)
RoutersAreTold == AnswersAreEarned /\ OutagesAreTold /\ SecretsStay
=============================================================================

------------------------------- MODULE Notify -------------------------------
(***************************************************************************)
(* Push notifications (notify.py) and e-mail (email_config.py,             *)
(* email_notifier.py).  Channels are kept in one file: pages change it and *)
(* every delivery writes its outcome into it, each under _lock, while      *)
(* send() reads it without.  The settings of e-mail are another file, which*)
(* the two forms of its page load, change and save without a lock; both    *)
(* write the same temporary name and rename it.                            *)
(***************************************************************************)
EXTENDS Naturals, FiniteSets

CONSTANTS ChannelIds,   \* ids that secrets.token_hex() gives
          ChannelLimit, \* 20 in the code
          ChannelAdmins,\* requests that add, change, delete or test a channel
          Messages,     \* what is sent
          MailForms,    \* posts of the e-mail page
          Mails         \* mails that other parts send

ASSUME LimitAssumption == ChannelLimit \in Nat
ASSUME AdminsAreNotDeliveries == ChannelAdmins \cap (Messages \X ChannelIds) = {}

VARIABLES channels,    \* notify_channels.json
          lockedBy,    \* who is inside _lock, and the list it loaded there
          chAsk,       \* what each request is at
          delivery,    \* the thread of each message and channel
          issued,      \* ids given so far
          askedChannels, \* history: the channels as the requests left them
          outcomes     \* history: what each channel's service answered
channelVars == <<channels, lockedBy, chAsk, delivery, issued, askedChannels, outcomes>>

VARIABLES mailFile,    \* email_settings.json
          mailTmp,     \* email_settings.json.tmp
          mailForm,    \* what each post is at
          mail,        \* what each mail is at
          mailAsked,   \* history: the settings the posts asked for, as long as they come one after the other
          mailAlone,   \* history: no two posts were ever at work together
          mailWanted   \* history: the switches that a post ever asked to be on
mailVars == <<mailFile, mailTmp, mailForm, mail, mailAsked, mailAlone, mailWanted>>

NoChannel == [there |-> FALSE, on |-> FALSE, low |-> "warning", status |-> ""]
Channel(on, low, status) == [there |-> TRUE, on |-> on, low |-> low, status |-> status]
NoChannels == [c \in ChannelIds |-> NoChannel]
NobodyIn == [who |-> {}, list |-> NoChannels]
NoChannelWork == [pc |-> "idle", op |-> "change", id |-> "", on |-> FALSE, low |-> "warning"]

ChannelInit ==
    /\ channels = NoChannels /\ askedChannels = NoChannels /\ issued = {}
    /\ lockedBy = NobodyIn
    /\ chAsk = [r \in ChannelAdmins |-> NoChannelWork]
    /\ delivery = [d \in Messages \X ChannelIds |-> "none"]
    /\ outcomes = [c \in ChannelIds |-> {""}]

Listing(list) == {c \in ChannelIds : list[c].there}
NobodyInside == lockedBy.who = {}

-----------------------------------------------------------------------------
(* A request of the page is a record: add gives a new id; change sets whether   *)
(* the channel is on and the lowest level it wants.                             *)
AddsChannel(c) == [pc |-> "wait", op |-> "add", id |-> c, on |-> TRUE, low |-> "warning"]
ChangesChannel(c, on, low) == [pc |-> "wait", op |-> "change", id |-> c, on |-> on, low |-> low]
DeletesChannel(c) == [pc |-> "wait", op |-> "delete", id |-> c, on |-> FALSE, low |-> "warning"]

AddAsked(r) ==
    /\ chAsk[r].pc = "idle"
    /\ \E c \in ChannelIds \ issued : chAsk' = [chAsk EXCEPT ![r] = AddsChannel(c)] /\ issued' = issued \cup {c}
    /\ UNCHANGED <<channels, lockedBy, delivery, askedChannels, outcomes>>

ChangeAsked(r) ==
    /\ chAsk[r].pc = "idle"
    /\ \E c \in issued : \/ chAsk' = [chAsk EXCEPT ![r] = DeletesChannel(c)]
                         \/ \E on \in BOOLEAN, low \in {"info", "warning"} :
                                chAsk' = [chAsk EXCEPT ![r] = ChangesChannel(c, on, low)]
    /\ UNCHANGED <<channels, lockedBy, delivery, issued, askedChannels, outcomes>>

\* Mutant: the lock is not taken, only the file read.
EntersUnlocked(who) == lockedBy' = [who |-> {who}, list |-> channels]

(* with _lock: channels = _load().                                              *)
Enters(who) == NobodyInside /\ lockedBy' = [who |-> {who}, list |-> channels]

RequestEnters(r) ==
    /\ chAsk[r].pc = "wait" /\ Enters(r)
    /\ chAsk' = [chAsk EXCEPT ![r].pc = "inside"]
    /\ UNCHANGED <<channels, delivery, issued, askedChannels, outcomes>>

(* The list a request saves: none when the limit is reached or the id unknown.  *)
EditedList(list, q) ==
    CASE q.op = "add" -> IF Cardinality(Listing(list)) >= ChannelLimit THEN list
                         ELSE [list EXCEPT ![q.id] = Channel(q.on, q.low, "")]
      [] q.op = "delete" -> [list EXCEPT ![q.id] = NoChannel]
      [] OTHER -> IF list[q.id].there THEN [list EXCEPT ![q.id] = Channel(q.on, q.low, list[q.id].status)] ELSE list

(* _save() writes a temporary file and renames it, and the lock is given back.  *)
RequestSaves(r) ==
    /\ chAsk[r].pc = "inside"
    /\ channels' = EditedList(lockedBy.list, chAsk[r]) /\ askedChannels' = EditedList(askedChannels, chAsk[r])
    /\ lockedBy' = NobodyIn
    /\ chAsk' = [chAsk EXCEPT ![r] = NoChannelWork]
    /\ UNCHANGED <<delivery, issued, outcomes>>

-----------------------------------------------------------------------------
(* send(): the channels that are on and want the level, read without the lock;  *)
(* the button "Send test" names one, on or not.  A thread starts for each.      *)
WhoWants(level) == {c \in Listing(channels) : channels[c].on /\ (level = "warning" \/ channels[c].low = "info")}
Unsent(m) == \A c \in ChannelIds : delivery[<<m, c>>] = "none"
SentTo(m, them) == delivery' = [d \in DOMAIN delivery |-> IF d[1] = m /\ d[2] \in them THEN "post" ELSE delivery[d]]

Sends(m, level) ==
    /\ Unsent(m) /\ SentTo(m, WhoWants(level))
    /\ UNCHANGED <<channels, lockedBy, chAsk, issued, askedChannels, outcomes>>

Tests(m, c) ==
    /\ Unsent(m) /\ c \in Listing(channels) /\ SentTo(m, {c})
    /\ UNCHANGED <<channels, lockedBy, chAsk, issued, askedChannels, outcomes>>

(* _deliver(): the request to the service ...                                   *)
ServiceAnswers(d, status) ==
    /\ delivery[d] = "post"
    /\ delivery' = [delivery EXCEPT ![d] = status]
    /\ outcomes' = [outcomes EXCEPT ![d[2]] = @ \cup {status}]
    /\ UNCHANGED <<channels, lockedBy, chAsk, issued, askedChannels>>

(* ... and then the lock, the file as it is now, and the status of the channel, *)
(* if it is still there.                                                        *)
MayReport(d) == delivery[d] \in {"ok", "refused", "error"} /\ lockedBy.who # {d}
DeliveryEnters(d) ==
    /\ MayReport(d) /\ Enters(d)
    /\ UNCHANGED <<channels, chAsk, delivery, issued, askedChannels, outcomes>>

Noted(list, c, status) == IF list[c].there THEN [list EXCEPT ![c].status = status] ELSE list

DeliverySaves(d) ==
    /\ lockedBy.who = {d}
    /\ channels' = Noted(lockedBy.list, d[2], delivery[d])
    /\ lockedBy' = NobodyIn
    /\ delivery' = [delivery EXCEPT ![d] = "done"]
    /\ UNCHANGED <<chAsk, issued, askedChannels, outcomes>>

(* The process stops: requests, threads and the lock go, the file stays.        *)
ChannelRestart ==
    /\ lockedBy' = NobodyIn
    /\ chAsk' = [r \in ChannelAdmins |-> NoChannelWork]
    /\ delivery' = [d \in DOMAIN delivery |-> IF delivery[d] = "none" THEN "none" ELSE "done"]
    /\ UNCHANGED <<channels, issued, askedChannels, outcomes>>

ChannelNext ==
    \/ ChannelRestart
    \/ \E r \in ChannelAdmins : AddAsked(r) \/ ChangeAsked(r) \/ RequestEnters(r) \/ RequestSaves(r)
    \/ \E m \in Messages : \/ \E level \in {"info", "warning"} : Sends(m, level)
                           \/ \E c \in ChannelIds : Tests(m, c)
    \/ \E d \in Messages \X ChannelIds : \/ DeliveryEnters(d) \/ DeliverySaves(d)
                                         \/ \E status \in {"ok", "refused", "error"} : ServiceAnswers(d, status)

ChannelSpec == ChannelInit /\ [][ChannelNext]_channelVars

(* Deliveries that report while pages change the list, and the other way round, *)
(* lose nothing: the channels are those the requests left, switched and levelled*)
(* as they left them; a channel that was deleted does not come back; the status *)
(* shown is one its own service gave; and there are never more than the limit.  *)
SwitchesOf(list) == [c \in ChannelIds |-> IF list[c].there THEN <<list[c].on, list[c].low>> ELSE <<>>]
ChannelsAreKept ==
    /\ SwitchesOf(channels) = SwitchesOf(askedChannels)
    /\ \A c \in Listing(channels) : channels[c].status \in outcomes[c]
    /\ Cardinality(Listing(channels)) <= ChannelLimit

-----------------------------------------------------------------------------
(* The settings of e-mail: whether it is on, the password of the SMTP server,   *)
(* whether reports are on.                                                      *)
MailDefaults == [on |-> FALSE, pass |-> "", report |-> FALSE]
NoMailFile == [text |-> "none", settings |-> MailDefaults]
Truncated == [text |-> "empty", settings |-> MailDefaults]   \* truncated, nothing written yet
Garbled == [text |-> "torn", settings |-> MailDefaults]      \* what two writers left, no JSON
MailText(settings) == [text |-> "json", settings |-> settings]
NoMailForm == [pc |-> "idle", new |-> MailDefaults, into |-> "none"]

MailInit ==
    /\ mailFile = NoMailFile /\ mailTmp = NoMailFile
    /\ mailForm = [f \in MailForms |-> NoMailForm]
    /\ mail = [m \in Mails |-> "none"]
    /\ mailAsked = MailDefaults /\ mailAlone = TRUE /\ mailWanted = {}

(* load_email_settings(): what cannot be read is the defaults.                  *)
MailLoaded(file) == IF file.text = "json" THEN file.settings ELSE MailDefaults

\* Mutant: a blank password is saved as it is.
MailChangedBlank(old, section, on, pass) ==
    IF section = "smtp" THEN [old EXCEPT !.on = on, !.pass = IF pass = "blank" THEN "" ELSE pass]
    ELSE [old EXCEPT !.report = on]

(* email_settings(): each form changes its own fields; a blank password keeps   *)
(* the one that is stored, the check box clears it.                             *)
MailChanged(old, section, on, pass) ==
    IF section = "smtp" THEN [old EXCEPT !.on = on, !.pass = CASE pass = "blank" -> @ [] pass = "clear" -> "" [] OTHER -> pass]
    ELSE [old EXCEPT !.report = on]
MailAsked(old, section, on, pass) ==
    [on |-> IF section = "smtp" THEN on ELSE old.on,
     pass |-> IF section # "smtp" \/ pass = "blank" THEN old.pass ELSE IF pass = "clear" THEN "" ELSE pass,
     report |-> IF section = "smtp" THEN old.report ELSE on]

FormLoads(f) ==
    /\ mailForm[f].pc = "idle"
    /\ mailAlone' = (mailAlone /\ \A g \in MailForms : mailForm[g].pc = "idle")
    /\ \E section \in {"smtp", "events"}, on \in BOOLEAN, pass \in {"blank", "clear", "secret"} :
           /\ section = "events" => pass = "blank"
           /\ mailForm' = [mailForm EXCEPT ![f] = [NoMailForm EXCEPT !.pc = "loaded",
                                                               !.new = MailChanged(MailLoaded(mailFile), section, on, pass)]]
           /\ mailAsked' = IF mailAlone' THEN MailAsked(mailAsked, section, on, pass) ELSE MailDefaults
           /\ mailWanted' = mailWanted \cup (IF on THEN {section} ELSE {})
    /\ UNCHANGED <<mailFile, mailTmp, mail>>

(* save_email_settings(): open(O_CREAT | O_TRUNC) ...                           *)
FormOpens(f) ==
    /\ mailForm[f].pc = "loaded"
    /\ mailTmp' = Truncated
    /\ mailForm' = [mailForm EXCEPT ![f].pc = "opened", ![f].into = "tmp"]
    /\ UNCHANGED <<mailFile, mail, mailAsked, mailAlone, mailWanted>>

(* ... json.dump(), into the file that was opened, by whatever name it goes now;*)
(* over what another post wrote there, the longer text shows behind ...         *)
WrittenOver(old, new) == IF old = Truncated THEN {MailText(new)} ELSE {MailText(new), Garbled}
FormWrites(f) ==
    /\ mailForm[f].pc = "opened"
    /\ \/ /\ mailForm[f].into = "tmp" /\ mailTmp' \in WrittenOver(mailTmp, mailForm[f].new) /\ UNCHANGED mailFile
       \/ /\ mailForm[f].into = "file" /\ mailFile' \in WrittenOver(mailFile, mailForm[f].new) /\ UNCHANGED mailTmp
       \/ mailForm[f].into = "gone" /\ UNCHANGED <<mailFile, mailTmp>>
    /\ mailForm' = [mailForm EXCEPT ![f].pc = "written"]
    /\ UNCHANGED <<mail, mailAsked, mailAlone, mailWanted>>

(* ... and os.replace(), which fails when the other post renamed the file.      *)
AfterRename(into) == CASE into = "tmp" -> "file" [] into = "file" -> "gone" [] OTHER -> into
FormReplaces(f) ==
    /\ mailForm[f].pc = "written"
    /\ IF mailTmp = NoMailFile
       THEN UNCHANGED <<mailFile, mailTmp>> /\ mailForm' = [mailForm EXCEPT ![f] = NoMailForm]
       ELSE /\ mailFile' = mailTmp /\ mailTmp' = NoMailFile
            /\ mailForm' = [g \in MailForms |-> IF g = f THEN NoMailForm ELSE [mailForm[g] EXCEPT !.into = AfterRename(@)]]
    /\ UNCHANGED <<mail, mailAsked, mailAlone, mailWanted>>

(* scheduled_email_report() and send_update_report() each ask                   *)
(* get_report_enabled(), which loads the settings; send_email() loads them      *)
(* again, and may fail at the server.  The other mails have one switch of their *)
(* own and are asked about it in the same way.                                  *)
ReportEnabled == MailLoaded(mailFile).on /\ MailLoaded(mailFile).report
MailPasses(m, next) ==
    /\ mail' = [mail EXCEPT ![m] = IF ReportEnabled THEN next ELSE "off"]
    /\ UNCHANGED <<mailFile, mailTmp, mailForm, mailAsked, mailAlone, mailWanted>>
MailScheduled(m) == mail[m] = "none" /\ MailPasses(m, "scheduled")
MailWritten(m) == mail[m] = "scheduled" /\ MailPasses(m, "send")
MailSent(m) ==
    /\ mail[m] = "send"
    /\ \/ MailLoaded(mailFile).on /\ mail' = [mail EXCEPT ![m] = "sent"]
       \/ mail' = [mail EXCEPT ![m] = "failed"]
    /\ UNCHANGED <<mailFile, mailTmp, mailForm, mailAsked, mailAlone, mailWanted>>

(* The process stops; what a post had written of the temporary file stays, and  *)
(* what it asked for is not done.                                               *)
MailRestart ==
    /\ \E f \in MailForms : mailForm[f].pc # "idle"
    /\ mailForm' = [f \in MailForms |-> NoMailForm]
    /\ mailAsked' = IF mailAlone THEN MailLoaded(mailFile) ELSE MailDefaults
    /\ mail' = [m \in Mails |-> IF mail[m] \in {"scheduled", "send"} THEN "failed" ELSE mail[m]]
    /\ UNCHANGED <<mailFile, mailTmp, mailAlone, mailWanted>>

MailNext ==
    \/ MailRestart
    \/ \E f \in MailForms : FormLoads(f) \/ FormOpens(f) \/ FormWrites(f) \/ FormReplaces(f)
    \/ \E m \in Mails : MailScheduled(m) \/ MailWritten(m) \/ MailSent(m)

MailSpec == MailInit /\ [][MailNext]_mailVars

(* As long as the posts of the page come one at a time the settings are what    *)
(* they asked for, the password of an earlier post included, whenever the       *)
(* process stops and starts again; and even when they do not, a report only     *)
(* leaves when a post has switched e-mail on and one has asked for reports.     *)
MailSettingsAreKept ==
    /\ mailAlone /\ (\A f \in MailForms : mailForm[f].pc = "idle") => MailLoaded(mailFile) = mailAsked
    /\ \A m \in Mails : mail[m] = "sent" => mailWanted = {"smtp", "events"}

-----------------------------------------------------------------------------
(* Notification channels and the settings of e-mail stay as the administrators *)
(* left them, deliveries and restarts or not.                                  *)
SettingsAreKept == ChannelsAreKept /\ MailSettingsAreKept
=============================================================================

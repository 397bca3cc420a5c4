------------------------------ MODULE Commander ------------------------------
(***************************************************************************)
(* Corsair Commander devices (corsair_commander.py and its routes in       *)
(* app.py): a table of devices, a poller that works through the rows as it *)
(* read them, a refresh button that stores good readings only, samples     *)
(* that are pruned by age, and settings of fans over liquidctl.            *)
(***************************************************************************)
EXTENDS Naturals, FiniteSetsExt

CONSTANTS Visitors,      \* requests to read or set a device
          MaxCommanders, \* bound: devices added
          MaxCcTime,     \* bound: days
          KeepDays       \* _RETENTION_DAYS

ASSUME CommanderAssumption == MaxCommanders \in Nat /\ KeepDays \in Nat

VARIABLES ccAdded,   \* how many devices have been added
          ccRows,    \* cc_devices: the ids of the rows
          ccOn,      \* those that are enabled
          ccWork,    \* what the poller and each request are doing
          ccSamples, \* cc_samples: the rows of each id, a table without an order
          ccFan,     \* how the fans of each device are driven
          ccDay

commanderVars == <<ccAdded, ccRows, ccOn, ccWork, ccSamples, ccFan, ccDay>>

CcPoller == "cc poller"
CcWorkers == Visitors \cup {CcPoller}
CcIdle == [pc |-> "none", todo |-> {}, id |-> 0, ts |-> 0, ok |-> FALSE]
CcIds == 1..MaxCommanders
CcSettings == {"duty", "profile"}

CommanderInit ==
    /\ ccAdded = 0 /\ ccRows = {} /\ ccOn = {} /\ ccDay = 0
    /\ ccWork = [x \in CcWorkers |-> CcIdle]
    /\ ccSamples = [id \in CcIds |-> {}] /\ ccFan = [id \in CcIds |-> "own"]

-----------------------------------------------------------------------------
(* commander_add() and add_device(): the table's AUTOINCREMENT number.        *)
CcAdds ==
    /\ ccAdded < MaxCommanders /\ ccAdded' = ccAdded + 1
    /\ ccRows' = ccRows \cup {ccAdded'} /\ ccOn' = ccOn \cup {ccAdded'}
    /\ UNCHANGED <<ccWork, ccSamples, ccFan, ccDay>>

(* commander_edit() and update_device()                                       *)
CcEdits(id) ==
    /\ id \in ccRows /\ ccOn' = SymDiff(ccOn, {id})
    /\ UNCHANGED <<ccAdded, ccRows, ccWork, ccSamples, ccFan, ccDay>>

(* delete_device(): foreign keys are not enforced, the samples stay.          *)
CcDeletes(id) ==
    /\ id \in ccRows /\ ccRows' = ccRows \ {id} /\ ccOn' = ccOn \ {id}
    /\ UNCHANGED <<ccAdded, ccWork, ccSamples, ccFan, ccDay>>

-----------------------------------------------------------------------------
CcBecomes(x, w) == ccWork' = [ccWork EXCEPT ![x] = w]
CcOnlyWork(x, w) == CcBecomes(x, w) /\ UNCHANGED <<ccAdded, ccRows, ccOn, ccSamples, ccFan, ccDay>>

(* _poll_loop(): the enabled rows, settings included.                         *)
CcRoundStarts ==
    /\ ccWork[CcPoller].pc = "none"
    /\ CcOnlyWork(CcPoller, [CcIdle EXCEPT !.pc = "between", !.todo = ccOn])

(* fetch_status() takes the time first, then initializes the device and reads *)
(* it, as JSON or as text.                                                    *)
CcTakes(id) ==
    /\ ccWork[CcPoller].pc = "between" /\ id \in ccWork[CcPoller].todo
    /\ CcOnlyWork(CcPoller, [ccWork[CcPoller] EXCEPT !.pc = "asks", !.todo = @ \ {id}, !.id = id, !.ts = ccDay])

(* commander_refresh()                                                        *)
CcRefreshes(x, id) ==
    /\ ccWork[x].pc = "none" /\ id \in ccRows
    /\ CcOnlyWork(x, [CcIdle EXCEPT !.pc = "asks", !.id = id, !.ts = ccDay])

(* The answer: liquidctl's exit code decides, then that there is any output; a*)
(* text must have readings, JSON need not.  A refresh that failed is not      *)
(* stored.                                                                    *)
CcAnswered(x) ==
    /\ ccWork[x].pc = "asks"
    /\ \E ok \in BOOLEAN :
           CcOnlyWork(x, IF ok \/ x = CcPoller THEN [ccWork[x] EXCEPT !.pc = "stores", !.ok = ok] ELSE CcIdle)

CcAfter(x) == IF x = CcPoller THEN [CcIdle EXCEPT !.pc = "between", !.todo = ccWork[x].todo] ELSE CcIdle

(* _save_sample()                                                             *)
CcStores(x) ==
    LET w == ccWork[x] IN
    /\ w.pc = "stores"
    /\ ccSamples' = [ccSamples EXCEPT ![w.id] = @ \cup {[ts |-> w.ts, ok |-> w.ok]}]
    /\ CcBecomes(x, CcAfter(x))
    /\ UNCHANGED <<ccAdded, ccRows, ccOn, ccFan, ccDay>>

(* A database that stays locked ends the round, purge included; a request ends*)
(* in an error.                                                               *)
CcRaises(x) ==
    /\ ccWork[x].pc = "stores" \/ (ccWork[x].pc = "between" /\ ccWork[x].todo = {})
    /\ CcOnlyWork(x, CcIdle)

\* Mutant: a sample goes as soon as it is as old as samples may be.
CcNewer(s) == s.ts + KeepDays > ccDay

(* _purge_old()                                                               *)
CcKept(s) == s.ts + KeepDays >= ccDay
CcPurges ==
    /\ ccWork[CcPoller].pc = "between" /\ ccWork[CcPoller].todo = {}
    /\ ccSamples' = [id \in CcIds |-> {s \in ccSamples[id] : CcKept(s)}]
    /\ CcBecomes(CcPoller, CcIdle)
    /\ UNCHANGED <<ccAdded, ccRows, ccOn, ccFan, ccDay>>

(* get_latest(): the sample with the largest time.                            *)
CcLatest(stored) == CHOOSE s \in stored : \A t \in stored : t.ts <= s.ts

-----------------------------------------------------------------------------
(* commander_set_fan() and set_fan_speed(): the channel and the speed are     *)
(* looked at before the host is connected to; pairs above 100 are refused.    *)
CcAsksToSet(x, id) ==
    /\ ccWork[x].pc = "none" /\ id \in ccRows
    /\ CcOnlyWork(x, [CcIdle EXCEPT !.pc = "sets", !.id = id])

CcSets(x) ==
    /\ ccWork[x].pc = "sets" /\ CcBecomes(x, CcIdle)
    /\ \/ \E s \in CcSettings : ccFan' = [ccFan EXCEPT ![ccWork[x].id] = s]
       \/ UNCHANGED ccFan
    /\ UNCHANGED <<ccAdded, ccRows, ccOn, ccSamples, ccDay>>

(* The machine starts again: the controller drives its fans by itself.        *)
CcPowers(id) ==
    /\ ccFan[id] # "own" /\ ccFan' = [ccFan EXCEPT ![id] = "own"]
    /\ UNCHANGED <<ccAdded, ccRows, ccOn, ccWork, ccSamples, ccDay>>

CcDayPasses ==
    /\ ccDay < MaxCcTime /\ ccDay' = ccDay + 1
    /\ UNCHANGED <<ccAdded, ccRows, ccOn, ccWork, ccSamples, ccFan>>

(* The process stops and starts; start_polling().                             *)
CcRestart ==
    /\ \E x \in CcWorkers : ccWork[x] # CcIdle
    /\ ccWork' = [x \in CcWorkers |-> CcIdle]
    /\ UNCHANGED <<ccAdded, ccRows, ccOn, ccSamples, ccFan, ccDay>>

CommanderNext ==
    \/ CcAdds \/ CcRoundStarts \/ CcPurges \/ CcDayPasses \/ CcRestart
    \/ \E id \in CcIds : CcEdits(id) \/ CcDeletes(id) \/ CcTakes(id) \/ CcPowers(id)
    \/ \E x \in CcWorkers : CcAnswered(x) \/ CcStores(x) \/ CcRaises(x)
    \/ \E x \in Visitors : CcSets(x) \/ \E id \in CcIds : CcRefreshes(x, id) \/ CcAsksToSet(x, id)

CommanderSpec == CommanderInit /\ [][CommanderNext]_commanderVars

-----------------------------------------------------------------------------
(* What the page of a device shows never gets older while it shows anything,  *)
(* in whatever order poller and refreshes store, and pruning only empties it  *)
(* of what is past its time: a reading within it stays.                       *)
CommanderPagesStay ==
    [][\A id \in ccRows : ccSamples[id] # {} =>
           LET shown == CcLatest(ccSamples[id]) IN
           IF ccSamples'[id] = {} THEN shown.ts + KeepDays < ccDay
           ELSE CcLatest(ccSamples'[id]).ts >= shown.ts]_commanderVars
=============================================================================

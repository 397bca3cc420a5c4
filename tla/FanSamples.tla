----------------------------- MODULE FanSamples -----------------------------
(***************************************************************************)
(* What the fan pages show (fan_controller.py and its routes in app.py):   *)
(* the poller reads one device after the other, the refresh button any of  *)
(* them meanwhile, and each stores what it read when it has it, whatever   *)
(* has become of the device.                                               *)
(***************************************************************************)
EXTENDS Naturals, SequencesExt, FiniteSetsExt

CONSTANTS Refreshers,   \* requests for an immediate reading
          MaxFans,      \* bound: devices added
          MaxFanTime,   \* bound: seconds
          MaxSamples    \* bound: samples stored under an id

ASSUME FansBound == MaxFans \in Nat

VARIABLES added,     \* how many devices have been added
          enrolled,  \* fc_devices: the device of each id by the order of adding, 0 if none
          watched,   \* the ids that are enabled
          reading,   \* what the poller and each refresh are reading
          samples,   \* fc_samples: what is stored under each id, in order
          fanTime

fanSampleVars == <<added, enrolled, watched, reading, samples, fanTime>>

Poller == "poller"
Readers == Refreshers \cup {Poller}
NoReading == [pc |-> "none", todo |-> {}, id |-> 0, nth |-> 0, ts |-> 0]
Enrolled == {id \in DOMAIN enrolled : enrolled[id] # 0}

FanSamplesInit ==
    /\ added = 0 /\ enrolled = [id \in 1..MaxFans |-> 0] /\ watched = {}
    /\ reading = [x \in Readers |-> NoReading]
    /\ samples = [id \in 1..MaxFans |-> <<>>] /\ fanTime = 0

-----------------------------------------------------------------------------
\* Mutant: a plain INTEGER PRIMARY KEY follows the largest id in the table.
LargestId(n) == Max(Enrolled \cup {0}) + 1

(* AUTOINCREMENT: an id is never given out again.                             *)
RowId(n) == n

(* add_device()                                                               *)
AddsFan ==
    /\ added < MaxFans /\ added' = added + 1
    /\ enrolled' = [enrolled EXCEPT ![RowId(added')] = added'] /\ watched' = watched \cup {RowId(added')}
    /\ UNCHANGED <<reading, samples, fanTime>>

(* update_device(), enabled                                                   *)
SwitchesFan(id) ==
    /\ id \in Enrolled /\ watched' = SymDiff(watched, {id})
    /\ UNCHANGED <<added, enrolled, reading, samples, fanTime>>

(* delete_device(): the samples stay, as foreign keys are not enforced.       *)
DeletesFan(id) ==
    /\ id \in Enrolled /\ enrolled' = [enrolled EXCEPT ![id] = 0] /\ watched' = watched \ {id}
    /\ UNCHANGED <<added, reading, samples, fanTime>>

-----------------------------------------------------------------------------
Becomes(x, r) == reading' = [reading EXCEPT ![x] = r]

(* get_device(), the connection, and _base_result(), which takes the time     *)
(* before the host is asked.                                                  *)
Reads(id, todo) == [pc |-> "reads", todo |-> todo, id |-> id, nth |-> enrolled[id], ts |-> fanTime]

(* _poll_all(): a round over the devices that are listed and enabled.         *)
StartsRound ==
    /\ reading[Poller].pc = "none" /\ Becomes(Poller, [NoReading EXCEPT !.pc = "between", !.todo = watched])
    /\ UNCHANGED <<added, enrolled, watched, samples, fanTime>>

RoundEnds ==
    /\ reading[Poller].pc = "between" /\ reading[Poller].todo = {} /\ Becomes(Poller, NoReading)
    /\ UNCHANGED <<added, enrolled, watched, samples, fanTime>>

(* A device that is gone meanwhile is passed over.                            *)
TakesNext(id) ==
    LET rest == reading[Poller].todo \ {id} IN
    /\ reading[Poller].pc = "between" /\ id \in reading[Poller].todo
    /\ Becomes(Poller, IF id \in Enrolled THEN Reads(id, rest) ELSE [reading[Poller] EXCEPT !.todo = rest])
    /\ UNCHANGED <<added, enrolled, watched, samples, fanTime>>

(* fc_refresh()                                                               *)
Refreshes(x, id) ==
    /\ reading[x].pc = "none" /\ id \in Enrolled /\ Becomes(x, Reads(id, {}))
    /\ UNCHANGED <<added, enrolled, watched, samples, fanTime>>

(* _store_sample(): under the id that was read, by whoever has it first; what *)
(* the host answered or the error.                                            *)
StoresSample(x) ==
    LET q == reading[x] IN
    /\ q.pc = "reads" /\ Len(samples[q.id]) < MaxSamples
    /\ samples' = [samples EXCEPT ![q.id] = Append(@, [nth |-> q.nth, ts |-> q.ts])]
    /\ Becomes(x, IF x = Poller THEN [NoReading EXCEPT !.pc = "between", !.todo = q.todo] ELSE NoReading)
    /\ UNCHANGED <<added, enrolled, watched, fanTime>>

(* A database that stays locked is logged, and the sample is lost.            *)
LosesSample(x) ==
    /\ reading[x].pc = "reads"
    /\ Becomes(x, IF x = Poller THEN [NoReading EXCEPT !.pc = "between", !.todo = reading[x].todo] ELSE NoReading)
    /\ UNCHANGED <<added, enrolled, watched, samples, fanTime>>

\* Mutant: the row that was stored last.
LastStored(stored) == Last(stored)

(* get_latest(): what the pages show.                                         *)
Latest(stored) == CHOOSE s \in ToSet(stored) : \A t \in ToSet(stored) : t.ts <= s.ts

FanSecond ==
    /\ fanTime < MaxFanTime /\ fanTime' = fanTime + 1
    /\ UNCHANGED <<added, enrolled, watched, reading, samples>>

(* The process stops and starts; start_polling().                             *)
FanPollerRestart ==
    /\ \E x \in Readers : reading[x] # NoReading
    /\ reading' = [x \in Readers |-> NoReading]
    /\ UNCHANGED <<added, enrolled, watched, samples, fanTime>>

FanSamplesNext ==
    \/ AddsFan \/ StartsRound \/ RoundEnds \/ FanSecond \/ FanPollerRestart
    \/ \E id \in 1..MaxFans : \/ SwitchesFan(id) \/ DeletesFan(id) \/ TakesNext(id)
                              \/ \E x \in Refreshers : Refreshes(x, id)
    \/ \E x \in Readers : StoresSample(x) \/ LosesSample(x)

FanSamplesSpec == FanSamplesInit /\ [][FanSamplesNext]_fanSampleVars

-----------------------------------------------------------------------------
Shown(id) == Latest(samples[id])

(* What a device's page shows was read from that device, never from one that  *)
(* was deleted before and left its samples; and the page never goes back to an*)
(* older reading, in whatever order the poller and the refreshes store theirs.*)
PagesStayTrue ==
    [][\A id \in Enrolled' : samples'[id] # <<>> =>
           /\ Shown(id)'.nth = enrolled'[id]
           /\ samples[id] # <<>> => Shown(id)'.ts >= Shown(id).ts]_fanSampleVars
=============================================================================

------------------------------ MODULE AuditLog ------------------------------
(***************************************************************************)
(* The audit log (audit_log.py): a table whose rows each carry the hash of *)
(* the row before, pruned by the rows' timestamps.                         *)
(*                                                                         *)
(* A recorder takes the time first and waits for the database afterwards;  *)
(* reading the last hash and inserting are one transaction.  A row's hash  *)
(* is unique to it: its id stands for it.                                  *)
(***************************************************************************)
EXTENDS Integers

CONSTANTS Recorders,    \* threads in record_event()
          MaxEvents,    \* bound: events ever recorded
          MaxClock,     \* bound: the clock of the machine
          Retentions    \* the values of audit_retention_days

ASSUME AuditBounds ==
    MaxEvents \in Nat \ {0} /\ MaxClock \in Nat /\ Retentions \subseteq Nat \ {0}

VARIABLES events,    \* audit_events
          nextEvent, \* its AUTOINCREMENT counter
          stamp,     \* occurred_at of the event each recorder is about to insert, or Nothing
          machineTime,
          late       \* history: an event was inserted after one with a later timestamp

auditVars == <<events, nextEvent, stamp, machineTime, late>>

Nothing == -1
Times == 0 .. MaxClock
EventIds == 1 .. MaxEvents
Event == [id : EventIds, at : Times, prev : 0 .. MaxEvents]

AuditInit ==
    /\ events = {} /\ nextEvent = 1
    /\ stamp = [w \in Recorders |-> Nothing]
    /\ machineTime \in Times /\ late = FALSE

-----------------------------------------------------------------------------
(* record_event(): the row is made up, with the time, ...                       *)
Stamps(w) ==
    /\ stamp[w] = Nothing /\ nextEvent \in EventIds
    /\ stamp' = [stamp EXCEPT ![w] = machineTime]
    /\ UNCHANGED <<events, nextEvent, machineTime, late>>

\* Mutant: the last event is the one with the latest timestamp.
LatestTime(w) == {e \in events : \A f \in events : f.at < e.at \/ (f.at = e.at /\ f.id >= e.id)}

LastEvent(w) == {e \in events : \A f \in events : f.id <= e.id}

(* ... and inserted under BEGIN IMMEDIATE, ...                                  *)
Inserts(w) ==
    /\ stamp[w] # Nothing /\ nextEvent \in EventIds
    /\ \E prev \in {e.id : e \in LastEvent(w)} \cup (IF LastEvent(w) = {} THEN {0} ELSE {}) :
          events' = events \cup {[id |-> nextEvent, at |-> stamp[w], prev |-> prev]}
    /\ nextEvent' = nextEvent + 1
    /\ late' = (late \/ \E e \in events : e.at > stamp[w])
    /\ stamp' = [stamp EXCEPT ![w] = Nothing]
    /\ UNCHANGED machineTime

(* ... unless the database stays locked too long.                               *)
InsertFails(w) ==
    /\ stamp[w] # Nothing /\ stamp' = [stamp EXCEPT ![w] = Nothing]
    /\ UNCHANGED <<events, nextEvent, machineTime, late>>

(* prune(): at the start of the process, and when the retention was changed.    *)
Pruned(days) == {e \in events : e.at >= machineTime - days}

Prunes(days) ==
    /\ events' = Pruned(days) /\ events' # events
    /\ UNCHANGED <<nextEvent, stamp, machineTime, late>>

AuditRestart(days) ==
    /\ stamp' = [w \in Recorders |-> Nothing] /\ events' = Pruned(days)
    /\ UNCHANGED <<nextEvent, machineTime, late>>

(* The clock goes, and is set: a machine without a battery starts in the past.  *)
ClockMoves(t) ==
    /\ t # machineTime /\ machineTime' = t
    /\ UNCHANGED <<events, nextEvent, stamp, late>>

AuditNext ==
    \/ \E w \in Recorders : Stamps(w) \/ Inserts(w) \/ InsertFails(w)
    \/ \E days \in Retentions : Prunes(days) \/ AuditRestart(days)
    \/ \E t \in Times : ClockMoves(t)

AuditSpec == AuditInit /\ [][AuditNext]_auditVars

-----------------------------------------------------------------------------
(* verify_chain(): each event names the one before it; the oldest is trusted.   *)
ChainHolds ==
    \A e, f \in events :
        f.id < e.id => f.id = e.prev \/ \E g \in events : f.id < g.id /\ g.id < e.id

(* However many threads record at once, fail and are stopped, and whatever is   *)
(* pruned, the chain verifies, unless an event went in after one with a later   *)
(* timestamp.                                                                   *)
ChainVerifies == late \/ ChainHolds

(* verify_chain() on prune(): "pruning removes events from the start".  Not so: *)
(* prune() goes by the time, and events are not inserted in its order.          *)
AlwaysVerifies == ChainHolds
=============================================================================

---------------------------- MODULE RouterStatus ----------------------------
(***************************************************************************)
(* The status of a router (router_manager.py, its routes in app.py): the   *)
(* poller and the pages read the row, ask the router, which takes seconds  *)
(* to minutes, and write the whole status back.  What a poll that finds     *)
(* another state than it read sends to the user is left out.               *)
(***************************************************************************)
EXTENDS Naturals, FiniteSets

CONSTANTS Operators,       \* requests: refresh, check for updates
          MaxChecks,       \* bound: update checks
          MaxRouterStops   \* bound: restarts

VARIABLES answering,  \* whether the router answers, ...
          newer,      \* ... and whether there are updates for it
          shown,      \* status_json: online or not, and the known updates
          routerThread,  \* the thread of start_poller()
          routerJob,     \* what the poller and each request are doing
          checks, routerStops

routerVars == <<answering, newer, shown, routerThread, routerJob, checks, routerStops>>

RouterPoller == "poller"
Actors == Operators \cup {RouterPoller}
NoJob == [pc |-> "none", kind |-> "none", previous |-> [online |-> "new", updates |-> FALSE], online |-> "new"]

RouterInit ==
    /\ answering \in BOOLEAN /\ newer = FALSE
    /\ shown = [online |-> "new", updates |-> FALSE]
    /\ routerThread = "sleeps" /\ routerJob = [a \in Actors |-> NoJob]
    /\ checks = 0 /\ routerStops = 0

-----------------------------------------------------------------------------
RouterChanges ==
    /\ answering' = ~answering
    /\ UNCHANGED <<newer, shown, routerThread, routerJob, checks, routerStops>>

UpdatesAppear ==
    /\ newer' = TRUE /\ ~newer
    /\ UNCHANGED <<answering, shown, routerThread, routerJob, checks, routerStops>>

Starts(a, kind) == routerJob' = [routerJob EXCEPT ![a] = [NoJob EXCEPT !.pc = "asks", !.kind = kind, !.previous = shown]]
JobEnds(a) == routerJob' = [routerJob EXCEPT ![a] = NoJob]

(* start_poller(): every few minutes, poll() for each of list_routers(), ...  *)
PollerWakes ==
    /\ routerThread = "sleeps" /\ routerThread' = "polls" /\ Starts(RouterPoller, "poll")
    /\ UNCHANGED <<answering, newer, shown, checks, routerStops>>

(* ... which is outside the try: when it raises the thread ends.              *)
PollerDies ==
    /\ routerThread = "sleeps" /\ routerThread' = "dead"
    /\ UNCHANGED <<answering, newer, shown, routerJob, checks, routerStops>>

PollerSleeps ==
    /\ routerThread = "polls" /\ routerJob[RouterPoller] = NoJob /\ routerThread' = "sleeps"
    /\ UNCHANGED <<answering, newer, shown, routerJob, checks, routerStops>>

(* routers_refresh(), and the first contact of routers_add()                  *)
RefreshAsked(o) ==
    /\ routerJob[o] = NoJob /\ Starts(o, "poll")
    /\ UNCHANGED <<answering, newer, shown, routerThread, checks, routerStops>>

(* routers_check_updates()                                                    *)
CheckAsked(o) ==
    /\ routerJob[o] = NoJob /\ checks < MaxChecks /\ Starts(o, "updates") /\ checks' = checks + 1
    /\ UNCHANGED <<answering, newer, shown, routerThread, routerStops>>

-----------------------------------------------------------------------------
\* Mutant: a router that does not answer leaves the row as it is.
ReturnsEarly(q) == IF answering THEN [q EXCEPT !.pc = "saves", !.online = "up"] ELSE NoJob

Seen(q) == [q EXCEPT !.pc = "saves", !.online = IF answering THEN "up" ELSE "down"]

(* poll(): drv.status(); an error is a status too.                            *)
Polls(a) ==
    /\ routerJob[a].pc = "asks" /\ routerJob[a].kind = "poll" /\ routerJob' = [routerJob EXCEPT ![a] = Seen(@)]
    /\ UNCHANGED <<answering, newer, shown, routerThread, checks, routerStops>>

(* _save_status(): the whole status, with the updates as they were read before.*)
SavesStatus(a) ==
    LET q == routerJob[a] IN
    /\ q.pc = "saves" /\ q.kind = "poll" /\ JobEnds(a)
    /\ shown' = [online |-> q.online, updates |-> q.previous.updates]
    /\ UNCHANGED <<answering, newer, routerThread, checks, routerStops>>

(* check_updates(): drv.updates() raises when the router does not answer; ... *)
CheckFails(a) ==
    /\ routerJob[a].pc = "asks" /\ routerJob[a].kind = "updates" /\ ~answering /\ JobEnds(a)
    /\ UNCHANGED <<answering, newer, shown, routerThread, checks, routerStops>>

Checks(a) ==
    /\ routerJob[a].pc = "asks" /\ routerJob[a].kind = "updates" /\ answering
    /\ routerJob' = [routerJob EXCEPT ![a].pc = "saves", ![a].online = IF newer THEN "updates" ELSE "none"]
    /\ UNCHANGED <<answering, newer, shown, routerThread, checks, routerStops>>

(* ... what it found is stored with the rest of the status as it was before.  *)
SavesUpdates(a) ==
    LET q == routerJob[a] IN
    /\ q.pc = "saves" /\ q.kind = "updates" /\ JobEnds(a)
    /\ shown' = [online |-> q.previous.online, updates |-> q.online = "updates"]
    /\ UNCHANGED <<answering, newer, routerThread, checks, routerStops>>

(* The process stops and starts.                                              *)
RouterRestart ==
    /\ routerStops < MaxRouterStops /\ routerStops' = routerStops + 1
    /\ routerThread' = "sleeps" /\ routerJob' = [a \in Actors |-> NoJob]
    /\ UNCHANGED <<answering, newer, shown, checks>>

RouterStep(a) == Polls(a) \/ SavesStatus(a) \/ CheckFails(a) \/ Checks(a) \/ SavesUpdates(a)

RouterNext ==
    \/ RouterChanges \/ UpdatesAppear \/ PollerWakes \/ PollerDies \/ PollerSleeps \/ RouterRestart
    \/ \E o \in Operators : RefreshAsked(o) \/ CheckAsked(o)
    \/ \E a \in Actors : RouterStep(a)

RouterSpec == RouterInit /\ [][RouterNext]_routerVars

(* Each thread goes on, and the poller's sleep ends.                          *)
RouterFairness ==
    /\ WF_routerVars(PollerWakes) /\ WF_routerVars(PollerSleeps)
    /\ \A a \in Actors : WF_routerVars(RouterStep(a))

-----------------------------------------------------------------------------
PollerGoesOn == []<>(routerThread = "sleeps") /\ []<>(routerThread = "polls")

(* Once a router stays up, or down, and the poller goes on, the page shows it so*)
(* for good, although polls and update checks overlap and each writes back the*)
(* whole status it had read.                                                  *)
PagesFollowTheRouter ==
    PollerGoesOn => /\ <>[]answering => <>[](shown.online = "up")
                    /\ <>[]~answering => <>[](shown.online = "down")
=============================================================================

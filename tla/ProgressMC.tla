---------------------------- MODULE ProgressMC ----------------------------
(* What must come to an end, on instances smaller than those of RequestsMC    *)
(* and PollersMC, the host list with one thread as the map it implements, and *)
(* what the pages show of routers and servers.  An execution is one of any    *)
(* part.                                                                      *)
EXTENDS HostStore, ConfigRestore, SelfUpdate, SignIn, ShutdownSchedule, RouterStatus, HwMetrics, StressTest
CONSTANTS db, full
MCHolds == [a \in {full} |-> {db}]
VARIABLE part

MCInit == /\ HostInit /\ RestoreInit /\ UpdateInit /\ SignInInit /\ Init /\ RouterInit /\ HwInit /\ StressInit
          /\ part \in {"hosts", "restore", "update", "signin", "shutdown", "routers", "hw", "stress"}
          \* Where the others start does not matter: one of their initial states is enough.
          /\ part # "restore" => data = NoFiles
          /\ part # "signin" => userLimit = 2
          /\ part # "shutdown" => rows = [id \in Ids |-> NoRow]
          /\ part # "routers" => answering
          /\ part # "hw" => inHosts = {} /\ machine \in [Servers -> {"up"}]
          /\ part # "stress" => skips = {} /\ gpu /\ limiter = "off"
InHosts(A) == part = "hosts" /\ A /\ UNCHANGED <<restoreVars, updateVars, signInVars, vars, routerVars, hwVars, stressVars, part>>
InRestore(A) == part = "restore" /\ A /\ UNCHANGED <<hostVars, updateVars, signInVars, vars, routerVars, hwVars, stressVars, part>>
InUpdate(A) == part = "update" /\ A /\ UNCHANGED <<hostVars, restoreVars, signInVars, vars, routerVars, hwVars, stressVars, part>>
InSignin(A) == part = "signin" /\ A /\ UNCHANGED <<hostVars, restoreVars, updateVars, vars, routerVars, hwVars, stressVars, part>>
InShutdown(A) == part = "shutdown" /\ A /\ UNCHANGED <<hostVars, restoreVars, updateVars, signInVars, routerVars, hwVars, stressVars, part>>
InRouters(A) == part = "routers" /\ A /\ UNCHANGED <<hostVars, restoreVars, updateVars, signInVars, vars, hwVars, stressVars, part>>
InHw(A) == part = "hw" /\ A /\ UNCHANGED <<hostVars, restoreVars, updateVars, signInVars, vars, routerVars, stressVars, part>>
InStress(A) == part = "stress" /\ A /\ UNCHANGED <<hostVars, restoreVars, updateVars, signInVars, vars, routerVars, hwVars, part>>
MCNext == \/ InHosts(HostNext)
          \/ InRestore(RestoreNext)
          \/ InUpdate(UpdateNext)
          \/ InSignin(SignInNext)
          \/ InShutdown(Next)
          \/ InRouters(RouterNext)
          \/ InHw(HwNext)
          \/ InStress(StressNext)
MCVars == <<hostVars, restoreVars, updateVars, signInVars, vars, routerVars, hwVars, stressVars, part>>
MCFairness == \/ part = "hosts" /\ HostFairness
              \/ part = "restore" /\ RestoreFairness
              \/ part = "update" /\ UpdateFairness
              \/ part = "signin" /\ SignInFairness
              \/ part = "shutdown" /\ Fairness
              \/ part = "routers" /\ RouterFairness
              \/ part = "hw" /\ HwFairness
              \/ part = "stress" /\ StressFairness
MCSpec == MCInit /\ [][MCNext]_MCVars /\ MCFairness

(* A capability probe that was scheduled ends, so that its host can be probed
   again; a start that applies a restore finishes, however often it is
   interrupted, and every upload of an archive is answered; the flag of a running
   update is cleared; a lock of an account or an address ends although attempts
   go on; the thread of scheduled shutdown gets back to sleep; a stress test that
   is told to stop does, unless the signal came while it wrote to its log. *)
WhatBeginsEnds == /\ part = "hosts" => ProbesEnd
                  /\ part = "restore" => StartsFinish
                  /\ part = "restore" => UploadsAnswered
                  /\ part = "update" => FlagsClear
                  /\ part = "signin" => LocksEnd
                  /\ part = "shutdown" => PassesEnd
                  /\ part = "stress" => TestsEnd

(* The page of a router, or of a server in HW Monitor, that stays up, or down,
   comes to show it so and goes on to. *)
PagesFollow == /\ part = "routers" => PagesFollowTheRouter
               /\ part = "hw" => PagesFollowServers
=============================================================================

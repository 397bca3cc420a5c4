----------------------------- MODULE ProxyRoutes -----------------------------
(***************************************************************************)
(* Reverse-proxy routes (proxy_manager.py, its routes in app.py, the root  *)
(* helper scripts/fleetpilot-proxy-apply).                                 *)
(*                                                                         *)
(* A request saves the changed registry, has the helper write and load     *)
(* HAProxy's configuration from it, and puts the registry back and applies *)
(* once more when that fails.  The helper in turn puts the configuration   *)
(* back when HAProxy does not load it.                                     *)
(***************************************************************************)
EXTENDS Naturals

CONSTANTS RouteNames, ProxyRequests

VARIABLES registry,  \* proxy_routes.json, replaced in one step
          config,    \* haproxy.cfg, and ...
          backup,    \* ... haproxy.cfg.fleetpilot.bak: the routes in them
          running,   \* what HAProxy has loaded
          change     \* what each request is doing

proxyVars == <<registry, config, backup, running, change>>

PackageConfig == {"package"}   \* what HAProxy was installed with
Stopped == {"stopped"}

NoProxyChange == [pc |-> "none", several |-> FALSE, todo |-> {}, previous |-> {}, stage |-> "first", slow |-> FALSE,
         late |-> FALSE, routes |-> {}, told |-> "nothing", was |-> PackageConfig]

ProxyInit ==
    /\ registry \in {{}, RouteNames} /\ config \in {registry, PackageConfig}
    /\ running = config /\ backup = PackageConfig
    /\ change = [p \in ProxyRequests |-> NoProxyChange]

Requesting(p, several, todo) ==
    [NoProxyChange EXCEPT !.pc = "saves", !.several = several, !.todo = todo, !.previous = registry, !.was = config]

-----------------------------------------------------------------------------
(* proxy_add_service(): one route; proxy_add_proxmox_routes() and               *)
(* proxy_add_unraid_route(): the chosen hosts that have none.                   *)
AddsRoutes(p, several, todo) ==
    /\ change[p].pc = "none" /\ todo # {} /\ (~several => \E x \in todo : todo = {x})
    /\ change' = [change EXCEPT ![p] = Requesting(p, several, todo)]
    /\ UNCHANGED <<registry, config, backup, running>>

AnswersWith(p, answer) == change' = [change EXCEPT ![p].pc = "none", ![p].told = answer]
Applies(p, stage) == change' = [change EXCEPT ![p].pc = "loads", ![p].stage = stage, ![p].slow = FALSE]

(* proxy_manager.add_route(), save_routes(): a name in use is refused, which    *)
(* undoes what the request has saved before.                                    *)
SavesRoute(p, x) ==
    LET q == change[p] IN
    /\ q.pc = "saves" /\ x \in q.todo
    /\ IF x \notin registry
       THEN /\ registry' = registry \cup {x}
            /\ change' = [change EXCEPT ![p].todo = @ \ {x}, ![p].pc = IF q.todo = {x} THEN "loads" ELSE @]
       ELSE IF q.several THEN registry' = q.previous /\ Applies(p, "again")
       ELSE AnswersWith(p, "unchanged") /\ UNCHANGED registry
    /\ UNCHANGED <<config, backup, running>>

(* proxy_delete_service()                                                       *)
RemovesRoute(p, x) ==
    /\ change[p].pc = "none" /\ x \in registry /\ registry' = registry \ {x}
    /\ change' = [change EXCEPT ![p] = [Requesting(p, FALSE, {}) EXCEPT !.pc = "loads"]]
    /\ UNCHANGED <<config, backup, running>>

-----------------------------------------------------------------------------
\* Mutant: a failure is answered at once, and nobody puts the registry back.
OnlyAnswers(p) == AnswersWith(p, "unchanged") /\ UNCHANGED registry

(* _apply_proxy_routes_or_rollback() after an apply() that failed, and the      *)
(* handler's own rollback around it.                                            *)
RollsBack(p) ==
    CASE change[p].stage = "first"                            -> registry' = change[p].previous /\ Applies(p, "rollback")
      [] change[p].stage = "rollback" /\ change[p].several    -> registry' = change[p].previous /\ Applies(p, "again")
      [] OTHER                                                -> AnswersWith(p, "unchanged") /\ UNCHANGED registry

(* apply() in the helper and in the application.  One that takes longer than 45 *)
(* seconds counts as failed; sudo's process cannot be killed and is waited for. *)
ApplyEnds(p, good) ==
    IF good /\ ~change[p].slow /\ change[p].stage = "first"
    THEN AnswersWith(p, "applied") /\ UNCHANGED registry
    ELSE IF good /\ change[p].stage = "rollback" /\ ~change[p].several
    THEN AnswersWith(p, "unchanged") /\ UNCHANGED registry
    ELSE RollsBack(p)

TakesLong(p) ==
    /\ change[p].pc \in {"loads", "checks", "replaces", "reloads"} /\ ~change[p].slow
    /\ change' = [change EXCEPT ![p].slow = TRUE, ![p].late = TRUE]
    /\ UNCHANGED <<registry, config, backup, running>>

(* The helper: reads and validates the registry, or sudo refuses to run it; ... *)
LoadsRoutes(p) ==
    /\ change[p].pc = "loads" /\ change' = [change EXCEPT ![p].pc = "checks", ![p].routes = registry]
    /\ UNCHANGED <<registry, config, backup, running>>

HelperRefused(p) ==
    /\ change[p].pc = "loads" /\ ApplyEnds(p, FALSE)
    /\ UNCHANGED <<config, backup, running>>

(* ... has HAProxy check what it rendered; ...                                  *)
Checks(p) ==
    /\ change[p].pc = "checks" /\ change' = [change EXCEPT ![p].pc = "replaces"]
    /\ UNCHANGED <<registry, config, backup, running>>

CheckFails(p) ==
    /\ change[p].pc = "checks" /\ ApplyEnds(p, FALSE)
    /\ UNCHANGED <<config, backup, running>>

(* ... keeps the present configuration, replaces it, ...                        *)
Replaces(p) ==
    /\ change[p].pc = "replaces" /\ change' = [change EXCEPT ![p].pc = "reloads"]
    /\ backup' = config /\ config' = change[p].routes
    /\ UNCHANGED <<registry, running>>

(* ... and loads it, ...                                                        *)
Reloads(p) ==
    /\ change[p].pc = "reloads" /\ ApplyEnds(p, TRUE) /\ running' = config
    /\ UNCHANGED <<config, backup>>

\* Mutant: the configuration that HAProxy refused is left in place.
LeavesConfig(old) == config

PutsBack(old) == old

(* ... or puts the kept one back and loads that, whatever comes of it.          *)
ReloadFails(p) ==
    /\ change[p].pc = "reloads" /\ ApplyEnds(p, FALSE)
    /\ config' = PutsBack(backup) /\ running' \in {running, PutsBack(backup), Stopped}
    /\ UNCHANGED backup

(* A reload that takes longer than 30 seconds is an exception instead: nothing  *)
(* is put back.                                                                 *)
ReloadHangs(p) ==
    /\ change[p].pc = "reloads" /\ change[p].late /\ ApplyEnds(p, FALSE)
    /\ running' \in {running, config, Stopped}
    /\ UNCHANGED <<config, backup>>

(* The process stops, and the helper with it.                                   *)
ProxyRestart ==
    /\ \E p \in ProxyRequests : change[p].pc # "none"
    /\ change' = [p \in ProxyRequests |-> NoProxyChange]
    /\ UNCHANGED <<registry, config, backup, running>>

ProxyStep(p) ==
    \/ TakesLong(p) \/ LoadsRoutes(p) \/ HelperRefused(p) \/ Checks(p) \/ CheckFails(p)
    \/ Replaces(p) \/ Reloads(p) \/ ReloadFails(p) \/ ReloadHangs(p)
    \/ \E x \in RouteNames : SavesRoute(p, x) \/ RemovesRoute(p, x)
    \/ \E several \in BOOLEAN, todo \in SUBSET RouteNames : AddsRoutes(p, several, todo)

ProxyNext == (\E p \in ProxyRequests : ProxyStep(p)) \/ ProxyRestart

ProxySpec == ProxyInit /\ [][ProxyNext]_proxyVars

-----------------------------------------------------------------------------
(* With one request at a time, what it answers is so: "applied" means that the  *)
(* registry, the configuration and HAProxy agree, and "not changed" that the    *)
(* registry is what it was, however many routes had been saved before one was   *)
(* refused, and whatever step of the helper failed.  HAProxy's configuration is *)
(* then the registry's too, or the one before, unless a step took too long.     *)
AnswersAreTrue ==
    \A p \in ProxyRequests :
        /\ change[p].told = "applied" => config = registry /\ running = registry
        /\ change[p].told = "unchanged" => registry = change[p].previous
        /\ change[p].told = "unchanged" /\ ~change[p].late => config \in {change[p].was, registry}
=============================================================================

------------------------------ MODULE VmActions ------------------------------
(***************************************************************************)
(* Starting and stopping guests of Proxmox and backup jobs of Veeam        *)
(* (vm_controller.py and its routes in app.py): a click logs in, looks the *)
(* node or job up, asks for the action and writes the event log.  Each of  *)
(* the three requests is tried again after an error that looks transient,  *)
(* the action itself included, whether or not it was carried out.          *)
(***************************************************************************)
EXTENDS Naturals

CONSTANTS Clicks,   \* requests for an action
          Retries   \* of _http(): attempts after the first

ASSUME RetriesAssumption == Retries \in Nat

VARIABLES vmEndpoint,  \* whether the row of the endpoint is there
          vmClick,     \* what each click is at, and the attempts of the request it is at
          vmDone,      \* how often the action of each click was carried out
          vmLost,      \* how many answers to it were lost on the way
          vmAnswers,   \* how many came back, errors of HTTP included
          vmLog        \* its line in vm_events

vmVars == <<vmEndpoint, vmClick, vmDone, vmLost, vmAnswers, vmLog>>

VmNotYet == [pc |-> "none", attempt |-> 0, ok |-> FALSE]

VmInit ==
    /\ vmEndpoint = TRUE
    /\ vmClick = [c \in Clicks |-> VmNotYet]
    /\ vmDone = [c \in Clicks |-> 0] /\ vmLost = [c \in Clicks |-> 0]
    /\ vmAnswers = [c \in Clicks |-> 0]
    /\ vmLog = [c \in Clicks |-> "none"]

-----------------------------------------------------------------------------
VmGoes(c, pc) == vmClick' = [vmClick EXCEPT ![c] = [VmNotYet EXCEPT !.pc = pc, !.ok = vmClick[c].ok]]

(* vm_add() and vm_delete()                                                   *)
VmEndpointChanges ==
    /\ vmEndpoint' = ~vmEndpoint /\ UNCHANGED <<vmClick, vmDone, vmLost, vmAnswers, vmLog>>

(* vm_action() and veeam_start_job(); connect() reads the row.                *)
VmClicked(c) ==
    /\ vmClick[c].pc = "none"
    /\ VmGoes(c, IF vmEndpoint THEN "login" ELSE "failed")
    /\ UNCHANGED <<vmEndpoint, vmDone, vmLost, vmAnswers, vmLog>>

\* Mutant: an error of HTTP is tried again as well.
TriedAgainAlways(c, error) == vmClick[c].attempt < Retries

(* _http(): an error that looks transient is tried again, an error of HTTP    *)
(* never.                                                                     *)
TriedAgain(c, error) == error \in {"unreached", "lost"} /\ vmClick[c].attempt < Retries

VmAgain(c) == vmClick' = [vmClick EXCEPT ![c].attempt = @ + 1]

(* ProxmoxClient._login() and VeeamClient._login(): the exception ends the    *)
(* click without a line in the log.                                           *)
VmLogsIn(c) ==
    /\ vmClick[c].pc = "login"
    /\ \/ VmGoes(c, "lookup")
       \/ \E error \in {"unreached", "lost", "refused", "broken"} :
              IF TriedAgain(c, error) THEN VmAgain(c) ELSE VmGoes(c, "failed")
    /\ UNCHANGED <<vmEndpoint, vmDone, vmLost, vmAnswers, vmLog>>

(* ProxmoxClient._node() and VeeamClient._job(): what cannot be asked for is  *)
(* an empty list, in which nothing is found; that too is answered without a   *)
(* line in the log.                                                           *)
VmLooksUp(c) ==
    /\ vmClick[c].pc = "lookup"
    /\ \/ VmGoes(c, "action") \/ VmGoes(c, "failed")
       \/ \E error \in {"unreached", "lost", "refused", "broken"} : TriedAgain(c, error) /\ VmAgain(c)
    /\ UNCHANGED <<vmEndpoint, vmDone, vmLost, vmAnswers, vmLog>>

(* The action is carried out and the answer arrives ...                       *)
VmAnswered(c) ==
    /\ vmClick[c].pc = "action"
    /\ vmDone' = [vmDone EXCEPT ![c] = @ + 1] /\ vmAnswers' = [vmAnswers EXCEPT ![c] = @ + 1]
    /\ vmClick' = [vmClick EXCEPT ![c] = [VmNotYet EXCEPT !.pc = "logs", !.ok = TRUE]]
    /\ UNCHANGED <<vmEndpoint, vmLost, vmLog>>

(* ... or the time-out comes before it, or the connection goes; ...           *)
VmAnswerLost(c) ==
    /\ vmClick[c].pc = "action"
    /\ vmDone' = [vmDone EXCEPT ![c] = @ + 1] /\ vmLost' = [vmLost EXCEPT ![c] = @ + 1]
    /\ IF TriedAgain(c, "lost") THEN VmAgain(c) ELSE VmGoes(c, "logs")
    /\ UNCHANGED <<vmEndpoint, vmAnswers, vmLog>>

(* ... or it is not carried out: not reached, no certificate, or an error of  *)
(* HTTP, which is an answer.                                                  *)
VmNotDone(c, error) ==
    /\ vmClick[c].pc = "action"
    /\ IF TriedAgain(c, error) THEN VmAgain(c) ELSE VmGoes(c, "logs")
    /\ vmAnswers' = [vmAnswers EXCEPT ![c] = IF error = "refused" THEN @ + 1 ELSE @]
    /\ UNCHANGED <<vmEndpoint, vmDone, vmLost, vmLog>>

(* log_event(), and the answer to the browser.                                *)
VmLogs(c) ==
    /\ vmClick[c].pc = "logs"
    /\ vmLog' = [vmLog EXCEPT ![c] = IF vmClick[c].ok THEN "ok" ELSE "error"]
    /\ VmGoes(c, "answered")
    /\ UNCHANGED <<vmEndpoint, vmDone, vmLost, vmAnswers>>

(* The database stays locked.                                                 *)
VmLogFails(c) ==
    /\ vmClick[c].pc = "logs" /\ VmGoes(c, "failed") /\ UNCHANGED <<vmEndpoint, vmDone, vmLost, vmAnswers, vmLog>>

(* The process stops; what it was at goes.                                    *)
VmRestart ==
    /\ \E c \in Clicks : vmClick[c].pc \notin {"none", "answered", "failed"}
    /\ vmClick' = [c \in Clicks |-> IF vmClick[c].pc \in {"none", "answered"} THEN vmClick[c]
                                    ELSE [VmNotYet EXCEPT !.pc = "failed"]]
    /\ UNCHANGED <<vmEndpoint, vmDone, vmLost, vmAnswers, vmLog>>

VmNext ==
    \/ VmEndpointChanges \/ VmRestart
    \/ \E c \in Clicks : \/ VmClicked(c) \/ VmLogsIn(c) \/ VmLooksUp(c) \/ VmAnswered(c) \/ VmAnswerLost(c)
                         \/ VmLogs(c) \/ VmLogFails(c)
                         \/ \E error \in {"unreached", "refused", "broken"} : VmNotDone(c, error)

VmSpec == VmInit /\ [][VmNext]_vmVars

-----------------------------------------------------------------------------
(* A click that was answered is not carried out again, whatever the answer,   *)
(* and one that was not only after a loss, as often as _http() may try;       *)
(* the log says ok of what was carried out, and an error of what was not, or  *)
(* of what no answer came back about.                                         *)
ActionsAreTold ==
    \A c \in Clicks :
        /\ vmAnswers[c] <= 1 /\ vmDone[c] <= vmAnswers[c] + vmLost[c] /\ vmLost[c] + vmAnswers[c] <= 1 + Retries
        /\ vmLog[c] = "ok" => vmDone[c] = 1 + vmLost[c]
        /\ vmLog[c] = "error" => vmDone[c] = vmLost[c]
=============================================================================

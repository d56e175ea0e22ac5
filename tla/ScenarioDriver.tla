--------------------------- MODULE ScenarioDriver ---------------------------
(***************************************************************************)
(* The scripts that drive the three scenarios (scenarios/run_*.py) and     *)
(* what the last node of their graphs does: as long as a run comes back    *)
(* paused a script approves every request and runs again; the ambiguous    *)
(* scenario then amends the spec once and does all of that a second time.  *)
(* release_notification sends the release report to a webhook and, when    *)
(* that fails, writes it to a local outbox (orchestrator/agents.py).       *)
(***************************************************************************)
EXTENDS AuditedRun, EngineProperties

CONSTANT Rounds  \* releases a script asks for: 2 in run_ambiguous.py, else 1

ASSUME RoundsAssumption == Rounds \in 1..(MaxReplans + 1)

(* What the graphs of all three scenarios have in common (graphs.py), and  *)
(* where the ambiguous one is re-planned from.                             *)
ASSUME ScenarioAssumption ==
    /\ {"requirements", "release_readiness", "release_notification"} \subseteq Nodes
    /\ "release_readiness" \in DependsOn["release_notification"]
    /\ Rounds > 1 => "requirements" \in ReplanRoots

VARIABLES
    script,  \* what the script does next
    round,   \* the release it asks for
    posted,  \* the version of the report the webhook got last
    written  \* the version of the report in the outbox

scriptVars == <<script, round>>
releaseVars == <<posted, written>>
allVars == <<auditedVars, scriptVars, releaseVars>>

ScriptInit ==
    /\ AuditedInit
    /\ script = "call"
    /\ round = 1
    /\ posted = 0
    /\ written = 0

-----------------------------------------------------------------------------
(* make_release_notification_handler: the report is the record of          *)
(* release_readiness at the time of the call.                              *)
Report == version["release_readiness"]

OutboxOnce == IF written = 0 THEN Report ELSE written  \* a mistake: to keep the old file

Outbox == Report

(* A post may reach the webhook whether or not the attempt succeeds: the   *)
(* answer may be what times out.                                           *)
MayHavePosted == posted' \in {posted, Report}

Notify(n) ==
    /\ InTurn(n)
    /\ \/ AttemptSucceeds(n) /\ posted' = Report /\ UNCHANGED written
       \/ FallbackSucceeds(n) /\ MayHavePosted /\ written' = Outbox
       \/ (Retry(n) \/ GiveUp(n)) /\ MayHavePosted /\ UNCHANGED written

DriverExecute(n) ==
    /\ \/ n = "release_notification" /\ Notify(n)
       \/ n # "release_notification" /\ Calls(n) /\ UNCHANGED releaseVars
       \/ Others(n) /\ UNCHANGED releaseVars
    /\ UNCHANGED scriptVars

-----------------------------------------------------------------------------
(* The script, in the caller's thread.                                     *)

Undecided == {i \in DOMAIN requests : requests[i].status = "pending"}

Asks ==
    /\ script = "call"
    /\ CallRun
    /\ script' = "look"
    /\ UNCHANGED round

(* for req in orch.pending_approvals(): orch.approve(...), which ends the  *)
(* script if it raises.                                                    *)
IsNext(i) == i \in Undecided /\ \A j \in Undecided : i <= j

Approves ==
    /\ script = "look" /\ result = "paused"
    /\ \E i \in DOMAIN requests : IsNext(i) /\ Approve(i)
    /\ UNCHANGED scriptVars

FailsToApprove ==
    /\ script = "look" /\ result = "paused"
    /\ \E i \in DOMAIN requests : IsNext(i) /\ DecisionRaises(i, "approved")
    /\ script' = "end"
    /\ UNCHANGED round

Resumes ==
    /\ script = "look" /\ phase = "idle" /\ result = "paused"
    /\ Undecided = {}
    /\ script' = "call"
    /\ UNCHANGED <<vars, round>>

Amends ==
    /\ script = "look" /\ result = "completed"
    /\ round < Rounds
    /\ Amend("requirements")
    /\ script' = "call"
    /\ round' = round + 1

(* An exception that leaves run() ends the script as well.                 *)
Ends ==
    /\ script = "look" /\ phase = "idle"
    /\ result # "paused"
    /\ result = "completed" => round = Rounds
    /\ script' = "end"
    /\ UNCHANGED <<vars, round>>

Script ==
    /\ Asks \/ Approves \/ FailsToApprove \/ Resumes \/ Amends \/ Ends
    /\ LoggedAtOnce
    /\ UNCHANGED <<attempt, unsaid, failureOpen, releaseVars>>

Loop == AuditedRunLoop /\ UNCHANGED <<scriptVars, releaseVars>>

ScriptNext == Loop \/ (\E n \in Nodes : DriverExecute(n)) \/ Script

ScriptSpec ==
    /\ ScriptInit /\ [][ScriptNext]_allVars
    /\ WF_allVars(Loop) /\ WF_allVars(Script)
    /\ \A n \in Nodes : WF_allVars(DriverExecute(n))

-----------------------------------------------------------------------------
(* The retry loop counts its attempts, one event at a time is on its way   *)
(* to the log, and the script runs within its rounds                       *)
(* (reliability.py:51-65, audit.py:58-71).                                 *)
ScriptTypeOK ==
    /\ attempt \in [Nodes -> Nat]
    /\ \A n \in Nodes : attempt[n] <= MaxAttempts[n] /\ (attempt[n] > 0 <=> pc[n] = "working")
    /\ unsaid \in [Nodes -> SUBSET Event] /\ \A n \in Nodes : \A e, f \in unsaid[n] : e = f
    /\ latest \in [Nodes -> Outcomes]
    /\ failureOpen \subseteq Nodes
    /\ script \in {"call", "look", "end"} /\ round \in 1..Rounds
    /\ posted \in Nat /\ written \in Nat

(* When a run reports completed or failed, the metrics it carries, folded  *)
(* from events that threads emit after they wrote the statuses, count      *)
(* every node under the status it has, and no recovery is left open if all *)
(* went well.  It is what metrics.py:48 asks for, "how many of the graph's *)
(* N nodes are currently in each terminal state" (engine.py:118-119); with *)
(* a rollback the events of two threads can get into another order than    *)
(* their statuses.                                                         *)
MetricsAgree ==
    [][phase # "idle" /\ phase' = "idle" /\ result' \in {"completed", "failed"}
          => /\ latest' = statuses'
             /\ result' = "completed" => failureOpen' = {}]_allVars

(* When a release is reported completed, the webhook or the outbox holds   *)
(* the report of this release, not of the one before the re-plan           *)
(* (agents.py:489-508).                                                    *)
NotificationCurrent ==
    phase = "idle" /\ result = "completed" /\ script = "look"
        => version["release_readiness"] \in {posted, written} \ {0}

(* A human who approves whatever is asked gets an answer: the loop of the  *)
(* script over paused runs is left, in every round (run_ambiguous.py:27-44).*)
ScriptTerminates == <>(script = "end")

=============================================================================

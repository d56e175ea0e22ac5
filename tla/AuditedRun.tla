----------------------------- MODULE AuditedRun -----------------------------
(***************************************************************************)
(* An orchestrator run with the attempts of run_with_retries               *)
(* (orchestrator/reliability.py), the audit log (audit.py) and the metrics *)
(* that are computed from it (metrics.py).                                 *)
(*                                                                         *)
(* A pool thread writes a node's status first and emits the event that     *)
(* tells of it afterwards, so what other threads do comes between: here an *)
(* emission is a step of its own.  compute_metrics folds the events in the *)
(* order they were logged; the fold is carried along with the log, whose   *)
(* events themselves are not kept.                                         *)
(***************************************************************************)
EXTENDS Engine

CONSTANTS
    MaxAttempts,     \* retry_policy.max_attempts, per node
    HasFallback,     \* nodes with a fallback
    Flaky,           \* nodes whose attempts may fail
    FlakyFallback    \* nodes whose fallback may fail

ASSUME AttemptsAssumption ==
    /\ MaxAttempts \in [Nodes -> Nat \ {0}]
    /\ HasFallback \subseteq Nodes
    /\ Flaky \subseteq Nodes
    /\ FlakyFallback \subseteq HasFallback

VARIABLES
    attempt,     \* the attempt of run_with_retries a node is in, 0 outside
    unsaid,      \* the event a thread has yet to emit, in a set
    latest,      \* latest_terminal in compute_metrics, "none" without an entry
    failureOpen  \* the keys of failure_open_at in compute_metrics

auditVars == <<attempt, unsaid, latest, failureOpen>>
auditedVars == <<vars, auditVars>>

Outcomes == Terminal \union {"none"}

Event == [node : Nodes, outcome : Terminal]

AuditedInit ==
    /\ Init
    /\ attempt = [n \in Nodes |-> 0]
    /\ unsaid = [n \in Nodes |-> {}]
    /\ latest = [n \in Nodes |-> "none"]
    /\ failureOpen = {}

-----------------------------------------------------------------------------
(* compute_metrics, one event further. *)

FirstOutcome(e) ==  \* a mistake: setdefault, as it is right for failure_open_at
    [latest EXCEPT ![e.node] = IF @ = "none" THEN e.outcome ELSE @]

LastOutcome(e) == [latest EXCEPT ![e.node] = e.outcome]

OpenAfter(e) ==
    CASE e.outcome = "completed" -> failureOpen \ {e.node}
      [] e.outcome = "failed" -> failureOpen \union {e.node}
      [] OTHER -> failureOpen

(* AuditLog.emit appends under its lock. *)
Emit(n) ==
    \E e \in unsaid[n] :
        /\ unsaid' = [unsaid EXCEPT ![n] = {}]
        /\ latest' = LastOutcome(e)
        /\ failureOpen' = OpenAfter(e)
        /\ UNCHANGED <<vars, attempt>>

(* What a thread has yet to say once the step it makes is done.            *)
Says(n, m, outcome) ==
    unsaid' = [unsaid EXCEPT ![n] = {[node |-> m, outcome |-> outcome]}]

Silent == UNCHANGED unsaid

-----------------------------------------------------------------------------
(* run_with_retries around the handler of n. *)

FirstAttempt(n) ==
    /\ BeginWork(n)
    /\ attempt' = [attempt EXCEPT ![n] = 1]
    /\ Silent

AtLast(n) == attempt[n] + 1 = MaxAttempts[n]  \* a mistake: one attempt too few

LastAttempt(n) == attempt[n] = MaxAttempts[n]

Retry(n) ==
    /\ pc[n] = "working"
    /\ n \in Flaky /\ ~LastAttempt(n)
    /\ attempt' = [attempt EXCEPT ![n] = @ + 1]
    /\ UNCHANGED vars
    /\ Silent

AttemptSucceeds(n) ==
    /\ Complete(n)
    /\ attempt' = [attempt EXCEPT ![n] = 0]
    /\ Says(n, n, "completed")

(* The last attempt failed: the fallback is run once, if there is one.     *)
FallbackSucceeds(n) ==
    /\ n \in Flaky /\ LastAttempt(n)
    /\ n \in HasFallback
    /\ Complete(n)
    /\ attempt' = [attempt EXCEPT ![n] = 0]
    /\ Says(n, n, "completed")

GiveUp(n) ==
    /\ n \in Flaky /\ LastAttempt(n)
    /\ n \in HasFallback => n \in FlakyFallback
    /\ HandlerFails(n)
    /\ attempt' = [attempt EXCEPT ![n] = 0]
    /\ Says(n, n, "failed")

-----------------------------------------------------------------------------
(* The steps of a pool thread, each with the event it leaves to be emitted.*)

(* A thread that has an event left to emit still holds its worker.         *)
KeepsWorker(n) ==
    Cardinality({m \in Nodes : \/ pc[m] \notin {"out", "queued"}
                               \/ unsaid[m] # {}
                               \/ pc[m] = "queued" /\ Position[m] < Position[n]})
        < MaxWorkers

Cascades(n) ==
    \/ \E m \in Nodes :
        \/ CascadeSkip(n, m) /\ Says(n, m, "skipped")
        \/ CascadeCheck(n, m) /\ Silent
    \/ /\ Undo(n)
       /\ LET u == Head(undo[n]) IN
          IF u \in registered THEN Says(n, u, "rolled_back") ELSE Silent
    \/ (UndoRaises(n) \/ EndFailure(n)) /\ Silent

Checks(n) ==
    \/ Start(n) /\ KeepsWorker(n) /\ Silent
    \/ GateFails(n) /\ Says(n, n, "failed")
    \/ AutoReject(n) /\ Says(n, n, "rolled_back")
    \/ (GateRaises(n) \/ RequestApproval(n) \/ RequestRaises(n) \/ AutoApprove(n)
            \/ AutoRaises(n) \/ Park(n)) /\ Silent

(* With an event to emit a thread does nothing else, and only an emission  *)
(* changes what the metrics will say.                                      *)
InTurn(n) == unsaid[n] = {} /\ UNCHANGED <<latest, failureOpen>>

Calls(n) ==
    InTurn(n) /\ (Retry(n) \/ AttemptSucceeds(n) \/ FallbackSucceeds(n) \/ GiveUp(n))

Others(n) ==
    \/ Emit(n)
    \/ InTurn(n) /\ FirstAttempt(n)
    \/ InTurn(n) /\ (Checks(n) \/ Cascades(n)) /\ UNCHANGED attempt

(* In the caller's thread nothing comes between a status and its event: a  *)
(* node that is skipped or rolled back now is logged with it.              *)
LoggedAtOnce ==
    latest' = [n \in Nodes |->
                  IF statuses'[n] # statuses[n] /\ statuses'[n] \in Terminal
                  THEN statuses'[n] ELSE latest[n]]

AuditedRunLoop ==
    /\ Run
    /\ \A n \in Nodes : unsaid[n] = {}
    /\ LoggedAtOnce
    /\ UNCHANGED <<attempt, unsaid, failureOpen>>

=============================================================================

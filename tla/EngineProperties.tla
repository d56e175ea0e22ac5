-------------------------- MODULE EngineProperties --------------------------
(***************************************************************************)
(* What makes an orchestrator run correct, the inductive invariants that   *)
(* rests on, and what the documents promise beyond it.                     *)
(***************************************************************************)
EXTENDS Engine

(* The engine's variables keep their types: only nodes that require it are *)
(* ever approved and only undoable ones are registered for rollback        *)
(* (engine.py:214, 278).                                                   *)
TypeOK ==
    /\ statuses \in [Nodes -> Status]
    /\ approved \subseteq RequiresApproval
    /\ pendingReq \in [Nodes -> Nat]
    /\ requests \in Seq(ApprovalRequest)
    /\ safeStopped \in BOOLEAN
    /\ specVersion \in Nat
    /\ version \in [Nodes -> Nat]
    /\ DOMAIN inputs = Nodes /\ \A n \in Nodes : inputs[n] \in [DependsOn[n] -> Nat]
    /\ registered \subseteq Undoable
    /\ begun \in [Nodes -> Nat]
    /\ granted \in [Nodes -> Nat]
    /\ redecided \in Nat /\ redecided <= MaxRedecisions
    /\ raised \in BOOLEAN
    /\ phase \in {"idle", "loop", "wave"}
    /\ result \in Results
    /\ pc \in [Nodes -> PCs]
    /\ DOMAIN read = Nodes /\ \A n \in Nodes : read[n] \in [DependsOn[n] -> Nat]
    /\ todo \in [Nodes -> SUBSET Nodes]
    /\ mark \in [Nodes -> SUBSET Nodes]
    /\ undo \in [Nodes -> Seq(Nodes)]

(* A node that requires approval begins at most as many executions as      *)
(* approvals were given for it: neither a re-plan nor a resumed run, a     *)
(* race between threads or a second decision of a request lets an approval *)
(* be used twice (engine.py:166-172, 269-278, 306).                        *)
OneApprovalPerExecution == \A n \in RequiresApproval : begun[n] <= granted[n]

(* While a handler runs, every output it depends on exists, is the version *)
(* noted in its input hashes, and is not being produced anew by a thread   *)
(* of the same wave (graph.py:110, engine.py:174).                         *)
DependencyBarrier ==
    \A n \in Nodes : pc[n] = "working" =>
        \A d \in DependsOn[n] :
            version[d] >= 1 /\ read[n][d] = version[d] /\ pc[d] = "out"

(* The output of a COMPLETED node was computed from the current outputs of *)
(* its dependencies: what a re-plan makes out of date is run again before  *)
(* it counts as completed (replanner.py:31-34, state.py:83-97).            *)
LineageFresh ==
    \A n \in Nodes : statuses[n] = "completed" =>
        \A d \in DependsOn[n] : inputs[n][d] = version[d]

(* Whatever order approvals, re-plans, supersessions and second decisions  *)
(* came in, a node that keeps a run paused has a request of its own, and a *)
(* human still sees it in pending_approvals(), unless it was decided and   *)
(* the decision could not be written (engine.py:262, 270-275;              *)
(* governance.py:113-123).                                                 *)
PauseIsDecidable ==
    \A n \in Pending : /\ pendingReq[n] \in DOMAIN requests
                       /\ requests[pendingReq[n]].node = n
                       /\ \/ requests[pendingReq[n]].status = "pending"
                          \/ n \in Unwritable

(* A run that reports completed or failed has settled every node: none is  *)
(* left pending, stale, running or parked (engine.py:82-93).               *)
RunSettlesEveryNode ==
    [][phase # "idle" /\ phase' = "idle" /\ result' \in {"completed", "failed"}
          => \A n \in Nodes : statuses'[n] \in Terminal]_vars

(* A failure is never lost: once a node of a run has FAILED, some node is  *)
(* FAILED until the run returns, although cascades of other threads may    *)
(* overwrite a status that changed under them (engine.py:225-248).         *)
FailureStaysVisible ==
    [][phase # "idle" /\ (\E n \in Nodes : statuses[n] = "failed")
          => \E n \in Nodes : statuses'[n] = "failed"]_vars

(* A node is only ever skipped because something upstream of it failed or  *)
(* was rolled back (engine.py:229-232, 245-248, 283-286, 145-148).         *)
SkippedHasCause ==
    \A n \in Nodes : statuses[n] = "skipped" =>
        \E u \in Nodes : n \in Downstream(u) /\ statuses[u] \in {"failed", "rolled_back"}

(* Between runs, no failed node has left the upstream work it undoes in    *)
(* place (engine.py:237-240).                                              *)
FailureUndone ==
    phase = "idle" =>
        \A n \in Nodes : statuses[n] = "failed" =>
            \A i \in DOMAIN RollbackOnFailure[n] :
                RollbackOnFailure[n][i] \in registered
                    => statuses[RollbackOnFailure[n][i]] = "rolled_back"

(* What the run promises without its statuses, waves and threads, seen     *)
(* through the versions, the handlers at work and the approvals given.     *)
Working == {n \in Nodes : pc[n] = "working"}

Unused == [n \in RequiresApproval |-> granted[n] - begun[n]]

Promise == INSTANCE Workflow WITH working <- Working, granted <- Unused

(* Every step of run(), its threads and its caller is a step of Workflow   *)
(* or none of its business (engine.py:73-116, 153-222).                    *)
KeepsPromise == Promise!Spec

(* And what begins to work ends (reliability.py:39-81).                    *)
KeepsFairPromise == Promise!FairSpec

(* A run returns, whatever its handlers, gates and threads do. *)
RunReturns == phase # "idle" ~> phase = "idle"

-----------------------------------------------------------------------------
(* The inductive invariants the safety properties rest on.                 *)

(* Threads run only inside a wave, and how far a thread has come bounds    *)
(* what its node's status can be, whatever the other threads write to it.  *)
ThreadInv ==
    /\ phase # "wave" => \A n \in Nodes : pc[n] = "out"
    /\ \A n \in Nodes :
        /\ pc[n] = "started" => statuses[n] \in {"running", "skipped", "rolled_back"}
        /\ pc[n] \in {"failing", "rejecting"} => statuses[n] \in Broken
        /\ pc[n] = "cleared" => n \in approved

(* A COMPLETED node has a record, and what an executing node depends on    *)
(* has one and is not executing.                                           *)
BarrierInv ==
    \A n \in Nodes :
        /\ statuses[n] = "completed" => version[n] >= 1
        /\ pc[n] # "out" => \A d \in DependsOn[n] : pc[d] = "out" /\ version[d] >= 1
        /\ pc[n] = "working" => \A d \in DependsOn[n] : read[n][d] = version[d]

(* An approved node that can still begin has an approval no execution has  *)
(* used.                                                                   *)
CanBegin(n) == \/ pc[n] = "out" /\ Runnable(n)
               \/ pc[n] \in {"queued", "started", "cleared"}

CreditInv ==
    \A n \in RequiresApproval :
        /\ begun[n] <= granted[n]
        /\ n \in approved /\ CanBegin(n) => begun[n] < granted[n]

(* When the caller decides only what pending_approvals() lists and         *)
(* re-plans only from nodes without an approval, a node has at most one    *)
(* open request, and while it has one it is neither executing, nor done,   *)
(* nor to be executed.                                                     *)
PlainCaller ==
    /\ ReplanRoots \intersect RequiresApproval = {}
    /\ MaxRedecisions = 0

Open(n) == \E i \in DOMAIN requests :
               requests[i].node = n /\ requests[i].status = "pending"

Live(n) == statuses[n] \in {"completed", "pending", "stale"} \/ pc[n] # "out"

OpenInv ==
    /\ \A i, j \in DOMAIN requests :
        /\ requests[i].status = "pending"
        /\ requests[j].status = "pending"
        /\ requests[i].node = requests[j].node
        => i = j
    /\ \A n \in Nodes : Open(n) => ~Live(n)

(* Then, as long as a node is executing, is to be executed or waits for a  *)
(* decision, nothing downstream of it is COMPLETED or executing.           *)
Unsettled(n) == Runnable(n) \/ pc[n] # "out" \/ Open(n)

ReworkInv ==
    \A n \in Nodes : Unsettled(n) =>
        \A m \in Downstream(n) : statuses[m] # "completed" /\ pc[m] = "out"

-----------------------------------------------------------------------------
(* What the documents say and the code does not do.                        *)

(* docs/architecture.md:99: "Rejection marks the node `ROLLED_BACK`".      *)
RejectedIsRolledBack ==
    phase = "idle" =>
        \A i \in DOMAIN requests : requests[i].status = "rejected"
            => statuses[requests[i].node] = "rolled_back"

=============================================================================

------------------------------- MODULE Engine -------------------------------
(***************************************************************************)
(* One orchestrator run (orchestrator/engine.py, class Orchestrator) with  *)
(* the parts it drives: the run context's node records                     *)
(* (orchestrator/state.py), the approval gate (governance.py), the         *)
(* rollback registry (reliability.py) and the re-planner (replanner.py).   *)
(*                                                                         *)
(* run() repeatedly hands the ready nodes to a thread pool and waits for   *)
(* the whole wave.  Inside a wave every pool thread reads and writes the   *)
(* shared dict `statuses` without a lock, so each statement of             *)
(* _execute_node that touches shared state is an action of its own, and    *)
(* the test and the write of a cascaded skip are two.  Between runs the    *)
(* caller may decide approval requests and amend the spec.                 *)
(***************************************************************************)
EXTENDS DepGraph, Sequences

CONSTANTS
    RequiresApproval,   \* nodes with requires_approval
    EntryGated,         \* nodes with an entry_gate
    Undoable,           \* nodes with a rollback callable
    RollbackOnFailure,  \* Node.rollback_on_failure, a sequence per node
    SafeStopOnFailure,  \* nodes with safe_stop_on_failure
    AutoDecisions,      \* what the auto_decision callback may answer;
                        \*   {} when there is no callback
    MayRaise,           \* nodes whose entry gate, approval request, callback
                        \*   or undo action may raise
    Unwritable,         \* nodes whose decisions may fail to be written
    ReplanRoots,        \* the from_node_id's of the caller's amendments
    MaxWorkers,         \* max_parallel_workers
    MaxReplans,         \* bound: spec amendments in a behaviour
    MaxRedecisions      \* bound: decisions of requests decided before; 0 is
                        \*   a caller that takes what pending_approvals() lists

ASSUME EngineAssumption ==
    /\ RequiresApproval \subseteq Nodes
    /\ EntryGated \subseteq Nodes
    /\ Undoable \subseteq Nodes
    /\ RollbackOnFailure \in [Nodes -> Seq(Nodes)]
    /\ SafeStopOnFailure \subseteq Nodes
    /\ AutoDecisions \subseteq BOOLEAN
    /\ MayRaise \subseteq Nodes
    /\ Unwritable \subseteq Nodes
    /\ ReplanRoots \subseteq Nodes
    /\ MaxWorkers \in Nat \ {0}
    /\ MaxReplans \in Nat
    /\ MaxRedecisions \in Nat

(* rollback_on_failure names upstream nodes (graph.py:63). *)
ASSUME RollbackIsUpstream ==
    \A n \in Nodes : \A i \in DOMAIN RollbackOnFailure[n] :
        n \in Downstream(RollbackOnFailure[n][i])

VARIABLES
    (* Orchestrator *)
    statuses,       \* statuses: node -> NodeStatus
    approved,       \* _approved_nodes
    pendingReq,     \* _pending_approval_by_node: node -> request, 0 for none
    safeStopped,    \* _safe_stopped
    (* ApprovalGate *)
    requests,       \* _requests in the order made; a request's id is its index
    (* RunContext *)
    specVersion,    \* spec_version
    version,        \* version of each node's record, 0 while there is none
    inputs,         \* input_hashes of the record, as the versions they hash
    (* RollbackRegistry *)
    registered,     \* nodes an undo action is registered for
    (* the audit log *)
    begun,          \* attempt_start events with attempt 1, per node
    granted,        \* approval_decided events with approved = True, per node
    redecided,      \* how often a request was decided that had been before
    (* control *)
    raised,         \* a future of the wave holds an exception that is no SafeStop
    phase,          \* where the caller's thread is
    result,         \* RunResult.status of the last run
    pc,             \* where the pool thread that runs a node is
    read,           \* input_hashes local of _execute_node
    todo,           \* nodes a thread's cascade loop has still to visit
    mark,           \* the node the loop found non-terminal and will now skip
    undo            \* rollback_on_failure entries a thread has still to visit

orchVars  == <<statuses, approved, pendingReq, requests>>
storeVars == <<version, inputs, registered, begun, granted, redecided>>
runVars   == <<safeStopped, raised, phase, result, specVersion>>
loopVars  == <<todo, mark, undo>>
vars == <<orchVars, storeVars, runVars, pc, read, loopVars>>

Status == {"pending", "running", "awaiting_approval", "completed", "failed",
           "skipped", "rolled_back", "stale"}
Terminal == {"completed", "failed", "skipped", "rolled_back"}
Broken == {"failed", "skipped", "rolled_back"}

PCs == {"out", "queued", "started", "cleared", "working", "failing", "rejecting"}
Results == {"none", "completed", "paused", "failed", "safe_stopped", "raised"}

Decisions == {"approved", "rejected"}

ApprovalRequest ==
    [node : RequiresApproval, status : Decisions \union {"pending"}, spec : Nat]

NoInputs(n) == [d \in DependsOn[n] |-> 0]

-----------------------------------------------------------------------------
Init ==
    /\ statuses = [n \in Nodes |-> "pending"]
    /\ approved = {}
    /\ pendingReq = [n \in Nodes |-> 0]
    /\ requests = <<>>
    /\ safeStopped = FALSE
    /\ specVersion = 1
    /\ version = [n \in Nodes |-> 0]
    /\ inputs = [n \in Nodes |-> NoInputs(n)]
    /\ registered = {}
    /\ begun = [n \in Nodes |-> 0]
    /\ granted = [n \in Nodes |-> 0]
    /\ redecided = 0
    /\ raised = FALSE
    /\ phase = "idle"
    /\ result = "none"
    /\ pc = [n \in Nodes |-> "out"]
    /\ read = [n \in Nodes |-> NoInputs(n)]
    /\ todo = [n \in Nodes |-> {}]
    /\ mark = [n \in Nodes |-> {}]
    /\ undo = [n \in Nodes |-> <<>>]

-----------------------------------------------------------------------------
(* The run loop: Orchestrator.run, in the caller's thread.                 *)

Runnable(n) == statuses[n] \in {"pending", "stale"}

(* Graph.ready_nodes *)
(* A mistake: to be content with an output that is out of date.            *)
DoneOrStale(d) == statuses[d] \in {"completed", "stale"}

Done(d) == statuses[d] = "completed"

Ready == {n \in Nodes : Runnable(n) /\ \A d \in DependsOn[n] : Done(d)}

Pending == {n \in Nodes : pendingReq[n] # 0}

CallRun ==
    /\ phase = "idle"
    /\ phase' = "loop"
    /\ UNCHANGED <<orchVars, storeVars, safeStopped, raised, result, specVersion,
                   pc, read, loopVars>>

(* _run_wave submits every ready node to the pool. *)
StartWave ==
    /\ phase = "loop"
    /\ ~safeStopped
    /\ Ready # {}
    /\ phase' = "wave"
    /\ pc' = [n \in Nodes |-> IF n \in Ready THEN "queued" ELSE pc[n]]
    /\ UNCHANGED <<orchVars, storeVars, safeStopped, raised, result, specVersion,
                   read, loopVars>>

(* The executor is left once every node of the wave has returned. *)
EndWave ==
    /\ phase = "wave"
    /\ \A n \in Nodes : pc[n] = "out"
    /\ ~raised
    /\ phase' = "loop"
    /\ UNCHANGED <<orchVars, storeVars, safeStopped, raised, result, specVersion,
                   pc, read, loopVars>>

(* ... unless one raised something other than SafeStop: fut.result()       *)
(* raises it again, run() ends without a result, and a SafeStop of the     *)
(* same wave is recorded only if its future was looked at before.          *)
RunRaises ==
    /\ phase = "wave"
    /\ \A n \in Nodes : pc[n] = "out"
    /\ raised
    /\ raised' = FALSE
    /\ safeStopped' \in {FALSE, safeStopped}
    /\ result' = "raised"
    /\ phase' = "idle"
    /\ UNCHANGED <<orchVars, storeVars, specVersion, pc, read, loopVars>>

(* _skip_unreachable_remainder makes one pass over the nodes in declared   *)
(* order and skips those with a broken dependency; it sees its own skips   *)
(* of nodes declared earlier.  S is the set it skips.                      *)
IsSkipPassOfFailed(S) ==  \* a mistake: to look for FAILED dependencies only
    \A n \in Nodes :
        n \in S <=> /\ statuses[n] \notin Terminal
                    /\ \E d \in DependsOn[n] : statuses[d] = "failed"

IsSkipPass(S) ==
    \A n \in Nodes :
        n \in S <=> /\ statuses[n] \notin Terminal
                    /\ \E d \in DependsOn[n] :
                           \/ statuses[d] \in Broken
                           \/ d \in S /\ Position[d] < Position[n]

Skipping(S) == [n \in Nodes |-> IF n \in S THEN "skipped" ELSE statuses[n]]

(* _build_result *)
RunStatus(st) ==
    CASE safeStopped -> "safe_stopped"
      [] ~safeStopped /\ Pending # {} -> "paused"
      [] ~safeStopped /\ Pending = {} /\ \E n \in Nodes : st[n] = "failed" -> "failed"
      [] OTHER -> "completed"

(* A mistake: to wait for the human inside the run.                        *)
NothingReadyOrPending == Ready = {} /\ Pending = {}

NothingReady == Ready = {}

Return ==
    /\ phase = "loop"
    /\ safeStopped \/ NothingReady
    /\ IF safeStopped \/ Pending # {}
       THEN statuses' = statuses
       ELSE \E S \in SUBSET {n \in Nodes : statuses[n] \notin Terminal} :
                IsSkipPass(S) /\ statuses' = Skipping(S)
    /\ result' = RunStatus(statuses')
    /\ phase' = "idle"
    /\ UNCHANGED <<approved, pendingReq, requests, storeVars, safeStopped, raised,
                   specVersion, pc, read, loopVars>>

-----------------------------------------------------------------------------
(* Orchestrator._execute_node, in the pool thread that runs n.             *)

(* The pool takes nodes in the order they were submitted, but a thread     *)
(* that has taken one may be overtaken before its first statement: n can   *)
(* start as soon as the nodes before it leave a worker free.               *)
HasWorker(n) ==
    Cardinality({m \in Nodes : \/ pc[m] \notin {"out", "queued"}
                               \/ pc[m] = "queued" /\ Position[m] < Position[n]})
        < MaxWorkers

(* The first statement: the status becomes RUNNING, whatever it was.       *)
Start(n) ==
    /\ pc[n] = "queued"
    /\ HasWorker(n)
    /\ statuses' = [statuses EXCEPT ![n] = "running"]
    /\ pc' = [pc EXCEPT ![n] = "started"]
    /\ UNCHANGED <<approved, pendingReq, requests, storeVars, runVars, read, loopVars>>

(* The first statements of _terminal_failure; the cascade, the rollbacks   *)
(* and the safe stop follow as steps of their own.                         *)
BeginFailure(n) ==
    /\ statuses' = [statuses EXCEPT ![n] = "failed"]
    /\ pc' = [pc EXCEPT ![n] = "failing"]
    /\ todo' = [todo EXCEPT ![n] = Downstream(n)]
    /\ undo' = [undo EXCEPT ![n] = RollbackOnFailure[n]]
    /\ read' = [read EXCEPT ![n] = NoInputs(n)]
    /\ UNCHANGED <<approved, pendingReq, requests, storeVars, runVars, mark>>

GateFails(n) ==
    /\ pc[n] = "started"
    /\ n \in EntryGated
    /\ BeginFailure(n)

(* An exception leaves _execute_node wherever it is raised and stays in    *)
(* the future; the node keeps the status it has.                           *)
Raise(n) ==
    /\ pc' = [pc EXCEPT ![n] = "out"]
    /\ raised' = TRUE

GateRaises(n) ==
    /\ pc[n] = "started"
    /\ n \in EntryGated \intersect MayRaise
    /\ Raise(n)
    /\ UNCHANGED <<orchVars, storeVars, safeStopped, phase, result, specVersion,
                   read, loopVars>>

NeedsApproval(n) == n \in RequiresApproval /\ n \notin approved

KeepPending(n) == pendingReq  \* a mistake: the decided request stays listed

Unpend(n) == [pendingReq EXCEPT ![n] = 0]

Granted(n) == [granted EXCEPT ![n] = @ + 1]

Request(n, s) == [node |-> n, status |-> s, spec |-> specVersion]

(* _request_approval without a callback: the request is left pending and   *)
(* the node is parked.                                                     *)
RequestApproval(n) ==
    /\ pc[n] = "started"
    /\ NeedsApproval(n)
    /\ AutoDecisions = {}
    /\ requests' = Append(requests, Request(n, "pending"))
    /\ pendingReq' = [pendingReq EXCEPT ![n] = Len(requests) + 1]
    /\ statuses' = [statuses EXCEPT ![n] = "awaiting_approval"]
    /\ pc' = [pc EXCEPT ![n] = "out"]
    /\ UNCHANGED <<approved, storeVars, runVars, read, loopVars>>

(* ApprovalGate.request stores the request before it writes the file: if   *)
(* the write raises, the request is pending but the engine has not noted   *)
(* it and the node stays RUNNING.                                          *)
RequestRaises(n) ==
    /\ pc[n] = "started"
    /\ NeedsApproval(n)
    /\ n \in MayRaise
    /\ requests' = Append(requests, Request(n, "pending"))
    /\ Raise(n)
    /\ UNCHANGED <<statuses, approved, pendingReq, storeVars, safeStopped, phase,
                   result, specVersion, read, loopVars>>

(* With a callback the engine has noted the request when the callback      *)
(* raises, or when decide() has set its status and cannot write the file;  *)
(* nothing of decide_approval that is left happens.                        *)
AutoRaises(n) ==
    /\ pc[n] = "started"
    /\ NeedsApproval(n)
    /\ AutoDecisions # {}
    /\ \/ n \in MayRaise /\ requests' = Append(requests, Request(n, "pending"))
       \/ /\ n \in Unwritable
          /\ \E yes \in AutoDecisions :
                requests' = Append(requests,
                                   Request(n, IF yes THEN "approved" ELSE "rejected"))
    /\ pendingReq' = [pendingReq EXCEPT ![n] = Len(requests) + 1]
    /\ Raise(n)
    /\ UNCHANGED <<statuses, approved, storeVars, safeStopped, phase, result,
                   specVersion, read, loopVars>>

(* _request_approval with a callback that approves: decide_approval runs   *)
(* in this thread, sets the node back to PENDING, and the execution goes   *)
(* on with that status.                                                    *)
AutoApprove(n) ==
    /\ pc[n] = "started"
    /\ NeedsApproval(n)
    /\ TRUE \in AutoDecisions
    /\ requests' = Append(requests, Request(n, "approved"))
    /\ pendingReq' = Unpend(n)
    /\ approved' = approved \union {n}
    /\ granted' = Granted(n)
    /\ statuses' = [statuses EXCEPT ![n] = "pending"]
    /\ pc' = [pc EXCEPT ![n] = "cleared"]
    /\ UNCHANGED <<version, inputs, registered, begun, redecided, runVars, read, loopVars>>

(* _request_approval with a callback that rejects: decide_approval rolls   *)
(* the node back and skips everything downstream, in this thread ...       *)
AutoReject(n) ==
    /\ pc[n] = "started"
    /\ NeedsApproval(n)
    /\ FALSE \in AutoDecisions
    /\ requests' = Append(requests, Request(n, "rejected"))
    /\ pendingReq' = Unpend(n)
    /\ statuses' = [statuses EXCEPT ![n] = "rolled_back"]
    /\ pc' = [pc EXCEPT ![n] = "rejecting"]
    /\ todo' = [todo EXCEPT ![n] = Downstream(n)]
    /\ UNCHANGED <<approved, storeVars, runVars, read, mark, undo>>

(* ... and back in _execute_node the node is not in _approved_nodes, so it *)
(* is parked as if nobody had decided.                                     *)
Park(n) ==
    /\ pc[n] = "rejecting"
    /\ todo[n] = {} /\ mark[n] = {}
    /\ statuses' = [statuses EXCEPT ![n] = "awaiting_approval"]
    /\ pc' = [pc EXCEPT ![n] = "out"]
    /\ UNCHANGED <<approved, pendingReq, requests, storeVars, runVars, read, loopVars>>

(* The approval check has passed: the outputs of the dependencies are      *)
(* noted and the first attempt begins.                                     *)
MayBegin(n) ==
    \/ pc[n] = "started" /\ ~NeedsApproval(n)
    \/ pc[n] = "cleared"

BeginWork(n) ==
    /\ MayBegin(n)
    /\ read' = [read EXCEPT ![n] = [d \in DependsOn[n] |-> version[d]]]
    /\ begun' = [begun EXCEPT ![n] = @ + 1]
    /\ pc' = [pc EXCEPT ![n] = "working"]
    /\ UNCHANGED <<orchVars, version, inputs, registered, granted, redecided, runVars,
                   loopVars>>

RegisterAlways(n) == registered \union {n}  \* a mistake: whether or not it can undo

Register(n) == registered \union (Undoable \intersect {n})

(* RunContext.put: a new version of the record, with the inputs noted. *)
Put(n) ==
    /\ version' = [version EXCEPT ![n] = @ + 1]
    /\ inputs' = [inputs EXCEPT ![n] = read[n]]

(* run_with_retries succeeded: context.put, rollback_registry.register and *)
(* the status.                                                             *)
Complete(n) ==
    /\ pc[n] = "working"
    /\ Put(n)
    /\ registered' = Register(n)
    /\ statuses' = [statuses EXCEPT ![n] = "completed"]
    /\ pc' = [pc EXCEPT ![n] = "out"]
    /\ read' = [read EXCEPT ![n] = NoInputs(n)]
    /\ UNCHANGED <<approved, pendingReq, requests, begun, granted, redecided, runVars,
                   loopVars>>

(* Every attempt, and the fallback if there is one, failed. *)
HandlerFails(n) ==
    /\ pc[n] = "working"
    /\ BeginFailure(n)

SkipAnyway(m) == TRUE  \* a mistake: to skip without a look at the status

MaySkip(m) == statuses[m] \notin Terminal

(* One iteration of a cascade loop: the status of m is tested ...          *)
CascadeCheck(n, m) ==
    /\ mark[n] = {}
    /\ m \in todo[n]
    /\ todo' = [todo EXCEPT ![n] = @ \ {m}]
    /\ mark' = [mark EXCEPT ![n] = IF MaySkip(m) THEN {m} ELSE {}]
    /\ UNCHANGED <<orchVars, storeVars, runVars, pc, read, undo>>

(* ... and set, if it was not terminal when it was tested. *)
CascadeSkip(n, m) ==
    /\ m \in mark[n]
    /\ statuses' = [statuses EXCEPT ![m] = "skipped"]
    /\ mark' = [mark EXCEPT ![n] = {}]
    /\ UNCHANGED <<approved, pendingReq, requests, storeVars, runVars, pc, read,
                   todo, undo>>

UndoSilently(u) == statuses  \* a mistake: the undone node stays COMPLETED

UndoStatus(u) == [statuses EXCEPT ![u] = "rolled_back"]

(* The next entry of rollback_on_failure: if an undo action is registered  *)
(* it runs (RollbackRegistry.rollback_node keeps it registered), the node  *)
(* becomes ROLLED_BACK and a second cascade follows.                       *)
Undo(n) ==
    /\ pc[n] = "failing"
    /\ todo[n] = {} /\ mark[n] = {}
    /\ undo[n] # <<>>
    /\ LET u == Head(undo[n]) IN
       IF u \in registered
       THEN /\ statuses' = UndoStatus(u)
            /\ todo' = [todo EXCEPT ![n] = Downstream(u)]
       ELSE UNCHANGED <<statuses, todo>>
    /\ undo' = [undo EXCEPT ![n] = Tail(@)]
    /\ UNCHANGED <<approved, pendingReq, requests, storeVars, runVars, pc, read, mark>>

(* The undo action itself raises: nothing of _terminal_failure that is     *)
(* left happens, the safe stop included.                                   *)
UndoRaises(n) ==
    /\ pc[n] = "failing"
    /\ todo[n] = {} /\ mark[n] = {}
    /\ undo[n] # <<>>
    /\ Head(undo[n]) \in registered \intersect MayRaise
    /\ undo' = [undo EXCEPT ![n] = <<>>]
    /\ Raise(n)
    /\ UNCHANGED <<orchVars, storeVars, safeStopped, phase, result, specVersion,
                   read, todo, mark>>

(* _terminal_failure returns, or raises SafeStop, which _run_wave records. *)
EndFailure(n) ==
    /\ pc[n] = "failing"
    /\ todo[n] = {} /\ mark[n] = {} /\ undo[n] = <<>>
    /\ pc' = [pc EXCEPT ![n] = "out"]
    /\ safeStopped' = (safeStopped \/ n \in SafeStopOnFailure)
    /\ UNCHANGED <<orchVars, storeVars, raised, phase, result, specVersion, read,
                   loopVars>>

-----------------------------------------------------------------------------
(* The caller, between two runs.                                           *)

Decided(i, s) ==
    [requests EXCEPT ![i] = [node |-> @.node, status |-> s, spec |-> @.spec]]

(* ApprovalGate.decide sets the status whatever it was: a request can be   *)
(* decided again.                                                          *)
Decides(i, s) ==
    /\ phase = "idle"
    /\ requests[i].status # "pending" => redecided < MaxRedecisions
    /\ requests' = Decided(i, s)
    /\ redecided' = IF requests[i].status = "pending" THEN redecided ELSE redecided + 1

(* approve() *)
Approve(i) ==
    /\ Decides(i, "approved")
    /\ LET n == requests[i].node IN
       /\ pendingReq' = Unpend(n)
       /\ approved' = approved \union {n}
       /\ granted' = Granted(n)
       /\ statuses' = [statuses EXCEPT ![n] = "pending"]
    /\ UNCHANGED <<version, inputs, registered, begun, runVars, pc, read, loopVars>>

(* reject(): the node is rolled back and what is downstream and not        *)
(* terminal is skipped.  No thread runs, so the loop is one step.          *)
Rejecting(n) ==
    [m \in Nodes |->
        IF m = n THEN "rolled_back"
        ELSE IF m \in Downstream(n) /\ statuses[m] \notin Terminal THEN "skipped"
        ELSE statuses[m]]

Reject(i) ==
    /\ Decides(i, "rejected")
    /\ LET n == requests[i].node IN
       /\ pendingReq' = Unpend(n)
       /\ statuses' = Rejecting(n)
    /\ UNCHANGED <<approved, version, inputs, registered, begun, granted, runVars, pc,
                   read, loopVars>>

(* approve() or reject() whose file cannot be written: the request has its *)
(* status, and nothing else of decide_approval happens.                    *)
DecisionRaises(i, s) ==
    /\ requests[i].node \in Unwritable
    /\ Decides(i, s)
    /\ UNCHANGED <<statuses, approved, pendingReq, version, inputs, registered, begun,
                   granted, runVars, pc, read, loopVars>>

(* Replanner.on_spec_amendment: the root becomes STALE, and of what is     *)
(* downstream of it the nodes that are COMPLETED.                          *)
InvalidatedDirectly(f) ==  \* a mistake: to stop at the direct dependents
    {f} \union {n \in Dependents(f) : statuses[n] = "completed"}

Invalidated(f) == {f} \union {n \in Downstream(f) : statuses[n] = "completed"}

RevokeRoot(f) == approved \ {f}  \* a mistake: to revoke one approval only

Revoke(f) == approved \ Invalidated(f)

(* RunContext.amend_spec *)
AmendSpec == specVersion' = specVersion + 1

(* amend_spec_and_replan *)
Amend(f) ==
    /\ phase = "idle"
    /\ specVersion <= MaxReplans
    /\ AmendSpec
    /\ statuses' = [n \in Nodes |-> IF n \in Invalidated(f) THEN "stale" ELSE statuses[n]]
    /\ approved' = Revoke(f)
    /\ UNCHANGED <<pendingReq, requests, storeVars, safeStopped, raised, phase, result,
                   pc, read, loopVars>>

-----------------------------------------------------------------------------
Execute(n) ==
    \/ Start(n) \/ GateFails(n) \/ GateRaises(n)
    \/ RequestApproval(n) \/ RequestRaises(n)
    \/ AutoApprove(n) \/ AutoReject(n) \/ AutoRaises(n) \/ Park(n)
    \/ BeginWork(n) \/ Complete(n) \/ HandlerFails(n)
    \/ \E m \in Nodes : CascadeCheck(n, m) \/ CascadeSkip(n, m)
    \/ Undo(n) \/ UndoRaises(n) \/ EndFailure(n)

Run == StartWave \/ EndWave \/ RunRaises \/ Return

Caller ==
    \/ CallRun
    \/ \E i \in DOMAIN requests :
        Approve(i) \/ Reject(i) \/ \E s \in Decisions : DecisionRaises(i, s)
    \/ \E f \in ReplanRoots : Amend(f)

Next == Run \/ (\E n \in Nodes : Execute(n)) \/ Caller

Spec == Init /\ [][Next]_vars

(* The run loop goes on, and every pool thread is scheduled and its        *)
(* handler returns.  Nothing is assumed of the caller.                     *)
Fairness == WF_vars(Run) /\ \A n \in Nodes : WF_vars(Execute(n))

FairSpec == Spec /\ Fairness

=============================================================================

---------------------------- MODULE EngineProofs ----------------------------
(***************************************************************************)
(* Invariants of the orchestrator run, for every dependency graph and      *)
(* every choice of approvals, gates, rollbacks and re-plans.               *)
(***************************************************************************)
EXTENDS EngineProperties, FiniteSetTheorems, TLAPS

-----------------------------------------------------------------------------
(* What is downstream of a node, for every acyclic dependency graph.       *)

USE DepGraphAssumption

(* The reachable set of a node holds the node and every dependent of what  *)
(* it holds ...                                                            *)
LEMMA ReachableClosed ==
    ASSUME NEW n \in Nodes
    PROVE  /\ ReachableFrom[n] \in SUBSET Nodes
           /\ n \in ReachableFrom[n]
           /\ ClosedUnderDependents(ReachableFrom[n])
BY DEF ReachableFrom, ClosedUnderDependents, Dependents

(* ... and is within every other set that does.                            *)
LEMMA ReachableLeast ==
    ASSUME NEW n \in Nodes, NEW S \in SUBSET Nodes,
           n \in S, ClosedUnderDependents(S)
    PROVE  ReachableFrom[n] \subseteq S
BY DEF ReachableFrom

LEMMA ReachableTransitive ==
    ASSUME NEW n \in Nodes, NEW m \in ReachableFrom[n]
    PROVE  ReachableFrom[m] \subseteq ReachableFrom[n]
BY ReachableClosed, ReachableLeast

(* A node reached from another is reached from one of its dependents.      *)
LEMMA ReachableFirstStep ==
    ASSUME NEW n \in Nodes, NEW m \in ReachableFrom[n], m # n
    PROVE  \E x \in Dependents(n) : m \in ReachableFrom[x]
<1> DEFINE S == {n} \union {y \in Nodes : \E x \in Dependents(n) : y \in ReachableFrom[x]}
<1>1. n \in S /\ S \in SUBSET Nodes
    OBVIOUS
<1>2. ASSUME NEW y \in S, NEW z \in Dependents(y) PROVE z \in S
    <2>1. CASE y = n
        BY <2>1, ReachableClosed DEF Dependents
    <2>2. CASE y # n
        <3>1. PICK x \in Dependents(n) : y \in ReachableFrom[x]
            BY <2>2
        <3>2. z \in ReachableFrom[x] /\ z \in Nodes
            BY <3>1, ReachableClosed DEF Dependents, ClosedUnderDependents
        <3>3. QED
            BY <3>1, <3>2
    <2>3. QED
        BY <2>1, <2>2
<1>3. ClosedUnderDependents(S)
    BY <1>2 DEF ClosedUnderDependents
<1>4. ReachableFrom[n] \subseteq S
    <2> HIDE DEF S
    <2> QED
        BY <1>1, <1>3, ReachableLeast
<1>5. QED
    BY <1>4

(* The last step towards a node comes from one of its dependencies.        *)
LEMMA ReachableLastStep ==
    ASSUME NEW n \in Nodes, NEW m \in Downstream(n)
    PROVE  \E d \in DependsOn[m] : d \in ReachableFrom[n]
<1> SUFFICES ASSUME \A d \in DependsOn[m] : d \notin ReachableFrom[n] PROVE FALSE
    OBVIOUS
<1>1. ReachableFrom[n] \ {m} \in SUBSET Nodes /\ n \in ReachableFrom[n] \ {m}
    BY ReachableClosed DEF Downstream
<1>2. ClosedUnderDependents(ReachableFrom[n] \ {m})
    BY ReachableClosed DEF ClosedUnderDependents, Dependents
<1>3. ReachableFrom[n] \subseteq ReachableFrom[n] \ {m}
    BY <1>1, <1>2, ReachableLeast
<1>4. QED
    BY <1>3 DEF Downstream

(* What is downstream of a node is a set of nodes.                         *)
LEMMA DownstreamType == \A n \in Nodes : Downstream(n) \in SUBSET Nodes
BY ReachableClosed DEF Downstream

(* A node is downstream of what it depends on.                             *)
LEMMA DependentIsDownstream ==
    ASSUME NEW n \in Nodes, NEW d \in DependsOn[n]
    PROVE  n \in Downstream(d)
BY ReachableClosed, Acyclic DEF Downstream, ClosedUnderDependents, Dependents

(* Downstream is transitive, because there is no cycle.                    *)
LEMMA DownstreamTransitive ==
    ASSUME NEW n \in Nodes, NEW m \in Downstream(n), NEW k \in Downstream(m)
    PROVE  k \in Downstream(n)
<1>1. m \in ReachableFrom[n] /\ m \in Nodes /\ m # n /\ k \in ReachableFrom[m]
    BY DownstreamType DEF Downstream
<1>2. k \in ReachableFrom[n]
    BY <1>1, ReachableTransitive
<1>3. ASSUME k = n PROVE FALSE
    <2>1. PICK x \in Dependents(n) : m \in ReachableFrom[x]
        BY <1>1, ReachableFirstStep
    <2>2. x \in Nodes /\ n \in DependsOn[x]
        BY DEF Dependents
    <2>3. n \in ReachableFrom[x]
        BY <1>1, <1>3, <2>1, <2>2, ReachableTransitive
    <2>4. QED
        BY <2>2, <2>3, Acyclic
<1>4. QED
    BY <1>2, <1>3 DEF Downstream

-----------------------------------------------------------------------------
(* Every step of the engine keeps its invariants.                          *)
USE EngineAssumption

(* One-line abbreviations of the model, expanded everywhere.               *)
USE DEF Done, NothingReady, Unpend, Granted, Decisions, Decides, Register, MaySkip,
        UndoStatus, Revoke

-----------------------------------------------------------------------------
(* The log of requests stays a sequence of requests.                       *)
LEMMA LogType ==
    ASSUME requests \in Seq(ApprovalRequest), specVersion \in Nat,
           NEW s \in {"pending", "approved", "rejected"}
    PROVE  /\ \A n \in RequiresApproval :
                  Append(requests, Request(n, s)) \in Seq(ApprovalRequest)
           /\ \A i \in DOMAIN requests :
                  /\ requests[i].node \in RequiresApproval
                  /\ Decided(i, s) \in Seq(ApprovalRequest)
<1>1. \A n \in RequiresApproval : Request(n, s) \in ApprovalRequest
    BY DEF Request, ApprovalRequest
<1>2. ASSUME NEW i \in DOMAIN requests
      PROVE  /\ requests[i].node \in RequiresApproval
             /\ Decided(i, s) \in Seq(ApprovalRequest)
    <2>1. requests[i] \in ApprovalRequest
        OBVIOUS
    <2>2. /\ requests[i].node \in RequiresApproval
          /\ [node |-> requests[i].node, status |-> s, spec |-> requests[i].spec]
                \in ApprovalRequest
        BY <2>1 DEF ApprovalRequest
    <2>3. QED
        BY <2>2 DEF Decided
<1>3. QED
    BY <1>1, <1>2

LEMMA TypeInit == Init => TypeOK
<1> SUFFICES ASSUME Init PROVE TypeOK
    OBVIOUS
<1>1. requests \in Seq(ApprovalRequest) /\ undo \in [Nodes -> Seq(Nodes)]
    BY DEF Init
<1>2. redecided \in Nat /\ redecided <= MaxRedecisions
    BY DEF Init
<1>3. \A n \in Nodes : inputs[n] \in [DependsOn[n] -> Nat] /\ read[n] \in [DependsOn[n] -> Nat]
    BY DEF Init, NoInputs
<1>4. QED
    BY <1>1, <1>2, <1>3 DEF Init, TypeOK, Status, PCs, Results

(* A run that ends skips nodes and writes nothing else of the records, the *)
(* approvals or the threads.                                               *)
LEMMA ReturnSkips ==
    ASSUME TypeOK, Return
    PROVE  /\ phase = "loop" /\ phase' = "idle"
           /\ UNCHANGED <<approved, pendingReq, requests, storeVars, safeStopped,
                          raised, specVersion, pc, read, loopVars>>
           /\ statuses' \in [Nodes -> Status]
           /\ \A k \in Nodes : statuses'[k] \in {statuses[k], "skipped"}
<1>1. /\ phase = "loop" /\ phase' = "idle"
      /\ UNCHANGED <<approved, pendingReq, requests, storeVars, safeStopped,
                     raised, specVersion, pc, read, loopVars>>
    BY DEF Return
<1>2. \/ statuses' = statuses
      \/ \E S \in SUBSET Nodes : statuses' = Skipping(S)
    BY DEF Return
<1>3. CASE statuses' = statuses
    BY <1>1, <1>3 DEF TypeOK
<1>4. ASSUME NEW S \in SUBSET Nodes, statuses' = Skipping(S)
      PROVE  /\ statuses' \in [Nodes -> Status]
             /\ \A k \in Nodes : statuses'[k] \in {statuses[k], "skipped"}
    BY <1>4 DEF Skipping, Status, TypeOK
<1>5. QED
    BY <1>1, <1>2, <1>3, <1>4

(* A request a thread makes before it raises is pending or decided, and    *)
(* only the list of what the run waits for changes with it.                *)
LEMMA AutoRaisesRequest ==
    ASSUME NEW n \in Nodes, AutoRaises(n)
    PROVE  /\ \E s \in Decisions \union {"pending"} :
                  /\ requests' = Append(requests, Request(n, s))
                  /\ s = "pending" \/ n \in Unwritable
           /\ n \in RequiresApproval /\ pc[n] = "started"
           /\ pc' = [pc EXCEPT ![n] = "out"]
           /\ pendingReq' = [pendingReq EXCEPT ![n] = Len(requests) + 1]
           /\ raised' = TRUE
           /\ UNCHANGED <<statuses, approved, storeVars, safeStopped, phase, result,
                          specVersion, read, loopVars>>
BY DEF AutoRaises, NeedsApproval, Raise

(* Every step of the engine and of its caller keeps the types.             *)
LEMMA TypeStep == TypeOK /\ [Next]_vars => TypeOK'
<1> SUFFICES ASSUME TypeOK, [Next]_vars PROVE TypeOK'
    OBVIOUS
<1> USE DownstreamType DEF TypeOK, orchVars, storeVars, runVars, loopVars
<1>1. CASE StartWave
    BY <1>1 DEF StartWave, PCs
<1>2. CASE EndWave
    BY <1>2 DEF EndWave
<1>3. CASE RunRaises
    BY <1>3 DEF RunRaises, Results
<1>4. CASE Return
    <2>1. statuses' \in [Nodes -> Status]
        BY <1>4, ReturnSkips
    <2>2. result' \in Results
        BY <1>4 DEF Return, RunStatus, Results
    <2>3. QED
        BY <1>4, <2>1, <2>2 DEF Return
<1>5. CASE CallRun
    BY <1>5 DEF CallRun
<1>6. ASSUME NEW i \in DOMAIN requests, Approve(i) PROVE TypeOK'
    <2>1. requests' \in Seq(ApprovalRequest) /\ requests[i].node \in RequiresApproval
        BY <1>6, LogType DEF Approve
    <2>2. redecided' \in Nat /\ redecided' <= MaxRedecisions
        BY <1>6 DEF Approve
    <2>3. /\ statuses' \in [Nodes -> Status] /\ pendingReq' \in [Nodes -> Nat]
          /\ granted' \in [Nodes -> Nat] /\ approved' \subseteq RequiresApproval
        BY <1>6, <2>1 DEF Approve, Status
    <2>4. UNCHANGED <<version, inputs, registered, begun, runVars, pc, read, loopVars>>
        BY <1>6 DEF Approve
    <2>5. QED
        BY <2>1, <2>2, <2>3, <2>4
<1>7. ASSUME NEW i \in DOMAIN requests, Reject(i) PROVE TypeOK'
    <2>1. requests' \in Seq(ApprovalRequest) /\ requests[i].node \in RequiresApproval
        BY <1>7, LogType DEF Reject
    <2>2. QED
        BY <1>7, <2>1 DEF Reject, Rejecting, Status
<1>7a. ASSUME NEW i \in DOMAIN requests, NEW s \in Decisions, DecisionRaises(i, s)
      PROVE  TypeOK'
    <2>1. requests' \in Seq(ApprovalRequest)
        BY <1>7a, LogType DEF DecisionRaises
    <2>2. QED
        BY <1>7a, <2>1 DEF DecisionRaises
<1>8. ASSUME NEW f \in ReplanRoots, Amend(f) PROVE TypeOK'
    <2>1. statuses' \in [Nodes -> Status]
        BY <1>8 DEF Amend, AmendSpec, Status
    <2>2. approved' \subseteq RequiresApproval /\ specVersion' \in Nat
        BY <1>8 DEF Amend, AmendSpec
    <2>3. QED
        BY <1>8, <2>1, <2>2 DEF Amend, AmendSpec
<1>9. ASSUME NEW n \in Nodes, Execute(n) PROVE TypeOK'
    <2>1. CASE Start(n)
        BY <2>1 DEF Start, Status, PCs
    <2>2. CASE GateFails(n)
        BY <2>2 DEF GateFails, BeginFailure, NoInputs, Status, PCs
    <2>3. CASE GateRaises(n)
        BY <2>3 DEF GateRaises, Raise, PCs
    <2>4. CASE RequestApproval(n)
        BY <2>4, LogType DEF RequestApproval, NeedsApproval, Status, PCs
    <2>5. CASE RequestRaises(n)
        BY <2>5, LogType DEF RequestRaises, NeedsApproval, Raise, PCs
    <2>6. CASE AutoApprove(n)
        BY <2>6, LogType DEF AutoApprove, NeedsApproval, Status, PCs
    <2>7. CASE AutoReject(n)
        BY <2>7, LogType DEF AutoReject, NeedsApproval, Status, PCs
    <2>7a. CASE AutoRaises(n)
        <3>1. requests' \in Seq(ApprovalRequest)
            <4>1. PICK s \in Decisions \union {"pending"} :
                      requests' = Append(requests, Request(n, s))
                BY <2>7a, AutoRaisesRequest
            <4>2. QED
                BY <2>7a, <4>1, AutoRaisesRequest, LogType
        <3>2. pc' \in [Nodes -> PCs] /\ pendingReq' \in [Nodes -> Nat]
            <4>1. /\ pc' = [pc EXCEPT ![n] = "out"]
                  /\ pendingReq' = [pendingReq EXCEPT ![n] = Len(requests) + 1]
                BY <2>7a, AutoRaisesRequest
            <4>2. Len(requests) + 1 \in Nat /\ "out" \in PCs
                BY DEF PCs
            <4>3. QED
                BY <4>1, <4>2
        <3>3. QED
            BY <2>7a, <3>1, <3>2, AutoRaisesRequest
    <2>8. CASE Park(n)
        BY <2>8 DEF Park, Status, PCs
    <2>9. CASE BeginWork(n)
        BY <2>9 DEF BeginWork, PCs
    <2>10. CASE Complete(n)
        <3>1. DOMAIN inputs' = Nodes /\ \A m \in Nodes : inputs'[m] \in [DependsOn[m] -> Nat]
            BY <2>10 DEF Complete, Put
        <3>2. DOMAIN read' = Nodes /\ \A m \in Nodes : read'[m] \in [DependsOn[m] -> Nat]
            BY <2>10 DEF Complete, Put, NoInputs
        <3>3. statuses' \in [Nodes -> Status] /\ pc' \in [Nodes -> PCs]
            BY <2>10 DEF Complete, Status, PCs
        <3>4. registered' \subseteq Undoable /\ version' \in [Nodes -> Nat]
            BY <2>10 DEF Complete, Put
        <3>5. QED
            BY <2>10, <3>1, <3>2, <3>3, <3>4 DEF Complete, Put
    <2>11. CASE HandlerFails(n)
        BY <2>11 DEF HandlerFails, BeginFailure, NoInputs, Status, PCs
    <2>12. CASE Undo(n)
        <3>1. undo' \in [Nodes -> Seq(Nodes)]
            BY <2>12 DEF Undo
        <3>2. Head(undo[n]) \in Nodes
            BY <2>12 DEF Undo
        <3>3. statuses' \in [Nodes -> Status] /\ todo' \in [Nodes -> SUBSET Nodes]
            <4>1. CASE Head(undo[n]) \in registered
                <5>1. Downstream(Head(undo[n])) \in SUBSET Nodes
                    BY <3>2
                <5>2. /\ statuses' = [statuses EXCEPT ![Head(undo[n])] = "rolled_back"]
                      /\ todo' = [todo EXCEPT ![n] = Downstream(Head(undo[n]))]
                    BY <2>12, <4>1 DEF Undo
                <5>3. QED
                    BY <3>2, <5>1, <5>2 DEF Status
            <4>2. CASE Head(undo[n]) \notin registered
                BY <2>12, <4>2 DEF Undo
            <4>3. QED
                BY <4>1, <4>2
        <3>4. QED
            BY <2>12, <3>1, <3>3 DEF Undo
    <2>13. CASE UndoRaises(n)
        <3>1. undo' \in [Nodes -> Seq(Nodes)]
            BY <2>13 DEF UndoRaises
        <3>2. QED
            BY <2>13, <3>1 DEF UndoRaises, Raise, PCs
    <2>14. CASE EndFailure(n)
        BY <2>14 DEF EndFailure, PCs
    <2>15. ASSUME NEW m \in Nodes, CascadeCheck(n, m) PROVE TypeOK'
        BY SMTT(30), <2>15 DEF CascadeCheck
    <2>16. ASSUME NEW m \in Nodes, CascadeSkip(n, m) PROVE TypeOK'
        BY <2>16 DEF CascadeSkip, Status
    <2>17. QED
        BY <1>9, <2>1, <2>2, <2>3, <2>4, <2>5, <2>6, <2>7, <2>7a, <2>8,
           <2>9, <2>10, <2>11, <2>12, <2>13, <2>14, <2>15, <2>16 DEF Execute
<1>10. CASE UNCHANGED vars
    BY <1>10 DEF vars
<1> HIDE DEF TypeOK
<1>11. QED
    BY <1>1, <1>2, <1>3, <1>4, <1>5, <1>6, <1>7, <1>7a, <1>8, <1>9, <1>10 DEF Next, Run, Caller

(* The engine's variables keep their types, whatever the graph.            *)
THEOREM TypeCorrect == Spec => []TypeOK
BY TypeInit, TypeStep, PTL DEF Spec

-----------------------------------------------------------------------------
LEMMA ThreadInit == Init => ThreadInv
BY DEF Init, ThreadInv

(* A thread's own writes set its node's status; another thread's writes    *)
(* only ever skip it or roll it back.                                      *)
LEMMA ThreadStep ==
    TypeOK /\ ThreadInv /\ [Next]_vars => ThreadInv'
<1> SUFFICES ASSUME TypeOK, ThreadInv, [Next]_vars PROVE ThreadInv'
    OBVIOUS
<1> USE DEF orchVars, storeVars, runVars, loopVars, TypeOK, ThreadInv, Broken
<1>1. CASE StartWave
    BY <1>1 DEF StartWave
<1>2. CASE EndWave
    BY <1>2 DEF EndWave
<1>3. CASE RunRaises
    BY <1>3 DEF RunRaises
<1>4. CASE Return
    BY <1>4, ReturnSkips
<1>5. CASE CallRun
    BY <1>5 DEF CallRun
<1>6. ASSUME NEW i \in DOMAIN requests, Approve(i) PROVE ThreadInv'
    BY <1>6 DEF Approve
<1>7. ASSUME NEW i \in DOMAIN requests, Reject(i) PROVE ThreadInv'
    BY <1>7 DEF Reject, Rejecting
<1>7a. ASSUME NEW i \in DOMAIN requests, NEW s \in Decisions, DecisionRaises(i, s)
      PROVE  ThreadInv'
    BY <1>7a DEF DecisionRaises
<1>8. ASSUME NEW f \in ReplanRoots, Amend(f) PROVE ThreadInv'
    BY <1>8 DEF Amend, AmendSpec, Invalidated
<1>9. ASSUME NEW n \in Nodes, Execute(n) PROVE ThreadInv'
    <2>1. CASE Start(n)
        BY <2>1 DEF Start
    <2>2. CASE GateFails(n)
        BY <2>2 DEF GateFails, BeginFailure
    <2>3. CASE GateRaises(n)
        BY <2>3 DEF GateRaises, Raise
    <2>4. CASE RequestApproval(n)
        BY <2>4 DEF RequestApproval
    <2>5. CASE RequestRaises(n)
        BY <2>5 DEF RequestRaises, Raise
    <2>6. CASE AutoApprove(n)
        BY <2>6 DEF AutoApprove
    <2>7. CASE AutoReject(n)
        BY <2>7 DEF AutoReject
    <2>7a. CASE AutoRaises(n)
        BY <2>7a DEF AutoRaises, Raise
    <2>8. CASE Park(n)
        BY <2>8 DEF Park
    <2>9. CASE BeginWork(n)
        BY <2>9 DEF BeginWork, MayBegin
    <2>10. CASE Complete(n)
        BY <2>10 DEF Complete, Put
    <2>11. CASE HandlerFails(n)
        BY <2>11 DEF HandlerFails, BeginFailure
    <2>12. CASE Undo(n)
        BY <2>12 DEF Undo
    <2>13. CASE UndoRaises(n)
        BY <2>13 DEF UndoRaises, Raise
    <2>14. CASE EndFailure(n)
        BY <2>14 DEF EndFailure
    <2>15. ASSUME NEW m \in Nodes, CascadeCheck(n, m) PROVE ThreadInv'
        BY <2>15 DEF CascadeCheck
    <2>16. ASSUME NEW m \in Nodes, CascadeSkip(n, m) PROVE ThreadInv'
        BY <2>16 DEF CascadeSkip
    <2>17. QED
        BY <1>9, <2>1, <2>2, <2>3, <2>4, <2>5, <2>6, <2>7, <2>7a, <2>8,
           <2>9, <2>10, <2>11, <2>12, <2>13, <2>14, <2>15, <2>16 DEF Execute
<1>10. CASE UNCHANGED vars
    BY <1>10 DEF vars
<1>11. QED
    BY <1>1, <1>2, <1>3, <1>4, <1>5, <1>6, <1>7, <1>7a, <1>8, <1>9, <1>10 DEF Next, Run, Caller

-----------------------------------------------------------------------------
LEMMA BarrierInit == Init => BarrierInv
BY DEF Init, BarrierInv

(* A wave starts with every dependency completed and at rest, and only an  *)
(* executing node gets a new version.                                      *)
LEMMA BarrierStep ==
    TypeOK /\ ThreadInv /\ BarrierInv /\ [Next]_vars => BarrierInv'
<1> SUFFICES ASSUME TypeOK, ThreadInv, BarrierInv, [Next]_vars PROVE BarrierInv'
    OBVIOUS
<1> USE DEF orchVars, storeVars, runVars, loopVars, TypeOK, ThreadInv, BarrierInv
<1>1. CASE StartWave
    BY <1>1 DEF StartWave, Ready, Runnable
<1>2. CASE EndWave
    BY <1>2 DEF EndWave
<1>3. CASE RunRaises
    BY <1>3 DEF RunRaises
<1>4. CASE Return
    BY <1>4, ReturnSkips
<1>5. CASE CallRun
    BY <1>5 DEF CallRun
<1>6. ASSUME NEW i \in DOMAIN requests, Approve(i) PROVE BarrierInv'
    BY <1>6 DEF Approve
<1>7. ASSUME NEW i \in DOMAIN requests, Reject(i) PROVE BarrierInv'
    BY <1>7 DEF Reject, Rejecting
<1>7a. ASSUME NEW i \in DOMAIN requests, NEW s \in Decisions, DecisionRaises(i, s)
      PROVE  BarrierInv'
    BY <1>7a DEF DecisionRaises
<1>8. ASSUME NEW f \in ReplanRoots, Amend(f) PROVE BarrierInv'
    BY <1>8 DEF Amend, AmendSpec, Invalidated
<1>9. ASSUME NEW n \in Nodes, Execute(n) PROVE BarrierInv'
    <2>1. CASE Start(n)
        BY SMTT(30), <2>1 DEF Start
    <2>2. CASE GateFails(n)
        BY <2>2 DEF GateFails, BeginFailure
    <2>3. CASE GateRaises(n)
        BY <2>3 DEF GateRaises, Raise
    <2>4. CASE RequestApproval(n)
        BY <2>4 DEF RequestApproval
    <2>5. CASE RequestRaises(n)
        BY <2>5 DEF RequestRaises, Raise
    <2>6. CASE AutoApprove(n)
        <3>1. \A m \in Nodes : statuses'[m] = "completed" => statuses[m] = "completed"
            BY <2>6 DEF AutoApprove
        <3>2. \A m \in Nodes : /\ (pc'[m] = "out") = (pc[m] = "out")
                               /\ pc'[m] = "working" => pc[m] = "working"
            BY <2>6 DEF AutoApprove
        <3>3. UNCHANGED <<read, version>>
            BY <2>6 DEF AutoApprove
        <3>4. QED
            BY ZenonT(40), <3>1, <3>2, <3>3
    <2>7. CASE AutoReject(n)
        BY <2>7 DEF AutoReject
    <2>7a. CASE AutoRaises(n)
        <3>1. /\ pc[n] # "out" /\ pc' = [pc EXCEPT ![n] = "out"]
              /\ UNCHANGED <<statuses, read, version>>
            BY <2>7a, AutoRaisesRequest
        <3>2. QED
            BY <3>1
    <2>8. CASE Park(n)
        BY <2>8 DEF Park
    <2>9. CASE BeginWork(n)
        <3>1. pc[n] # "out" /\ UNCHANGED <<statuses, version>>
            BY <2>9 DEF BeginWork, MayBegin
        <3>2. \A m \in Nodes : (pc'[m] = "out") = (pc[m] = "out")
            BY <2>9, <3>1 DEF BeginWork
        <3>3. \A m \in Nodes : pc'[m] = "working" =>
                  \A d \in DependsOn[m] : read'[m][d] = version'[d]
            BY <2>9 DEF BeginWork
        <3>4. QED
            BY ZenonT(40), <3>1, <3>2, <3>3
    <2>10. CASE Complete(n)
        BY <2>10 DEF Complete, Put
    <2>11. CASE HandlerFails(n)
        BY <2>11 DEF HandlerFails, BeginFailure
    <2>12. CASE Undo(n)
        <3>1. \A m \in Nodes : statuses'[m] = "completed" => statuses[m] = "completed"
            BY ZenonT(40), <2>12 DEF Undo
        <3>2. UNCHANGED <<pc, read, version>>
            BY <2>12 DEF Undo
        <3>3. QED
            BY <3>1, <3>2
    <2>13. CASE UndoRaises(n)
        BY ZenonT(40), <2>13 DEF UndoRaises, Raise
    <2>14. CASE EndFailure(n)
        BY <2>14 DEF EndFailure
    <2>15. ASSUME NEW m \in Nodes, CascadeCheck(n, m) PROVE BarrierInv'
        BY SMTT(30), <2>15 DEF CascadeCheck
    <2>16. ASSUME NEW m \in Nodes, CascadeSkip(n, m) PROVE BarrierInv'
        BY SMTT(30), <2>16 DEF CascadeSkip
    <2>17. QED
        BY <1>9, <2>1, <2>2, <2>3, <2>4, <2>5, <2>6, <2>7, <2>7a, <2>8,
           <2>9, <2>10, <2>11, <2>12, <2>13, <2>14, <2>15, <2>16 DEF Execute
<1>10. CASE UNCHANGED vars
    BY <1>10 DEF vars
<1>11. QED
    BY <1>1, <1>2, <1>3, <1>4, <1>5, <1>6, <1>7, <1>7a, <1>8, <1>9, <1>10 DEF Next, Run, Caller

(* The handler of a node never runs against an output that is missing or   *)
(* being replaced.                                                         *)
THEOREM BarrierCorrect == Spec => []DependencyBarrier
<1>1. Init => TypeOK /\ ThreadInv /\ BarrierInv
    BY TypeInit, ThreadInit, BarrierInit
<1>2. TypeOK /\ ThreadInv /\ BarrierInv /\ [Next]_vars
        => (TypeOK /\ ThreadInv /\ BarrierInv)'
    BY TypeStep, ThreadStep, BarrierStep
<1>3. BarrierInv => DependencyBarrier
    BY DEF BarrierInv, DependencyBarrier
<1>4. QED
    BY <1>1, <1>2, <1>3, PTL DEF Spec

-----------------------------------------------------------------------------
LEMMA CreditInit == Init => CreditInv
BY DEF CreditInv, Init

(* A step that begins no execution, gives no approval and lets no approved *)
(* node begin that could not begin before keeps the credit.                *)
LEMMA CreditFrame ==
    ASSUME CreditInv, begun' = begun, granted' = granted,
           \A n \in RequiresApproval :
                n \in approved' /\ CanBegin(n)' => n \in approved /\ CanBegin(n)
    PROVE  CreditInv'
BY DEF CreditInv

(* A step that gives an approval for a node may let that node begin.        *)
LEMMA CreditGrant ==
    ASSUME TypeOK, CreditInv, begun' = begun, NEW n \in RequiresApproval,
           granted' = Granted(n),
           approved' = approved \union {n},
           \A m \in RequiresApproval : m # n /\ CanBegin(m)' => CanBegin(m)
    PROVE  CreditInv'
<1>1. begun \in [Nodes -> Nat] /\ granted \in [Nodes -> Nat]
    BY DEF TypeOK
<1>2. QED
    BY <1>1 DEF CreditInv

(* Only the three steps that give or use an approval touch the credit.     *)
LEMMA CreditStep ==
    TypeOK /\ ThreadInv /\ CreditInv /\ [Next]_vars => CreditInv'
<1> SUFFICES ASSUME TypeOK, ThreadInv, CreditInv, [Next]_vars PROVE CreditInv'
    OBVIOUS
<1>a. /\ statuses \in [Nodes -> Status] /\ pc \in [Nodes -> PCs]
      /\ requests \in Seq(ApprovalRequest) /\ RequiresApproval \subseteq Nodes
    BY DEF TypeOK
<1> USE <1>a, CreditFrame DEF orchVars, storeVars, runVars, loopVars, ThreadInv,
        CanBegin, Runnable
<1>1. CASE StartWave
    BY <1>1 DEF StartWave, Ready
<1>2. CASE EndWave
    BY <1>2 DEF EndWave
<1>3. CASE RunRaises
    BY <1>3 DEF RunRaises
<1>4. CASE Return
    BY <1>4, ReturnSkips
<1>5. CASE CallRun
    BY <1>5 DEF CallRun
<1>6. ASSUME NEW i \in DOMAIN requests, Approve(i) PROVE CreditInv'
    <2>1. PICK n \in RequiresApproval : n = requests[i].node
        BY LogType DEF TypeOK
    <2>2. /\ approved' = approved \union {n} /\ granted' = Granted(n)
          /\ statuses' = [statuses EXCEPT ![n] = "pending"]
          /\ UNCHANGED <<pc, begun>>
        BY <1>6, <2>1 DEF Approve
    <2>3. \A m \in RequiresApproval : m # n /\ CanBegin(m)' => CanBegin(m)
        BY <2>1, <2>2
    <2> HIDE DEF CanBegin
    <2>4. QED
        BY <2>1, <2>2, <2>3, CreditGrant
<1>7. ASSUME NEW i \in DOMAIN requests, Reject(i) PROVE CreditInv'
    BY <1>7 DEF Reject, Rejecting
<1>7a. ASSUME NEW i \in DOMAIN requests, NEW s \in Decisions, DecisionRaises(i, s)
      PROVE  CreditInv'
    BY <1>7a DEF DecisionRaises
<1>8. ASSUME NEW f \in ReplanRoots, Amend(f) PROVE CreditInv'
    BY <1>8 DEF Amend, AmendSpec, Invalidated
<1>9. ASSUME NEW n \in Nodes, Execute(n) PROVE CreditInv'
    <2>1. CASE Start(n)
        BY <2>1 DEF Start
    <2>2. CASE GateFails(n)
        BY <2>2 DEF GateFails, BeginFailure
    <2>3. CASE GateRaises(n)
        BY <2>3 DEF GateRaises, Raise
    <2>4. CASE RequestApproval(n)
        BY <2>4 DEF RequestApproval
    <2>5. CASE RequestRaises(n)
        BY <2>5 DEF RequestRaises, Raise
    <2>6. CASE AutoApprove(n)
        <3>1. /\ approved' = approved \union {n} /\ granted' = Granted(n)
              /\ statuses' = [statuses EXCEPT ![n] = "pending"]
              /\ pc' = [pc EXCEPT ![n] = "cleared"]
              /\ begun' = begun /\ n \in RequiresApproval
            BY <2>6 DEF AutoApprove, NeedsApproval
        <3>2. \A m \in RequiresApproval : m # n /\ CanBegin(m)' => CanBegin(m)
            BY <3>1
        <3> HIDE DEF CanBegin
        <3>3. QED
            BY <3>1, <3>2, CreditGrant
    <2>7. CASE AutoReject(n)
        BY <2>7 DEF AutoReject, Broken
    <2>7a. CASE AutoRaises(n)
        BY <2>7a DEF AutoRaises, Raise
    <2>8. CASE Park(n)
        BY <2>8 DEF Park
    <2>9. CASE BeginWork(n)
        <3>1. n \in RequiresApproval => n \in approved /\ CanBegin(n)
            BY <2>9 DEF BeginWork, MayBegin, NeedsApproval
        <3>2. /\ begun' = [begun EXCEPT ![n] = begun[n] + 1] /\ begun \in [Nodes -> Nat]
              /\ pc' = [pc EXCEPT ![n] = "working"]
              /\ granted \in [Nodes -> Nat]
              /\ UNCHANGED <<statuses, approved, granted>>
            BY <2>9 DEF BeginWork, TypeOK
        <3>3. ASSUME NEW m \in RequiresApproval
              PROVE  /\ begun'[m] <= granted'[m]
                     /\ m \in approved' /\ CanBegin(m)' => begun'[m] < granted'[m]
            <4>1. /\ begun[m] <= granted[m]
                  /\ m \in approved /\ CanBegin(m) => begun[m] < granted[m]
                BY DEF CreditInv
            <4>2. CASE m = n
                BY <3>1, <3>2, <4>1, <4>2
            <4>3. CASE m # n
                BY <3>2, <4>1, <4>3
            <4>4. QED
                BY <4>2, <4>3
        <3>4. QED
            BY <3>3 DEF CreditInv
    <2>10. CASE Complete(n)
        BY <2>10 DEF Complete, Put
    <2>11. CASE HandlerFails(n)
        BY <2>11 DEF HandlerFails, BeginFailure
    <2>12. CASE Undo(n)
        BY <2>12 DEF Undo
    <2>13. CASE UndoRaises(n)
        BY <2>13 DEF UndoRaises, Raise, Broken
    <2>14. CASE EndFailure(n)
        BY <2>14 DEF EndFailure, Broken
    <2>15. ASSUME NEW m \in Nodes, CascadeCheck(n, m) PROVE CreditInv'
        BY <2>15 DEF CascadeCheck
    <2>16. ASSUME NEW m \in Nodes, CascadeSkip(n, m) PROVE CreditInv'
        BY <2>16 DEF CascadeSkip
    <2>17. QED
        BY <1>9, <2>1, <2>2, <2>3, <2>4, <2>5, <2>6, <2>7, <2>7a, <2>8,
           <2>9, <2>10, <2>11, <2>12, <2>13, <2>14, <2>15, <2>16 DEF Execute
<1>10. CASE UNCHANGED vars
    BY <1>10 DEF vars
<1>11. QED
    BY <1>1, <1>2, <1>3, <1>4, <1>5, <1>6, <1>7, <1>7a, <1>8, <1>9, <1>10 DEF Next, Run, Caller

(* Neither a re-plan, nor a resumed run, nor a race between threads lets a *)
(* node that requires approval begin without an approval of its own.       *)
THEOREM ApprovalCorrect == Spec => []OneApprovalPerExecution
<1>1. Init => TypeOK /\ ThreadInv /\ CreditInv
    BY TypeInit, ThreadInit, CreditInit
<1>2. TypeOK /\ ThreadInv /\ CreditInv /\ [Next]_vars
        => (TypeOK /\ ThreadInv /\ CreditInv)'
    BY TypeStep, ThreadStep, CreditStep
<1>3. CreditInv => OneApprovalPerExecution
    BY DEF CreditInv, OneApprovalPerExecution
<1>4. QED
    BY <1>1, <1>2, <1>3, PTL DEF Spec

-----------------------------------------------------------------------------
LEMMA PauseInit == Init => PauseIsDecidable
BY DEF Init, PauseIsDecidable, Pending

(* A step that leaves the requests and the wait list alone keeps it.       *)
LEMMA PauseFrame ==
    ASSUME PauseIsDecidable, requests' = requests, pendingReq' = pendingReq
    PROVE  PauseIsDecidable'
BY DEF PauseIsDecidable, Pending

(* A new request leaves the ones the run waits for where they are.         *)
LEMMA PauseAppend ==
    ASSUME TypeOK, PauseIsDecidable, NEW n \in Nodes, NEW s,
           requests' = Append(requests, Request(n, s)),
           \/ \A m \in Nodes : pendingReq'[m] \in {0, pendingReq[m]}
           \/ /\ s = "pending" \/ n \in Unwritable
              /\ pendingReq' = [pendingReq EXCEPT ![n] = Len(requests) + 1]
    PROVE  PauseIsDecidable'
<1>1. requests \in Seq(ApprovalRequest) /\ pendingReq \in [Nodes -> Nat]
    BY DEF TypeOK
<1>2. /\ DOMAIN requests' = 1..(Len(requests) + 1)
      /\ DOMAIN requests = 1..Len(requests)
      /\ \A i \in DOMAIN requests : requests'[i] = requests[i]
      /\ requests'[Len(requests) + 1] = Request(n, s)
      /\ Len(requests) \in Nat
    BY <1>1
<1>3. ASSUME NEW m \in Nodes, pendingReq'[m] = pendingReq[m], pendingReq[m] # 0
      PROVE  /\ pendingReq'[m] \in DOMAIN requests'
             /\ requests'[pendingReq'[m]].node = m
             /\ requests'[pendingReq'[m]].status = "pending" \/ m \in Unwritable
    <2>1. /\ pendingReq[m] \in DOMAIN requests
          /\ requests[pendingReq[m]].node = m
          /\ requests[pendingReq[m]].status = "pending" \/ m \in Unwritable
        BY <1>3 DEF PauseIsDecidable, Pending
    <2>2. QED
        BY <1>2, <1>3, <2>1
<1>4. CASE \A m \in Nodes : pendingReq'[m] \in {0, pendingReq[m]}
    BY <1>3, <1>4 DEF PauseIsDecidable, Pending
<1>5. CASE /\ s = "pending" \/ n \in Unwritable
           /\ pendingReq' = [pendingReq EXCEPT ![n] = Len(requests) + 1]
    <2>1. /\ pendingReq'[n] \in DOMAIN requests'
          /\ requests'[pendingReq'[n]].node = n
          /\ requests'[pendingReq'[n]].status = "pending" \/ n \in Unwritable
        BY <1>1, <1>2, <1>5 DEF Request
    <2>2. \A m \in Nodes \ {n} : pendingReq'[m] = pendingReq[m]
        BY <1>1, <1>5
    <2>3. QED
        BY <1>3, <2>1, <2>2 DEF PauseIsDecidable, Pending
<1>6. QED
    BY <1>4, <1>5

(* Deciding a request takes its node off the list of what the run waits    *)
(* for, whichever of the node's requests it was.                           *)
LEMMA PauseStep ==
    TypeOK /\ PauseIsDecidable /\ [Next]_vars => PauseIsDecidable'
<1> SUFFICES ASSUME TypeOK, PauseIsDecidable, [Next]_vars PROVE PauseIsDecidable'
    OBVIOUS
<1> USE DEF orchVars, storeVars, runVars, loopVars
<1>1. CASE StartWave
    BY <1>1, PauseFrame DEF StartWave
<1>2. CASE EndWave
    BY <1>2, PauseFrame DEF EndWave
<1>3. CASE RunRaises
    BY <1>3, PauseFrame DEF RunRaises
<1>4. CASE Return
    BY <1>4, PauseFrame DEF Return
<1>5. CASE CallRun
    BY <1>5, PauseFrame DEF CallRun
<1>6. ASSUME NEW i \in DOMAIN requests, Approve(i) PROVE PauseIsDecidable'
    BY <1>6 DEF Approve, Decided, TypeOK, PauseIsDecidable, Pending
<1>7. ASSUME NEW i \in DOMAIN requests, Reject(i) PROVE PauseIsDecidable'
    BY <1>7 DEF Reject, Decided, TypeOK, PauseIsDecidable, Pending
<1>7a. ASSUME NEW i \in DOMAIN requests, NEW s \in Decisions, DecisionRaises(i, s)
      PROVE  PauseIsDecidable'
    <2>1. requests' = Decided(i, s) /\ pendingReq' = pendingReq
          /\ requests[i].node \in Unwritable
        BY <1>7a DEF DecisionRaises
    <2>2. /\ DOMAIN requests' = DOMAIN requests
          /\ requests'[i].node = requests[i].node
          /\ \A j \in DOMAIN requests : j # i => requests'[j] = requests[j]
        BY <2>1 DEF Decided, TypeOK
    <2>3. ASSUME NEW m \in Nodes, pendingReq[m] # 0
          PROVE  /\ pendingReq[m] \in DOMAIN requests'
                 /\ requests'[pendingReq[m]].node = m
                 /\ requests'[pendingReq[m]].status = "pending" \/ m \in Unwritable
        <3>1. /\ pendingReq[m] \in DOMAIN requests
              /\ requests[pendingReq[m]].node = m
              /\ requests[pendingReq[m]].status = "pending" \/ m \in Unwritable
            BY <2>3 DEF PauseIsDecidable, Pending
        <3>2. CASE pendingReq[m] = i
            BY <2>1, <2>2, <3>1, <3>2
        <3>3. CASE pendingReq[m] # i
            BY <2>2, <3>1, <3>3
        <3>4. QED
            BY <3>2, <3>3
    <2>4. QED
        BY <2>1, <2>3 DEF PauseIsDecidable, Pending
<1>8. ASSUME NEW f \in ReplanRoots, Amend(f) PROVE PauseIsDecidable'
    BY <1>8, PauseFrame DEF Amend, AmendSpec
<1>9. ASSUME NEW n \in Nodes, Execute(n) PROVE PauseIsDecidable'
    <2>1. CASE Start(n)
        BY <2>1, PauseFrame DEF Start
    <2>2. CASE GateFails(n)
        BY <2>2, PauseFrame DEF GateFails, BeginFailure
    <2>3. CASE GateRaises(n)
        BY <2>3, PauseFrame DEF GateRaises, Raise
    <2>4. CASE RequestApproval(n)
        BY <2>4, PauseAppend DEF RequestApproval
    <2>5. CASE RequestRaises(n)
        BY <2>5, PauseAppend DEF RequestRaises, Raise
    <2>6. CASE AutoApprove(n)
        BY <2>6, PauseAppend DEF AutoApprove, TypeOK
    <2>7. CASE AutoReject(n)
        BY <2>7, PauseAppend DEF AutoReject, TypeOK
    <2>7a. CASE AutoRaises(n)
        <3>1. PICK s \in Decisions \union {"pending"} :
                  /\ requests' = Append(requests, Request(n, s))
                  /\ s = "pending" \/ n \in Unwritable
            BY <2>7a, AutoRaisesRequest
        <3>2. pendingReq' = [pendingReq EXCEPT ![n] = Len(requests) + 1]
            BY <2>7a, AutoRaisesRequest
        <3>3. QED
            BY <3>1, <3>2, PauseAppend
    <2>8. CASE Park(n)
        BY <2>8, PauseFrame DEF Park
    <2>9. CASE BeginWork(n)
        BY <2>9, PauseFrame DEF BeginWork
    <2>10. CASE Complete(n)
        BY <2>10, PauseFrame DEF Complete, Put
    <2>11. CASE HandlerFails(n)
        BY <2>11, PauseFrame DEF HandlerFails, BeginFailure
    <2>12. CASE Undo(n)
        BY <2>12, PauseFrame DEF Undo
    <2>13. CASE UndoRaises(n)
        BY <2>13, PauseFrame DEF UndoRaises, Raise
    <2>14. CASE EndFailure(n)
        BY <2>14, PauseFrame DEF EndFailure
    <2>15. ASSUME NEW m \in Nodes, CascadeCheck(n, m) PROVE PauseIsDecidable'
        BY <2>15, PauseFrame DEF CascadeCheck
    <2>16. ASSUME NEW m \in Nodes, CascadeSkip(n, m) PROVE PauseIsDecidable'
        BY <2>16, PauseFrame DEF CascadeSkip
    <2>17. QED
        BY <1>9, <2>1, <2>2, <2>3, <2>4, <2>5, <2>6, <2>7, <2>7a, <2>8,
           <2>9, <2>10, <2>11, <2>12, <2>13, <2>14, <2>15, <2>16 DEF Execute
<1>10. CASE UNCHANGED vars
    BY <1>10, PauseFrame DEF vars
<1>11. QED
    BY <1>1, <1>2, <1>3, <1>4, <1>5, <1>6, <1>7, <1>7a, <1>8, <1>9, <1>10 DEF Next, Run, Caller

(* A paused run always waits for a request that can still be decided.      *)
THEOREM PauseCorrect == Spec => []PauseIsDecidable
<1>1. Init => TypeOK /\ PauseIsDecidable
    BY TypeInit, PauseInit
<1>2. TypeOK /\ PauseIsDecidable /\ [Next]_vars => (TypeOK /\ PauseIsDecidable)'
    BY TypeStep, PauseStep
<1>3. QED
    BY <1>1, <1>2, PTL DEF Spec

-----------------------------------------------------------------------------
LEMMA OpenInit == Init => OpenInv
BY DEF Init, OpenInv, Open

(* A step that makes no request and wakes no node keeps the invariant.     *)
LEMMA OpenFrame ==
    ASSUME OpenInv, requests' = requests, \A n \in Nodes : Live(n)' => Live(n)
    PROVE  OpenInv'
BY DEF OpenInv, Open

(* A request that is pending when it is made opens its node, and no other. *)
LEMMA OpenAppend ==
    ASSUME requests \in Seq(ApprovalRequest), NEW n \in Nodes, NEW s,
           requests' = Append(requests, Request(n, s))
    PROVE  \A m \in Nodes : Open(m)' => Open(m) \/ (m = n /\ s = "pending")
BY DEF Open, Request

LEMMA AutoRaisesOpen ==
    ASSUME TypeOK, NEW n \in Nodes, AutoRaises(n)
    PROVE  \A m \in Nodes : Open(m)' => Open(m) \/ m = n
<1>1. requests \in Seq(ApprovalRequest)
    BY DEF TypeOK
<1>2. PICK s \in Decisions \union {"pending"} : requests' = Append(requests, Request(n, s))
    BY AutoRaisesRequest
<1>3. QED
    BY <1>1, <1>2, OpenAppend

(* A decision that is not carried through opens no node.                   *)
LEMMA DecisionRaisesOpen ==
    ASSUME TypeOK, NEW i \in DOMAIN requests, NEW s \in Decisions, DecisionRaises(i, s)
    PROVE  /\ \A m \in Nodes : Open(m)' => Open(m)
           /\ UNCHANGED <<statuses, approved, pendingReq, version, inputs, registered,
                          begun, granted, runVars, pc, read, loopVars>>
<1>1. requests' = Decided(i, s)
    BY DEF DecisionRaises
<1>2. \A m \in Nodes : Open(m)' => Open(m)
    BY <1>1 DEF Decided, Open, TypeOK
<1>3. QED
    BY <1>2 DEF DecisionRaises

LEMMA OpenRequest ==
    ASSUME TypeOK, OpenInv, NEW n \in Nodes, NEW s,
           requests' = Append(requests, Request(n, s)),
           s = "pending" => Live(n) /\ ~Live(n)',
           \A m \in Nodes : Live(m)' => Live(m)
    PROVE  OpenInv'
<1>1. requests \in Seq(ApprovalRequest)
    BY DEF TypeOK
<1>2. \A m \in Nodes : Open(m)' => ~Live(m)'
    BY <1>1, OpenAppend DEF OpenInv
<1>3. ASSUME NEW i \in DOMAIN requests', NEW j \in DOMAIN requests',
             requests'[i].status = "pending", requests'[j].status = "pending",
             requests'[i].node = requests'[j].node
      PROVE  i = j
    <2>1. CASE i \in DOMAIN requests /\ j \in DOMAIN requests
        BY <1>1, <1>3, <2>1 DEF OpenInv
    <2>2. CASE i \notin DOMAIN requests /\ j \notin DOMAIN requests
        BY <1>1, <1>3, <2>2
    <2>3. CASE i \in DOMAIN requests /\ j \notin DOMAIN requests
        <3>1. s = "pending" /\ requests[i].node = n /\ requests[i].status = "pending"
            BY <1>1, <1>3, <2>3 DEF Request
        <3>2. Open(n)
            BY <2>3, <3>1 DEF Open
        <3>3. QED
            BY <3>1, <3>2 DEF OpenInv
    <2>4. CASE i \notin DOMAIN requests /\ j \in DOMAIN requests
        <3>1. s = "pending" /\ requests[j].node = n /\ requests[j].status = "pending"
            BY <1>1, <1>3, <2>4 DEF Request
        <3>2. Open(n)
            BY <2>4, <3>1 DEF Open
        <3>3. QED
            BY <3>1, <3>2 DEF OpenInv
    <2>5. QED
        BY <2>1, <2>2, <2>3, <2>4
<1>4. QED
    BY <1>2, <1>3 DEF OpenInv

(* Deciding a node's only open request closes the node.                    *)
LEMMA OpenDecide ==
    ASSUME TypeOK, OpenInv, NEW i \in DOMAIN requests,
           requests[i].status = "pending",
           NEW s \in {"approved", "rejected"}, requests' = Decided(i, s),
           \A m \in Nodes : m # requests[i].node /\ Live(m)' => Live(m)
    PROVE  OpenInv'
<1>1. /\ DOMAIN requests' = DOMAIN requests
      /\ requests'[i].status = s
      /\ \A j \in DOMAIN requests : j # i => requests'[j] = requests[j]
    BY DEF TypeOK, Decided
<1>2. ASSUME NEW m \in Nodes, Open(m)' PROVE Open(m) /\ m # requests[i].node
    <2>1. PICK k \in DOMAIN requests :
              requests'[k].node = m /\ requests'[k].status = "pending"
        BY <1>1, <1>2 DEF Open
    <2>2. k # i /\ requests[k].node = m /\ requests[k].status = "pending"
        BY <1>1, <2>1
    <2>3. QED
        BY <2>2 DEF Open, OpenInv
<1>3. QED
    BY <1>1, <1>2 DEF OpenInv

(* A caller who takes what is listed decides open requests only.           *)
LEMMA DecidesOpen ==
    ASSUME PlainCaller, TypeOK, NEW i \in DOMAIN requests, NEW s \in Decisions, Decides(i, s)
    PROVE  requests[i].status = "pending"
BY DEF PlainCaller, TypeOK

(* A node asks for an approval only while it executes, and a re-plan from  *)
(* nodes without approval never wakes a node that has an open request.     *)
LEMMA OpenStep ==
    PlainCaller /\ TypeOK /\ ThreadInv /\ OpenInv /\ [Next]_vars => OpenInv'
<1> SUFFICES ASSUME PlainCaller, TypeOK, ThreadInv, OpenInv, [Next]_vars PROVE OpenInv'
    OBVIOUS
<1> USE DEF orchVars, storeVars, runVars, loopVars
<1>1. CASE StartWave
    <2>1. requests' = requests /\ \A k \in Nodes : Live(k)' => Live(k)
        BY <1>1 DEF StartWave, Ready, Runnable, Live, TypeOK, ThreadInv
    <2>2. QED
        BY <2>1, OpenFrame
<1>2. CASE EndWave
    <2>1. requests' = requests /\ \A k \in Nodes : Live(k)' => Live(k)
        BY <1>2 DEF EndWave, Live, TypeOK, ThreadInv
    <2>2. QED
        BY <2>1, OpenFrame
<1>3. CASE RunRaises
    <2>1. requests' = requests /\ \A k \in Nodes : Live(k)' => Live(k)
        BY <1>3 DEF RunRaises, Live, TypeOK, ThreadInv
    <2>2. QED
        BY <2>1, OpenFrame
<1>4. CASE Return
    <2>1. requests' = requests /\ \A k \in Nodes : Live(k)' => Live(k)
        BY <1>4, ReturnSkips DEF Live
    <2>2. QED
        BY <2>1, OpenFrame
<1>5. CASE CallRun
    <2>1. requests' = requests /\ \A k \in Nodes : Live(k)' => Live(k)
        BY <1>5 DEF CallRun, Live, TypeOK, ThreadInv
    <2>2. QED
        BY <2>1, OpenFrame
<1>6. ASSUME NEW i \in DOMAIN requests, Approve(i) PROVE OpenInv'
    <2>1. \A m \in Nodes : m # requests[i].node /\ Live(m)' => Live(m)
        BY <1>6 DEF Approve, Live, TypeOK
    <2>2. QED
        BY <1>6, <2>1, OpenDecide, DecidesOpen DEF Approve
<1>7. ASSUME NEW i \in DOMAIN requests, Reject(i) PROVE OpenInv'
    <2>1. UNCHANGED pc
        BY <1>7 DEF Reject
    <2>2. \A m \in Nodes : m # requests[i].node /\ Live(m)' => Live(m)
        BY <1>7 DEF Reject, Rejecting, Live, TypeOK
    <2>3. QED
        BY <1>7, <2>2, OpenDecide, DecidesOpen DEF Reject
<1>7a. ASSUME NEW i \in DOMAIN requests, NEW s \in Decisions, DecisionRaises(i, s)
      PROVE  OpenInv'
    <2>1. Decides(i, s) /\ requests' = Decided(i, s) /\ UNCHANGED <<statuses, pc>>
        BY <1>7a DEF DecisionRaises
    <2>2. \A m \in Nodes : Live(m)' => Live(m)
        BY <2>1 DEF Live
    <2>3. QED
        BY <2>1, <2>2, OpenDecide, DecidesOpen
<1>8. ASSUME NEW f \in ReplanRoots, Amend(f) PROVE OpenInv'
    <2>1. \A n \in Nodes : Open(n) => n \notin Invalidated(f)
        <3>1. f \notin RequiresApproval
            BY DEF PlainCaller
        <3>2. \A n \in Nodes : Open(n) => n \in RequiresApproval
            BY LogType DEF TypeOK, Open
        <3>3. QED
            BY <3>1, <3>2 DEF Invalidated, OpenInv, Live
    <2>2. /\ requests' = requests /\ pc' = pc
          /\ \A n \in Nodes : n \notin Invalidated(f) => statuses'[n] = statuses[n]
        BY <1>8 DEF Amend, AmendSpec
    <2>3. \A n \in Nodes : Open(n)' => Open(n)
        BY <2>2 DEF Open
    <2>4. QED
        BY <2>1, <2>2, <2>3 DEF OpenInv, Live
<1>9. ASSUME NEW n \in Nodes, Execute(n) PROVE OpenInv'
    <2>1. CASE Start(n)
        <3>1. requests' = requests /\ \A k \in Nodes : Live(k)' => Live(k)
            BY <2>1 DEF Start, Live, TypeOK, ThreadInv
        <3>2. QED
            BY <3>1, OpenFrame
    <2>2. CASE GateFails(n)
        <3>1. requests' = requests /\ \A k \in Nodes : Live(k)' => Live(k)
            BY <2>2 DEF GateFails, BeginFailure, Live, TypeOK, ThreadInv
        <3>2. QED
            BY <3>1, OpenFrame
    <2>3. CASE GateRaises(n)
        <3>1. requests' = requests /\ \A k \in Nodes : Live(k)' => Live(k)
            BY <2>3 DEF GateRaises, Raise, Live, TypeOK, ThreadInv
        <3>2. QED
            BY <3>1, OpenFrame
    <2>4. CASE RequestApproval(n)
        <3>1. /\ requests' = Append(requests, Request(n, "pending"))
              /\ Live(n) /\ ~Live(n)'
              /\ \A m \in Nodes : Live(m)' => Live(m)
            BY <2>4 DEF RequestApproval, Live, TypeOK, ThreadInv
        <3>2. QED
            BY <3>1, OpenRequest
    <2>5. CASE RequestRaises(n)
        <3>1. /\ requests' = Append(requests, Request(n, "pending"))
              /\ Live(n) /\ ~Live(n)'
              /\ \A m \in Nodes : Live(m)' => Live(m)
            BY <2>5 DEF RequestRaises, Raise, Live, TypeOK, ThreadInv
        <3>2. QED
            BY <3>1, OpenRequest
    <2>6. CASE AutoApprove(n)
        <3>1. /\ requests' = Append(requests, Request(n, "approved"))
              /\ \A m \in Nodes : Live(m)' => Live(m)
            BY <2>6 DEF AutoApprove, Live, TypeOK, ThreadInv
        <3>2. QED
            BY <3>1, OpenRequest
    <2>7. CASE AutoReject(n)
        <3>1. /\ requests' = Append(requests, Request(n, "rejected"))
              /\ \A m \in Nodes : Live(m)' => Live(m)
            BY <2>7 DEF AutoReject, Live, TypeOK, ThreadInv
        <3>2. QED
            BY <3>1, OpenRequest
    <2>7a. CASE AutoRaises(n)
        <3>1. PICK s \in Decisions \union {"pending"} :
                  requests' = Append(requests, Request(n, s))
            BY <2>7a, AutoRaisesRequest
        <3>2. /\ pc[n] = "started" /\ pc' = [pc EXCEPT ![n] = "out"] /\ statuses' = statuses
              /\ statuses[n] \in {"running", "skipped", "rolled_back"}
            BY <2>7a DEF AutoRaises, Raise, ThreadInv
        <3>3. /\ Live(n) /\ ~Live(n)'
              /\ \A m \in Nodes : Live(m)' => Live(m)
            BY <3>2 DEF Live, TypeOK
        <3>4. QED
            BY <3>1, <3>3, OpenRequest
    <2>8. CASE Park(n)
        <3>1. requests' = requests /\ \A k \in Nodes : Live(k)' => Live(k)
            BY <2>8 DEF Park, Live, TypeOK, ThreadInv
        <3>2. QED
            BY <3>1, OpenFrame
    <2>9. CASE BeginWork(n)
        <3>1. requests' = requests /\ \A k \in Nodes : Live(k)' => Live(k)
            BY <2>9 DEF BeginWork, MayBegin, Live, TypeOK, ThreadInv
        <3>2. QED
            BY <3>1, OpenFrame
    <2>10. CASE Complete(n)
        <3>1. requests' = requests /\ \A k \in Nodes : Live(k)' => Live(k)
            BY <2>10 DEF Complete, Put, Live, TypeOK, ThreadInv
        <3>2. QED
            BY <3>1, OpenFrame
    <2>11. CASE HandlerFails(n)
        <3>1. requests' = requests /\ \A k \in Nodes : Live(k)' => Live(k)
            BY <2>11 DEF HandlerFails, BeginFailure, Live, TypeOK, ThreadInv
        <3>2. QED
            BY <3>1, OpenFrame
    <2>12. CASE Undo(n)
        <3>1. requests' = requests /\ \A k \in Nodes : Live(k)' => Live(k)
            BY ZenonT(40), <2>12 DEF Undo, Live, TypeOK, ThreadInv
        <3>2. QED
            BY <3>1, OpenFrame
    <2>13. CASE UndoRaises(n)
        <3>1. requests' = requests /\ \A k \in Nodes : Live(k)' => Live(k)
            BY <2>13 DEF UndoRaises, Raise, Live, TypeOK, ThreadInv
        <3>2. QED
            BY <3>1, OpenFrame
    <2>14. CASE EndFailure(n)
        <3>1. requests' = requests /\ \A k \in Nodes : Live(k)' => Live(k)
            BY <2>14 DEF EndFailure, Live, TypeOK, ThreadInv
        <3>2. QED
            BY <3>1, OpenFrame
    <2>15. ASSUME NEW m \in Nodes, CascadeCheck(n, m) PROVE OpenInv'
        <3>1. requests' = requests /\ \A k \in Nodes : Live(k)' => Live(k)
            BY <2>15 DEF CascadeCheck, Live, TypeOK, ThreadInv
        <3>2. QED
            BY <3>1, OpenFrame
    <2>16. ASSUME NEW m \in Nodes, CascadeSkip(n, m) PROVE OpenInv'
        <3>1. requests' = requests /\ \A k \in Nodes : Live(k)' => Live(k)
            BY <2>16 DEF CascadeSkip, Live, TypeOK, ThreadInv
        <3>2. QED
            BY <3>1, OpenFrame
    <2>17. QED
        BY <1>9, <2>1, <2>2, <2>3, <2>4, <2>5, <2>6, <2>7, <2>7a, <2>8,
           <2>9, <2>10, <2>11, <2>12, <2>13, <2>14, <2>15, <2>16 DEF Execute
<1>10. CASE UNCHANGED vars
    <2>1. requests' = requests /\ \A k \in Nodes : Live(k)' => Live(k)
        BY <1>10 DEF vars, Live, TypeOK, ThreadInv
    <2>2. QED
        BY <2>1, OpenFrame
<1>11. QED
    BY <1>1, <1>2, <1>3, <1>4, <1>5, <1>6, <1>7, <1>7a, <1>8, <1>9, <1>10 DEF Next, Run, Caller

-----------------------------------------------------------------------------
LEMMA ReworkInit == Init => ReworkInv
BY DownstreamType DEF Init, ReworkInv

(* A step that unsettles no node, completes none and starts none keeps the *)
(* invariant.                                                              *)
LEMMA ReworkFrame ==
    ASSUME ReworkInv,
           \A n \in Nodes :
                /\ Unsettled(n)' => Unsettled(n)
                /\ statuses'[n] = "completed" => statuses[n] = "completed"
                /\ pc'[n] # "out" => pc[n] # "out"
    PROVE  ReworkInv'
BY DownstreamType DEF ReworkInv

(* What is upstream of a node that can start has settled.                  *)
LEMMA ReadyIsSettled ==
    ASSUME TypeOK, ReworkInv, OpenInv, \A n \in Nodes : pc[n] = "out",
           NEW n \in Nodes, NEW m \in Ready, m \in Downstream(n)
    PROVE  ~Unsettled(n)
<1>1. PICK d \in DependsOn[m] : d \in ReachableFrom[n]
    BY ReachableLastStep DEF Ready
<1>2. d \in Nodes /\ statuses[d] = "completed"
    BY DEF Ready
<1>3. CASE d = n
    BY <1>2, <1>3 DEF Unsettled, Runnable, OpenInv, Live
<1>4. CASE d # n
    BY <1>1, <1>2, <1>4 DEF ReworkInv, Downstream
<1>5. QED
    BY <1>3, <1>4

(* A wave starts nothing downstream of a node that is still to be run, and *)
(* a re-plan invalidates everything downstream of what it invalidates.     *)
LEMMA ReworkStep ==
    PlainCaller /\ TypeOK /\ ThreadInv /\ OpenInv /\ ReworkInv /\ [Next]_vars => ReworkInv'
<1> SUFFICES ASSUME PlainCaller, TypeOK, ThreadInv, OpenInv, ReworkInv, [Next]_vars
             PROVE  ReworkInv'
    OBVIOUS
<1> USE DEF orchVars, storeVars, runVars, loopVars
<1>1. CASE StartWave
    <2>1. /\ UNCHANGED <<statuses, requests>>
          /\ \A k \in Nodes : pc[k] = "out"
          /\ \A k \in Nodes : pc'[k] # "out" => k \in Ready
        BY <1>1 DEF StartWave, TypeOK, ThreadInv
    <2>2. \A k \in Nodes : Unsettled(k)' => Unsettled(k)
        BY <2>1 DEF Unsettled, Open, Runnable, Ready
    <2>3. ASSUME NEW k \in Nodes, Unsettled(k), NEW m \in Downstream(k)
          PROVE  statuses'[m] # "completed" /\ pc'[m] = "out"
        BY <2>1, <2>3, ReadyIsSettled, DownstreamType DEF ReworkInv
    <2>4. QED
        BY <2>2, <2>3 DEF ReworkInv
<1>2. CASE EndWave
    <2>1. \A k \in Nodes : /\ Unsettled(k)' => Unsettled(k)
                           /\ statuses'[k] = "completed" => statuses[k] = "completed"
                           /\ pc'[k] # "out" => pc[k] # "out"
        BY <1>2 DEF EndWave, Unsettled, Runnable, Open, TypeOK, ThreadInv
    <2>2. QED
        BY <2>1, ReworkFrame
<1>3. CASE RunRaises
    <2>1. \A k \in Nodes : /\ Unsettled(k)' => Unsettled(k)
                           /\ statuses'[k] = "completed" => statuses[k] = "completed"
                           /\ pc'[k] # "out" => pc[k] # "out"
        BY <1>3 DEF RunRaises, Unsettled, Runnable, Open, TypeOK, ThreadInv
    <2>2. QED
        BY <2>1, ReworkFrame
<1>4. CASE Return
    <2>1. /\ UNCHANGED pc /\ UNCHANGED requests
          /\ \A k \in Nodes : statuses'[k] \in {"skipped", statuses[k]}
        BY <1>4, ReturnSkips
    <2>2. \A k \in Nodes : /\ Unsettled(k)' => Unsettled(k)
                           /\ statuses'[k] = "completed" => statuses[k] = "completed"
                           /\ pc'[k] # "out" => pc[k] # "out"
        BY <2>1 DEF Unsettled, Runnable, Open
    <2>3. QED
        BY <2>2, ReworkFrame
<1>5. CASE CallRun
    <2>1. \A k \in Nodes : /\ Unsettled(k)' => Unsettled(k)
                           /\ statuses'[k] = "completed" => statuses[k] = "completed"
                           /\ pc'[k] # "out" => pc[k] # "out"
        BY <1>5 DEF CallRun, Unsettled, Runnable, Open, TypeOK, ThreadInv
    <2>2. QED
        BY <2>1, ReworkFrame
<1>6. ASSUME NEW i \in DOMAIN requests, Approve(i) PROVE ReworkInv'
    <2>1. \A k \in Nodes : /\ Unsettled(k)' => Unsettled(k)
                           /\ statuses'[k] = "completed" => statuses[k] = "completed"
                           /\ pc'[k] # "out" => pc[k] # "out"
        <3>1. requests[i].status = "pending"
            BY <1>6, DecidesOpen DEF Approve
        <3>2. QED
            BY <1>6, <3>1 DEF Approve, Decided, Unsettled, Runnable, Open, TypeOK, ThreadInv
    <2>2. QED
        BY <2>1, ReworkFrame
<1>7. ASSUME NEW i \in DOMAIN requests, Reject(i) PROVE ReworkInv'
    <2>1. \A k \in Nodes : /\ Unsettled(k)' => Unsettled(k)
                           /\ statuses'[k] = "completed" => statuses[k] = "completed"
                           /\ pc'[k] # "out" => pc[k] # "out"
        BY <1>7 DEF Reject, Decided, Rejecting, Unsettled, Runnable, Open, TypeOK, ThreadInv
    <2>2. QED
        BY <2>1, ReworkFrame
<1>7a. ASSUME NEW i \in DOMAIN requests, NEW s \in Decisions, DecisionRaises(i, s)
      PROVE  ReworkInv'
    <2>1. UNCHANGED <<statuses, pc>> /\ \A k \in Nodes : Open(k)' => Open(k)
        BY <1>7a, DecisionRaisesOpen
    <2>2. \A k \in Nodes : /\ Unsettled(k)' => Unsettled(k)
                           /\ statuses'[k] = "completed" => statuses[k] = "completed"
                           /\ pc'[k] # "out" => pc[k] # "out"
        BY <2>1 DEF Unsettled, Runnable
    <2>3. QED
        BY <2>2, ReworkFrame
<1>8. ASSUME NEW f \in ReplanRoots, Amend(f) PROVE ReworkInv'
    <2>1. /\ statuses' = [k \in Nodes |-> IF k \in Invalidated(f) THEN "stale" ELSE statuses[k]]
          /\ UNCHANGED <<pc, requests>> /\ f \in Nodes
          /\ \A k \in Nodes : pc[k] = "out"
        BY <1>8 DEF Amend, AmendSpec, ThreadInv
    <2>2. ASSUME NEW k \in Nodes, Unsettled(k)', NEW m \in Downstream(k),
                 statuses'[m] = "completed"
          PROVE  FALSE
        <3>1. m \in Nodes /\ statuses[m] = "completed" /\ m \notin Invalidated(f)
            BY <2>1, <2>2, DownstreamType
        <3>2. m \notin Downstream(f)
            BY <3>1 DEF Invalidated
        <3>3. k \notin Invalidated(f)
            BY <2>1, <3>2, DownstreamTransitive DEF Invalidated
        <3>4. Unsettled(k)
            BY <2>1, <2>2, <3>3 DEF Unsettled, Open, Runnable
        <3>5. QED
            BY <3>1, <3>4 DEF ReworkInv
    <2>3. QED
        BY <2>1, <2>2, DownstreamType DEF ReworkInv
<1>9. ASSUME NEW n \in Nodes, Execute(n) PROVE ReworkInv'
    <2>1. CASE Start(n)
        <3>1. \A k \in Nodes : /\ Unsettled(k)' => Unsettled(k)
                               /\ statuses'[k] = "completed" => statuses[k] = "completed"
                               /\ pc'[k] # "out" => pc[k] # "out"
            BY <2>1 DEF Start, Unsettled, Runnable, Open, TypeOK, ThreadInv
        <3>2. QED
            BY <3>1, ReworkFrame
    <2>2. CASE GateFails(n)
        <3>1. \A k \in Nodes : /\ Unsettled(k)' => Unsettled(k)
                               /\ statuses'[k] = "completed" => statuses[k] = "completed"
                               /\ pc'[k] # "out" => pc[k] # "out"
            BY <2>2 DEF GateFails, BeginFailure, Unsettled, Runnable, Open, TypeOK, ThreadInv
        <3>2. QED
            BY <3>1, ReworkFrame
    <2>3. CASE GateRaises(n)
        <3>1. \A k \in Nodes : /\ Unsettled(k)' => Unsettled(k)
                               /\ statuses'[k] = "completed" => statuses[k] = "completed"
                               /\ pc'[k] # "out" => pc[k] # "out"
            BY <2>3 DEF GateRaises, Raise, Unsettled, Runnable, Open, TypeOK, ThreadInv
        <3>2. QED
            BY <3>1, ReworkFrame
    <2>4. CASE RequestApproval(n)
        <3>1. \A k \in Nodes : Open(k)' => Open(k) \/ k = n
            <4>1. /\ requests \in Seq(ApprovalRequest)
                  /\ requests' = Append(requests, Request(n, "pending"))
                BY <2>4 DEF RequestApproval, TypeOK
            <4>2. QED
                BY <4>1, OpenAppend
        <3>2. \A k \in Nodes : /\ Unsettled(k)' => Unsettled(k)
                               /\ statuses'[k] = "completed" => statuses[k] = "completed"
                               /\ pc'[k] # "out" => pc[k] # "out"
            BY <2>4, <3>1 DEF RequestApproval, Unsettled, Runnable, TypeOK
        <3>3. QED
            BY <3>2, ReworkFrame
    <2>5. CASE RequestRaises(n)
        <3>1. \A k \in Nodes : Open(k)' => Open(k) \/ k = n
            <4>1. /\ requests \in Seq(ApprovalRequest)
                  /\ requests' = Append(requests, Request(n, "pending"))
                BY <2>5 DEF RequestRaises, TypeOK
            <4>2. QED
                BY <4>1, OpenAppend
        <3>2. \A k \in Nodes : /\ Unsettled(k)' => Unsettled(k)
                               /\ statuses'[k] = "completed" => statuses[k] = "completed"
                               /\ pc'[k] # "out" => pc[k] # "out"
            BY <2>5, <3>1 DEF RequestRaises, Raise, Unsettled, Runnable, TypeOK
        <3>3. QED
            BY <3>2, ReworkFrame
    <2>6. CASE AutoApprove(n)
        <3>1. \A k \in Nodes : Open(k)' => Open(k) \/ k = n
            <4>1. /\ requests \in Seq(ApprovalRequest)
                  /\ requests' = Append(requests, Request(n, "approved"))
                BY <2>6 DEF AutoApprove, TypeOK
            <4>2. QED
                BY <4>1, OpenAppend
        <3>2. \A k \in Nodes : /\ Unsettled(k)' => Unsettled(k)
                               /\ statuses'[k] = "completed" => statuses[k] = "completed"
                               /\ pc'[k] # "out" => pc[k] # "out"
            BY <2>6, <3>1 DEF AutoApprove, Unsettled, Runnable, TypeOK
        <3>3. QED
            BY <3>2, ReworkFrame
    <2>7. CASE AutoReject(n)
        <3>1. \A k \in Nodes : Open(k)' => Open(k) \/ k = n
            <4>1. /\ requests \in Seq(ApprovalRequest)
                  /\ requests' = Append(requests, Request(n, "rejected"))
                BY <2>7 DEF AutoReject, TypeOK
            <4>2. QED
                BY <4>1, OpenAppend
        <3>2. \A k \in Nodes : /\ Unsettled(k)' => Unsettled(k)
                               /\ statuses'[k] = "completed" => statuses[k] = "completed"
                               /\ pc'[k] # "out" => pc[k] # "out"
            BY <2>7, <3>1 DEF AutoReject, Unsettled, Runnable, TypeOK
        <3>3. QED
            BY <3>2, ReworkFrame
    <2>7a. CASE AutoRaises(n)
        <3>1. \A k \in Nodes : Open(k)' => Open(k) \/ k = n
            BY <2>7a, AutoRaisesOpen
        <3>2. \A k \in Nodes : /\ Unsettled(k)' => Unsettled(k)
                               /\ statuses'[k] = "completed" => statuses[k] = "completed"
                               /\ pc'[k] # "out" => pc[k] # "out"
            BY <2>7a, <3>1 DEF AutoRaises, Raise, Unsettled, Runnable, TypeOK
        <3>3. QED
            BY <3>2, ReworkFrame
    <2>8. CASE Park(n)
        <3>1. \A k \in Nodes : /\ Unsettled(k)' => Unsettled(k)
                               /\ statuses'[k] = "completed" => statuses[k] = "completed"
                               /\ pc'[k] # "out" => pc[k] # "out"
            BY <2>8 DEF Park, Unsettled, Runnable, Open, TypeOK, ThreadInv
        <3>2. QED
            BY <3>1, ReworkFrame
    <2>9. CASE BeginWork(n)
        <3>1. \A k \in Nodes : /\ Unsettled(k)' => Unsettled(k)
                               /\ statuses'[k] = "completed" => statuses[k] = "completed"
                               /\ pc'[k] # "out" => pc[k] # "out"
            BY <2>9 DEF BeginWork, MayBegin, Unsettled, Runnable, Open, TypeOK, ThreadInv
        <3>2. QED
            BY <3>1, ReworkFrame
    <2>10. CASE Complete(n)
        <3>1. /\ UNCHANGED requests /\ pc[n] # "out"
              /\ pc' = [pc EXCEPT ![n] = "out"]
              /\ statuses' = [statuses EXCEPT ![n] = "completed"]
              /\ statuses \in [Nodes -> Status] /\ pc \in [Nodes -> PCs]
            BY <2>10 DEF Complete, Put, TypeOK
        <3>2. \A k \in Nodes : Unsettled(k)' => Unsettled(k)
            BY <3>1 DEF Unsettled, Open, Runnable
        <3>3. ASSUME NEW k \in Nodes, Unsettled(k), NEW m \in Downstream(k)
              PROVE  statuses'[m] # "completed" /\ pc'[m] = "out"
            BY <3>1, <3>3, DownstreamType DEF ReworkInv
        <3>4. QED
            BY <3>2, <3>3 DEF ReworkInv
    <2>11. CASE HandlerFails(n)
        <3>1. \A k \in Nodes : /\ Unsettled(k)' => Unsettled(k)
                               /\ statuses'[k] = "completed" => statuses[k] = "completed"
                               /\ pc'[k] # "out" => pc[k] # "out"
            BY <2>11 DEF HandlerFails, BeginFailure, Unsettled, Runnable, Open, TypeOK, ThreadInv
        <3>2. QED
            BY <3>1, ReworkFrame
    <2>12. CASE Undo(n)
        <3>1. /\ UNCHANGED pc /\ UNCHANGED requests
              /\ \A k \in Nodes : statuses'[k] \in {"rolled_back", statuses[k]}
            BY <2>12 DEF Undo, TypeOK
        <3>2. \A k \in Nodes : /\ Unsettled(k)' => Unsettled(k)
                               /\ statuses'[k] = "completed" => statuses[k] = "completed"
                               /\ pc'[k] # "out" => pc[k] # "out"
            BY <3>1 DEF Unsettled, Runnable, Open
        <3>3. QED
            BY <3>2, ReworkFrame
    <2>13. CASE UndoRaises(n)
        <3>1. \A k \in Nodes : /\ Unsettled(k)' => Unsettled(k)
                               /\ statuses'[k] = "completed" => statuses[k] = "completed"
                               /\ pc'[k] # "out" => pc[k] # "out"
            BY <2>13 DEF UndoRaises, Raise, Unsettled, Runnable, Open, TypeOK, ThreadInv
        <3>2. QED
            BY <3>1, ReworkFrame
    <2>14. CASE EndFailure(n)
        <3>1. \A k \in Nodes : /\ Unsettled(k)' => Unsettled(k)
                               /\ statuses'[k] = "completed" => statuses[k] = "completed"
                               /\ pc'[k] # "out" => pc[k] # "out"
            BY <2>14 DEF EndFailure, Unsettled, Runnable, Open, TypeOK, ThreadInv
        <3>2. QED
            BY <3>1, ReworkFrame
    <2>15. ASSUME NEW m \in Nodes, CascadeCheck(n, m) PROVE ReworkInv'
        <3>1. \A k \in Nodes : /\ Unsettled(k)' => Unsettled(k)
                               /\ statuses'[k] = "completed" => statuses[k] = "completed"
                               /\ pc'[k] # "out" => pc[k] # "out"
            BY <2>15 DEF CascadeCheck, Unsettled, Runnable, Open, TypeOK, ThreadInv
        <3>2. QED
            BY <3>1, ReworkFrame
    <2>16. ASSUME NEW m \in Nodes, CascadeSkip(n, m) PROVE ReworkInv'
        <3>1. \A k \in Nodes : /\ Unsettled(k)' => Unsettled(k)
                               /\ statuses'[k] = "completed" => statuses[k] = "completed"
                               /\ pc'[k] # "out" => pc[k] # "out"
            BY <2>16 DEF CascadeSkip, Unsettled, Runnable, Open, TypeOK, ThreadInv
        <3>2. QED
            BY <3>1, ReworkFrame
    <2>17. QED
        BY <1>9, <2>1, <2>2, <2>3, <2>4, <2>5, <2>6, <2>7, <2>7a, <2>8,
           <2>9, <2>10, <2>11, <2>12, <2>13, <2>14, <2>15, <2>16 DEF Execute
<1>10. CASE UNCHANGED vars
    <2>1. \A k \in Nodes : /\ Unsettled(k)' => Unsettled(k)
                           /\ statuses'[k] = "completed" => statuses[k] = "completed"
                           /\ pc'[k] # "out" => pc[k] # "out"
        BY <1>10 DEF vars, Unsettled, Runnable, Open, TypeOK, ThreadInv
    <2>2. QED
        BY <2>1, ReworkFrame
<1>11. QED
    BY <1>1, <1>2, <1>3, <1>4, <1>5, <1>6, <1>7, <1>7a, <1>8, <1>9, <1>10 DEF Next, Run, Caller

-----------------------------------------------------------------------------
LEMMA LineageInit == Init => LineageFresh
BY DEF Init, LineageFresh

(* A step that completes nothing and records nothing keeps lineage fresh.  *)
LEMMA LineageFrame ==
    ASSUME LineageFresh, UNCHANGED <<inputs, version>>,
           \A n \in Nodes : statuses'[n] = "completed" => statuses[n] = "completed"
    PROVE  LineageFresh'
BY DEF LineageFresh

(* Only a completing node records inputs, the current ones, and nothing    *)
(* downstream of it is COMPLETED when its own version changes.             *)
LEMMA LineageStep ==
    TypeOK /\ BarrierInv /\ ReworkInv /\ LineageFresh /\ [Next]_vars => LineageFresh'
<1> SUFFICES ASSUME TypeOK, BarrierInv, ReworkInv, LineageFresh, [Next]_vars PROVE LineageFresh'
    OBVIOUS
<1> USE DEF orchVars, storeVars, runVars, loopVars
<1>1. CASE StartWave
    <2>1. /\ UNCHANGED <<inputs, version>>
          /\ \A k \in Nodes : statuses'[k] = "completed" => statuses[k] = "completed"
        BY <1>1 DEF StartWave, TypeOK
    <2>2. QED
        BY <2>1, LineageFrame
<1>2. CASE EndWave
    <2>1. /\ UNCHANGED <<inputs, version>>
          /\ \A k \in Nodes : statuses'[k] = "completed" => statuses[k] = "completed"
        BY <1>2 DEF EndWave, TypeOK
    <2>2. QED
        BY <2>1, LineageFrame
<1>3. CASE RunRaises
    <2>1. /\ UNCHANGED <<inputs, version>>
          /\ \A k \in Nodes : statuses'[k] = "completed" => statuses[k] = "completed"
        BY <1>3 DEF RunRaises, TypeOK
    <2>2. QED
        BY <2>1, LineageFrame
<1>4. CASE Return
    <2>1. /\ UNCHANGED <<inputs, version>>
          /\ \A k \in Nodes : statuses'[k] = "completed" => statuses[k] = "completed"
        BY <1>4, ReturnSkips
    <2>2. QED
        BY <2>1, LineageFrame
<1>5. CASE CallRun
    <2>1. /\ UNCHANGED <<inputs, version>>
          /\ \A k \in Nodes : statuses'[k] = "completed" => statuses[k] = "completed"
        BY <1>5 DEF CallRun, TypeOK
    <2>2. QED
        BY <2>1, LineageFrame
<1>6. ASSUME NEW i \in DOMAIN requests, Approve(i) PROVE LineageFresh'
    <2>1. /\ UNCHANGED <<inputs, version>>
          /\ \A k \in Nodes : statuses'[k] = "completed" => statuses[k] = "completed"
        BY <1>6 DEF Approve, Decided, TypeOK
    <2>2. QED
        BY <2>1, LineageFrame
<1>7. ASSUME NEW i \in DOMAIN requests, Reject(i) PROVE LineageFresh'
    <2>1. /\ UNCHANGED <<inputs, version>>
          /\ \A k \in Nodes : statuses'[k] = "completed" => statuses[k] = "completed"
        BY <1>7 DEF Reject, Rejecting, TypeOK
    <2>2. QED
        BY <2>1, LineageFrame
<1>7a. ASSUME NEW i \in DOMAIN requests, NEW s \in Decisions, DecisionRaises(i, s)
      PROVE  LineageFresh'
    BY <1>7a, LineageFrame DEF DecisionRaises
<1>8. ASSUME NEW f \in ReplanRoots, Amend(f) PROVE LineageFresh'
    <2>1. /\ UNCHANGED <<inputs, version>>
          /\ \A k \in Nodes : statuses'[k] = "completed" => statuses[k] = "completed"
        BY <1>8 DEF Amend, AmendSpec, TypeOK
    <2>2. QED
        BY <2>1, LineageFrame
<1>9. ASSUME NEW n \in Nodes, Execute(n) PROVE LineageFresh'
    <2>1. CASE Start(n)
        <3>1. /\ UNCHANGED <<inputs, version>>
              /\ \A k \in Nodes : statuses'[k] = "completed" => statuses[k] = "completed"
            BY <2>1 DEF Start, TypeOK
        <3>2. QED
            BY <3>1, LineageFrame
    <2>2. CASE GateFails(n)
        <3>1. /\ UNCHANGED <<inputs, version>>
              /\ \A k \in Nodes : statuses'[k] = "completed" => statuses[k] = "completed"
            BY <2>2 DEF GateFails, BeginFailure, TypeOK
        <3>2. QED
            BY <3>1, LineageFrame
    <2>3. CASE GateRaises(n)
        <3>1. /\ UNCHANGED <<inputs, version>>
              /\ \A k \in Nodes : statuses'[k] = "completed" => statuses[k] = "completed"
            BY <2>3 DEF GateRaises, Raise, TypeOK
        <3>2. QED
            BY <3>1, LineageFrame
    <2>4. CASE RequestApproval(n)
        <3>1. /\ UNCHANGED <<inputs, version>>
              /\ \A k \in Nodes : statuses'[k] = "completed" => statuses[k] = "completed"
            BY <2>4 DEF RequestApproval, TypeOK
        <3>2. QED
            BY <3>1, LineageFrame
    <2>5. CASE RequestRaises(n)
        <3>1. /\ UNCHANGED <<inputs, version>>
              /\ \A k \in Nodes : statuses'[k] = "completed" => statuses[k] = "completed"
            BY <2>5 DEF RequestRaises, Raise, TypeOK
        <3>2. QED
            BY <3>1, LineageFrame
    <2>6. CASE AutoApprove(n)
        <3>1. /\ UNCHANGED <<inputs, version>>
              /\ \A k \in Nodes : statuses'[k] = "completed" => statuses[k] = "completed"
            BY <2>6 DEF AutoApprove, TypeOK
        <3>2. QED
            BY <3>1, LineageFrame
    <2>7. CASE AutoReject(n)
        <3>1. /\ UNCHANGED <<inputs, version>>
              /\ \A k \in Nodes : statuses'[k] = "completed" => statuses[k] = "completed"
            BY <2>7 DEF AutoReject, TypeOK
        <3>2. QED
            BY <3>1, LineageFrame
    <2>7a. CASE AutoRaises(n)
        <3>1. /\ UNCHANGED <<inputs, version>>
              /\ \A k \in Nodes : statuses'[k] = "completed" => statuses[k] = "completed"
            BY <2>7a DEF AutoRaises, Raise, TypeOK
        <3>2. QED
            BY <3>1, LineageFrame
    <2>8. CASE Park(n)
        <3>1. /\ UNCHANGED <<inputs, version>>
              /\ \A k \in Nodes : statuses'[k] = "completed" => statuses[k] = "completed"
            BY <2>8 DEF Park, TypeOK
        <3>2. QED
            BY <3>1, LineageFrame
    <2>9. CASE BeginWork(n)
        <3>1. /\ UNCHANGED <<inputs, version>>
              /\ \A k \in Nodes : statuses'[k] = "completed" => statuses[k] = "completed"
            BY <2>9 DEF BeginWork, TypeOK
        <3>2. QED
            BY <3>1, LineageFrame
    <2>10. CASE Complete(n)
        <3>1. /\ statuses' = [statuses EXCEPT ![n] = "completed"]
              /\ version' = [version EXCEPT ![n] = version[n] + 1]
              /\ inputs' = [inputs EXCEPT ![n] = read[n]]
              /\ pc[n] = "working"
            BY <2>10 DEF Complete, Put
        <3>2. ASSUME NEW m \in Nodes, statuses'[m] = "completed", NEW d \in DependsOn[m]
              PROVE  inputs'[m][d] = version'[d]
            <4>1. d # n /\ d \in Nodes => version'[d] = version[d]
                BY <3>1 DEF TypeOK
            <4>2. CASE m = n
                <5>1. d # n
                    BY <4>2, DependentIsDownstream DEF Downstream
                <5>2. QED
                    BY <3>1, <4>1, <4>2, <5>1 DEF TypeOK, BarrierInv
            <4>3. CASE m # n
                <5>1. statuses[m] = "completed" /\ inputs'[m] = inputs[m]
                    BY <3>1, <3>2, <4>3 DEF TypeOK
                <5>2. d # n
                    BY <3>1, <5>1, DependentIsDownstream DEF ReworkInv, Unsettled
                <5>3. QED
                    BY <4>1, <5>1, <5>2 DEF LineageFresh
            <4>4. QED
                BY <4>2, <4>3
        <3>3. QED
            BY <3>2 DEF LineageFresh
    <2>11. CASE HandlerFails(n)
        <3>1. /\ UNCHANGED <<inputs, version>>
              /\ \A k \in Nodes : statuses'[k] = "completed" => statuses[k] = "completed"
            BY <2>11 DEF HandlerFails, BeginFailure, TypeOK
        <3>2. QED
            BY <3>1, LineageFrame
    <2>12. CASE Undo(n)
        <3>1. /\ UNCHANGED <<inputs, version>>
              /\ \A k \in Nodes : statuses'[k] = "completed" => statuses[k] = "completed"
            BY <2>12 DEF Undo, TypeOK
        <3>2. QED
            BY <3>1, LineageFrame
    <2>13. CASE UndoRaises(n)
        <3>1. /\ UNCHANGED <<inputs, version>>
              /\ \A k \in Nodes : statuses'[k] = "completed" => statuses[k] = "completed"
            BY <2>13 DEF UndoRaises, Raise, TypeOK
        <3>2. QED
            BY <3>1, LineageFrame
    <2>14. CASE EndFailure(n)
        <3>1. /\ UNCHANGED <<inputs, version>>
              /\ \A k \in Nodes : statuses'[k] = "completed" => statuses[k] = "completed"
            BY <2>14 DEF EndFailure, TypeOK
        <3>2. QED
            BY <3>1, LineageFrame
    <2>15. ASSUME NEW m \in Nodes, CascadeCheck(n, m) PROVE LineageFresh'
        <3>1. /\ UNCHANGED <<inputs, version>>
              /\ \A k \in Nodes : statuses'[k] = "completed" => statuses[k] = "completed"
            BY <2>15 DEF CascadeCheck, TypeOK
        <3>2. QED
            BY <3>1, LineageFrame
    <2>16. ASSUME NEW m \in Nodes, CascadeSkip(n, m) PROVE LineageFresh'
        <3>1. /\ UNCHANGED <<inputs, version>>
              /\ \A k \in Nodes : statuses'[k] = "completed" => statuses[k] = "completed"
            BY <2>16 DEF CascadeSkip, TypeOK
        <3>2. QED
            BY <3>1, LineageFrame
    <2>17. QED
        BY <1>9, <2>1, <2>2, <2>3, <2>4, <2>5, <2>6, <2>7, <2>7a, <2>8,
           <2>9, <2>10, <2>11, <2>12, <2>13, <2>14, <2>15, <2>16 DEF Execute
<1>10. CASE UNCHANGED vars
    <2>1. /\ UNCHANGED <<inputs, version>>
          /\ \A k \in Nodes : statuses'[k] = "completed" => statuses[k] = "completed"
        BY <1>10 DEF vars, TypeOK
    <2>2. QED
        BY <2>1, LineageFrame
<1>11. QED
    BY <1>1, <1>2, <1>3, <1>4, <1>5, <1>6, <1>7, <1>7a, <1>8, <1>9, <1>10 DEF Next, Run, Caller

(* As long as the caller decides only what is listed as pending, and       *)
(* re-plans only from nodes that need no approval, a COMPLETED node is     *)
(* never out of date with what it was computed from.                       *)
THEOREM LineageCorrect == PlainCaller /\ Spec => []LineageFresh
<1> DEFINE Inv == TypeOK /\ ThreadInv /\ BarrierInv /\ OpenInv /\ ReworkInv /\ LineageFresh
<1>1. Init => Inv
    BY TypeInit, ThreadInit, BarrierInit, OpenInit, ReworkInit, LineageInit
<1>2. PlainCaller /\ Inv /\ [Next]_vars => Inv'
    BY TypeStep, ThreadStep, BarrierStep, OpenStep, ReworkStep, LineageStep
<1>3. CASE PlainCaller
    BY <1>1, <1>2, <1>3, PTL DEF Spec
<1>4. QED
    BY <1>3

-----------------------------------------------------------------------------
(* The engine implements Workflow: what threads, statuses and requests do  *)
(* is, seen from outside, executions that begin and end as Workflow        *)
(* allows.                                                                 *)

(* A step that neither begins nor ends an execution, stores nothing and    *)
(* gives no approval is invisible.                                         *)
LEMMA Quiet ==
    ASSUME UNCHANGED <<version, inputs, begun, granted>>,
           \A n \in Nodes : pc'[n] = "working" <=> pc[n] = "working"
    PROVE  UNCHANGED Promise!vars
<1>1. Working' = Working
    BY DEF Working
<1>2. Unused' = Unused
    BY DEF Unused
<1>3. QED
    BY <1>1, <1>2 DEF Promise!vars

(* Two states agree on what is unused but for one node.                    *)
LEMMA UnusedExcept ==
    ASSUME NEW n \in RequiresApproval, NEW x,
           \A m \in RequiresApproval : Unused'[m] = IF m = n THEN x ELSE Unused[m]
    PROVE  Unused' = [Unused EXCEPT ![n] = x]
BY DEF Unused

(* An approval that is logged is one more agreement.                       *)
LEMMA Agreement ==
    ASSUME TypeOK, NEW n \in RequiresApproval,
           UNCHANGED <<version, inputs, begun>>, granted' = Granted(n),
           \A m \in Nodes : pc'[m] = "working" <=> pc[m] = "working"
    PROVE  Promise!Agree(n)
<1>1. Working' = Working
    BY DEF Working
<1>2. begun \in [Nodes -> Nat] /\ granted \in [Nodes -> Nat]
    BY DEF TypeOK
<1>3. \A m \in RequiresApproval :
          Unused'[m] = IF m = n THEN Unused[n] + 1 ELSE Unused[m]
    BY <1>2 DEF Unused
<1>4. Unused' = [Unused EXCEPT ![n] = @ + 1]
    BY <1>3, UnusedExcept
<1>5. QED
    BY <1>1, <1>4 DEF Promise!Agree

LEMMA PromiseInit == Init => Promise!Init
<1> SUFFICES ASSUME Init PROVE Promise!Init
    OBVIOUS
<1>1. Working = {}
    BY DEF Init, Working
<1>2. Unused = [n \in RequiresApproval |-> 0]
    BY DEF Init, Unused
<1>3. QED
    BY <1>1, <1>2 DEF Init, NoInputs, Promise!Init

(* BeginWork is where Workflow asks for something: the barrier and the     *)
(* credit of the engine are what it asks for.                              *)
LEMMA BeginIsBegin ==
    ASSUME TypeOK, ThreadInv, BarrierInv, CreditInv, NEW n \in Nodes, BeginWork(n)
    PROVE  Promise!Begin(n)
<1>1. pc[n] \in {"started", "cleared"} /\ pc'[n] = "working"
      /\ (\A m \in Nodes : m # n => pc'[m] = pc[m])
      /\ begun' = [begun EXCEPT ![n] = @ + 1]
      /\ UNCHANGED <<version, inputs, granted>>
    BY DEF BeginWork, MayBegin, orchVars, TypeOK
<1>2. Working' = Working \union {n} /\ n \notin Working
    BY <1>1 DEF Working
<1>3. \A d \in DependsOn[n] : d \notin Working /\ version[d] > 0
    <2> SUFFICES ASSUME NEW d \in DependsOn[n] PROVE d \notin Working /\ version[d] > 0
        OBVIOUS
    <2>1. d \in Nodes /\ version[d] \in Nat
        BY DEF TypeOK
    <2>2. pc[d] = "out" /\ version[d] >= 1
        BY <1>1 DEF BarrierInv
    <2>3. QED
        BY <2>1, <2>2 DEF Working
<1>4. Promise!Dependents(n) \intersect Working = {}
    <2> SUFFICES ASSUME NEW m \in Nodes, n \in DependsOn[m], pc[m] = "working" PROVE FALSE
        BY DEF Promise!Dependents, Working
    <2>1. QED
        BY <1>1 DEF BarrierInv
<1>5. Promise!UseAgreement(n)
    <2>1. CASE n \notin RequiresApproval
        BY <1>1, <2>1 DEF Promise!UseAgreement, Unused, TypeOK
    <2>2. CASE n \in RequiresApproval
        <3>1. n \in approved /\ CanBegin(n)
            BY <1>1, <2>2 DEF BeginWork, MayBegin, NeedsApproval, ThreadInv, CanBegin
        <3>2. begun[n] < granted[n] /\ begun \in [Nodes -> Nat] /\ granted \in [Nodes -> Nat]
            BY <2>2, <3>1 DEF CreditInv, TypeOK
        <3>3. Unused[n] > 0
            BY <2>2, <3>2 DEF Unused
        <3>4. \A m \in RequiresApproval :
                  Unused'[m] = IF m = n THEN Unused[n] - 1 ELSE Unused[m]
            BY <1>1, <2>2, <3>2 DEF Unused
        <3>5. Unused' = [Unused EXCEPT ![n] = @ - 1]
            BY <2>2, <3>4, UnusedExcept
        <3>6. QED
            BY <2>2, <3>3, <3>5 DEF Promise!UseAgreement
    <2>3. QED
        BY <2>1, <2>2
<1>6. QED
    BY <1>1, <1>2, <1>3, <1>4, <1>5 DEF Promise!Begin

(* What Complete stores are the versions that are still current.           *)
LEMMA CompleteIsFinish ==
    ASSUME TypeOK, BarrierInv, NEW n \in Nodes, Complete(n)
    PROVE  Promise!Finish(n)
<1>1. pc[n] = "working" /\ pc' = [pc EXCEPT ![n] = "out"]
      /\ version' = [version EXCEPT ![n] = @ + 1]
      /\ inputs' = [inputs EXCEPT ![n] = read[n]]
      /\ UNCHANGED <<begun, granted>>
    BY DEF Complete, Put
<1>2. Working' = Working \ {n} /\ n \in Working
    BY <1>1 DEF Working, TypeOK
<1>3. read[n] = [d \in DependsOn[n] |-> version[d]]
    <2>1. read[n] \in [DependsOn[n] -> Nat]
        BY DEF TypeOK
    <2>2. \A d \in DependsOn[n] : read[n][d] = version[d]
        BY <1>1 DEF BarrierInv
    <2>3. QED
        BY <2>1, <2>2
<1>4. Unused' = Unused
    BY <1>1 DEF Unused
<1>5. QED
    BY <1>1, <1>2, <1>3, <1>4 DEF Promise!Finish

LEMMA PromiseStep ==
    TypeOK /\ ThreadInv /\ BarrierInv /\ CreditInv /\ [Next]_vars
        => [Promise!Next]_(Promise!vars)
<1> SUFFICES ASSUME TypeOK, ThreadInv, BarrierInv, CreditInv, [Next]_vars
             PROVE  Promise!Next \/ UNCHANGED Promise!vars
    OBVIOUS
<1>a. pc \in [Nodes -> PCs]
    BY DEF TypeOK
<1> USE <1>a, Quiet DEF orchVars, storeVars, runVars, loopVars
<1>1. CASE StartWave
    BY <1>1 DEF StartWave, ThreadInv
<1>2. CASE EndWave
    BY <1>2 DEF EndWave
<1>3. CASE RunRaises
    BY <1>3 DEF RunRaises
<1>4. CASE Return
    BY <1>4 DEF Return
<1>5. CASE CallRun
    BY <1>5 DEF CallRun
<1>6. ASSUME NEW i \in DOMAIN requests, Approve(i)
      PROVE  Promise!Next \/ UNCHANGED Promise!vars
    <2>1. PICK n \in RequiresApproval : n = requests[i].node
        BY LogType DEF TypeOK
    <2>2. granted' = Granted(n) /\ UNCHANGED <<version, inputs, begun, pc>>
        BY <1>6, <2>1 DEF Approve
    <2>3. Promise!Agree(n)
        BY <2>2, Agreement
    <2>4. QED
        BY <2>3 DEF Promise!Next
<1>7. ASSUME NEW i \in DOMAIN requests, Reject(i) PROVE UNCHANGED Promise!vars
    BY <1>7 DEF Reject
<1>7a. ASSUME NEW i \in DOMAIN requests, NEW s \in Decisions, DecisionRaises(i, s)
       PROVE  UNCHANGED Promise!vars
    BY <1>7a DEF DecisionRaises
<1>8. ASSUME NEW f \in ReplanRoots, Amend(f) PROVE UNCHANGED Promise!vars
    BY <1>8 DEF Amend
<1>9. ASSUME NEW n \in Nodes, Execute(n)
      PROVE  Promise!Next \/ UNCHANGED Promise!vars
    <2>1. CASE Start(n)
        BY <2>1 DEF Start
    <2>2. CASE GateFails(n)
        BY <2>2 DEF GateFails, BeginFailure
    <2>3. CASE GateRaises(n)
        BY <2>3 DEF GateRaises, Raise
    <2>4. CASE RequestApproval(n)
        BY <2>4 DEF RequestApproval
    <2>5. CASE RequestRaises(n)
        BY <2>5 DEF RequestRaises, Raise
    <2>6. CASE AutoApprove(n)
        <3>1. pc[n] = "started" /\ pc' = [pc EXCEPT ![n] = "cleared"]
              /\ n \in RequiresApproval /\ granted' = Granted(n)
              /\ UNCHANGED <<version, inputs, begun>>
            BY <2>6 DEF AutoApprove, NeedsApproval
        <3>2. \A m \in Nodes : pc'[m] = "working" <=> pc[m] = "working"
            BY <3>1
        <3>3. Promise!Agree(n)
            BY <3>1, <3>2, Agreement
        <3>4. QED
            BY <3>1, <3>3 DEF Promise!Next
    <2>7. CASE AutoReject(n)
        BY <2>7 DEF AutoReject
    <2>7a. CASE AutoRaises(n)
        BY <2>7a DEF AutoRaises, Raise
    <2>8. CASE Park(n)
        BY <2>8 DEF Park
    <2>9. CASE BeginWork(n)
        BY <2>9, BeginIsBegin DEF Promise!Next
    <2>10. CASE Complete(n)
        BY <2>10, CompleteIsFinish DEF Promise!Next
    <2>11. CASE HandlerFails(n)
        <3>1. pc[n] = "working" /\ pc' = [pc EXCEPT ![n] = "failing"]
              /\ UNCHANGED <<version, inputs, begun, granted>>
            BY <2>11 DEF HandlerFails, BeginFailure
        <3>2. n \in Working /\ Working' = Working \ {n} /\ Unused' = Unused
            <4>1. Unused' = Unused
                BY <3>1 DEF Unused
            <4>2. n \in Working /\ Working' = Working \ {n}
                BY <3>1 DEF Working
            <4>3. QED
                BY <4>1, <4>2
        <3>3. Promise!Abandon(n)
            BY <3>1, <3>2 DEF Promise!Abandon
        <3>4. QED
            BY <3>3 DEF Promise!Next
    <2>12. CASE Undo(n)
        BY <2>12 DEF Undo
    <2>13. CASE UndoRaises(n)
        BY <2>13 DEF UndoRaises, Raise
    <2>14. CASE EndFailure(n)
        BY <2>14 DEF EndFailure
    <2>15. ASSUME NEW m \in Nodes, CascadeCheck(n, m) PROVE UNCHANGED Promise!vars
        BY <2>15 DEF CascadeCheck
    <2>16. ASSUME NEW m \in Nodes, CascadeSkip(n, m) PROVE UNCHANGED Promise!vars
        BY <2>16 DEF CascadeSkip
    <2>17. QED
        BY <1>9, <2>1, <2>2, <2>3, <2>4, <2>5, <2>6, <2>7, <2>7a, <2>8,
           <2>9, <2>10, <2>11, <2>12,
           <2>13, <2>14, <2>15, <2>16 DEF Execute
<1>10. CASE UNCHANGED vars
    BY <1>10 DEF vars
<1>11. QED
    BY <1>1, <1>2, <1>3, <1>4, <1>5, <1>6, <1>7, <1>7a, <1>8, <1>9, <1>10 DEF Next, Run, Caller

(* Whatever the graph, the callbacks and the threads do, a run is          *)
(* executions that begin on finished outputs, store what was computed from *)
(* the outputs that are current, and use up one approval each.             *)
THEOREM EngineKeepsPromise == Spec => KeepsPromise
<1>1. Init => TypeOK /\ ThreadInv /\ BarrierInv /\ CreditInv
    BY TypeInit, ThreadInit, BarrierInit, CreditInit
<1>2. TypeOK /\ ThreadInv /\ BarrierInv /\ CreditInv /\ [Next]_vars
        => (TypeOK /\ ThreadInv /\ BarrierInv /\ CreditInv)'
    BY TypeStep, ThreadStep, BarrierStep, CreditStep
<1>3. Init => Promise!Init
    BY PromiseInit
<1>4. TypeOK /\ ThreadInv /\ BarrierInv /\ CreditInv /\ [Next]_vars
        => [Promise!Next]_(Promise!vars)
    BY PromiseStep
<1>5. QED
    BY <1>1, <1>2, <1>3, <1>4, PTL DEF Spec, KeepsPromise, Promise!Spec

=============================================================================

------------------------ MODULE EngineFailureProofs ------------------------
(***************************************************************************)
(* What a failure leaves behind, for every dependency graph: which nodes   *)
(* are skipped and why, what is undone, whether the failure stays visible  *)
(* while threads overwrite each other's statuses, and that a run that says *)
(* it is over has settled every node.                                      *)
(***************************************************************************)
EXTENDS EngineProofs, WellFoundedInduction

(* Cascade loops run in failing and rejecting threads only; a rejecting    *)
(* one stays downstream of its node, and what a failing one undoes is      *)
(* upstream of its node.                                                   *)
LoopInv ==
    \A n \in Nodes :
        /\ pc[n] \notin {"failing", "rejecting"} => todo[n] = {} /\ mark[n] = {}
        /\ pc[n] = "rejecting" => todo[n] \union mark[n] \subseteq Downstream(n)
        /\ pc[n] = "failing" => \A i \in DOMAIN undo[n] : n \in Downstream(undo[n][i])

(* Another thread may skip a node that is executing, but only its own      *)
(* thread fails it or rolls it back.                                       *)
ExecInv ==
    \A n \in Nodes :
        /\ pc[n] \in {"queued", "started", "cleared", "working"}
               => statuses[n] \notin {"failed", "rolled_back"}
        /\ pc[n] = "rejecting" => statuses[n] # "failed"

(* Nothing downstream of n is COMPLETED or executing.                      *)
Idle(n) == \A m \in Downstream(n) : statuses[m] # "completed" /\ pc[m] = "out"

(* That is so for every node that is neither COMPLETED nor ROLLED_BACK,    *)
(* and for every node a cascade is about to skip.                          *)
Spoilt(n) ==
    statuses[n] \notin {"completed", "rolled_back"} \/ \E k \in Nodes : n \in mark[k]

BrokenInv == \A n \in Nodes : Spoilt(n) => Idle(n)

(* Of the nodes that failed, one is about to be skipped by no cascade.     *)
Safe(e) == statuses[e] = "failed" /\ \A k \in Nodes : e \notin mark[k]

SomeFailure == \E n \in Nodes : statuses[n] = "failed" \/ pc[n] = "failing"

VisibleInv == SomeFailure => \E e \in Nodes : Safe(e)

(* What is skipped, and what a cascade may yet skip, is downstream of a    *)
(* node that is FAILED or ROLLED_BACK; a node that waits for a decision is *)
(* neither.                                                                *)
Bad(n) == statuses[n] \in {"failed", "rolled_back"}

Caused(m) == \E r \in Nodes : m \in Downstream(r) /\ Bad(r)

CauseInv ==
    /\ \A n \in Nodes : pc[n] # "rejecting"
    /\ \A n \in Nodes : Open(n) => ~Bad(n)
    /\ \A m \in Nodes : statuses[m] = "skipped" => Caused(m)
    /\ \A k \in Nodes : \A m \in todo[k] \union mark[k] : Caused(m)

(* Upstream of a failed node all is COMPLETED or ROLLED_BACK, and stays    *)
(* so; what its failure undoes is undone, or still to be visited.          *)
Above(u) ==
    /\ statuses[u] \in {"completed", "rolled_back"}
    /\ pc[u] = "out" /\ ~Open(u)
    /\ \A k \in Nodes : u \notin mark[k]

Undone(n, u) ==
    \/ u \notin registered
    \/ statuses[u] = "rolled_back"
    \/ pc[n] = "failing" /\ \E j \in DOMAIN undo[n] : undo[n][j] = u

UndoneInv ==
    \A n \in Nodes : statuses[n] = "failed" =>
        /\ \A u \in Nodes : n \in Downstream(u) => Above(u)
        /\ \A i \in DOMAIN RollbackOnFailure[n] : Undone(n, RollbackOnFailure[n][i])

(* Nodes parked for approval have a request the run waits for, and RUNNING *)
(* nodes have that or a thread.                                            *)
SettleInv ==
    \A n \in Nodes :
        /\ statuses[n] = "awaiting_approval" => pendingReq[n] # 0
        /\ statuses[n] = "running" => pc[n] # "out" \/ pendingReq[n] # 0
        /\ pc[n] # "rejecting"

USE DepGraphAssumption, EngineAssumption

USE DEF Done, NothingReady, Unpend, Granted, Decisions, Decides, Register, MaySkip,
        UndoStatus, Revoke

-----------------------------------------------------------------------------
(* Cascades.                                                               *)

(* No cascade runs before the first wave.                                  *)
LEMMA LoopInit == Init => LoopInv
BY DEF Init, LoopInv

(* A sequence that is not empty begins with one of its entries, and the    *)
(* rest of it holds the others.                                            *)
LEMMA HeadTail ==
    ASSUME NEW s \in Seq(Nodes), s # <<>>
    PROVE  /\ Head(s) \in Nodes /\ Head(s) = s[1] /\ 1 \in DOMAIN s
           /\ Tail(s) \in Seq(Nodes)
           /\ \A i \in DOMAIN Tail(s) : i + 1 \in DOMAIN s /\ Tail(s)[i] = s[i + 1]
           /\ \A i \in DOMAIN s : i # 1 => i - 1 \in DOMAIN Tail(s) /\ Tail(s)[i - 1] = s[i]
<1>1. PICK l \in Nat \ {0} : l = Len(s)
    OBVIOUS
<1>2. DOMAIN s = 1..l /\ 1 \in 1..l /\ \A i \in 1..l : s[i] \in Nodes
    BY <1>1
<1>3. /\ Head(s) = s[1] /\ Tail(s) \in Seq(Nodes)
      /\ DOMAIN Tail(s) = 1..(l - 1)
      /\ \A i \in 1..(l - 1) : Tail(s)[i] = s[i + 1]
    BY <1>1
<1>4. ASSUME NEW i \in DOMAIN Tail(s) PROVE i + 1 \in DOMAIN s /\ Tail(s)[i] = s[i + 1]
    <2>1. i + 1 \in 1..l
        BY <1>1, <1>3, <1>4
    <2>2. QED
        BY <1>2, <1>3, <1>4, <2>1
<1>5. ASSUME NEW i \in DOMAIN s, i # 1
      PROVE  i - 1 \in DOMAIN Tail(s) /\ Tail(s)[i - 1] = s[i]
    <2>1. i \in 1..l
        BY <1>2, <1>5
    <2>2. PICK j : j = i - 1
        OBVIOUS
    <2>3. j \in 1..(l - 1) /\ j + 1 = i
        BY <1>1, <1>5, <2>1, <2>2
    <2>4. QED
        BY <1>3, <2>2, <2>3
<1>6. QED
    BY <1>2, <1>3, <1>4, <1>5

(* A thread puts into its loops only what is downstream or upstream of it.  *)
LEMMA LoopStep ==
    TypeOK /\ ThreadInv /\ LoopInv /\ [Next]_vars => LoopInv'
<1> SUFFICES ASSUME TypeOK, ThreadInv, LoopInv, [Next]_vars
             PROVE  LoopInv'
    OBVIOUS
<1> USE DEF orchVars, storeVars, runVars, loopVars, TypeOK, LoopInv
<1>1. CASE StartWave
    BY <1>1 DEF StartWave, ThreadInv
<1>2. CASE EndWave
    BY <1>2 DEF EndWave
<1>3. CASE RunRaises
    BY <1>3 DEF RunRaises
<1>4. CASE Return
    BY <1>4, ReturnSkips
<1>5. CASE CallRun
    BY <1>5 DEF CallRun
<1>6. ASSUME NEW i \in DOMAIN requests, Approve(i) PROVE LoopInv'
    BY <1>6 DEF Approve
<1>7. ASSUME NEW i \in DOMAIN requests, Reject(i) PROVE LoopInv'
    BY <1>7 DEF Reject, Rejecting
<1>7a. ASSUME NEW i \in DOMAIN requests, NEW s \in Decisions, DecisionRaises(i, s)
      PROVE  LoopInv'
    BY <1>7a DEF DecisionRaises
<1>8. ASSUME NEW f \in ReplanRoots, Amend(f) PROVE LoopInv'
    BY <1>8 DEF Amend, AmendSpec, Invalidated
<1>9. ASSUME NEW n \in Nodes, Execute(n) PROVE LoopInv'
    <2>1. CASE Start(n)
        BY <2>1 DEF Start
    <2>2. CASE GateFails(n)
        BY <2>2, RollbackIsUpstream DEF GateFails, BeginFailure
    <2>3. CASE GateRaises(n)
        BY <2>3 DEF GateRaises, Raise
    <2>4. CASE RequestApproval(n)
        BY <2>4 DEF RequestApproval
    <2>5. CASE RequestRaises(n)
        BY <2>5 DEF RequestRaises, Raise
    <2>6. CASE AutoApprove(n)
        BY <2>6 DEF AutoApprove
    <2>7. CASE AutoReject(n)
        BY <2>7 DEF AutoReject
    <2>7a. CASE AutoRaises(n)
        BY <2>7a DEF AutoRaises, Raise
    <2>8. CASE Park(n)
        BY <2>8 DEF Park
    <2>9. CASE BeginWork(n)
        BY <2>9 DEF BeginWork, MayBegin
    <2>10. CASE Complete(n)
        BY <2>10 DEF Complete, Put
    <2>11. CASE HandlerFails(n)
        BY <2>11, RollbackIsUpstream DEF HandlerFails, BeginFailure
    <2>12. CASE Undo(n)
        <3>1. /\ UNCHANGED <<pc, mark>> /\ pc[n] = "failing" /\ todo' \in [Nodes -> SUBSET Nodes]
              /\ undo[n] \in Seq(Nodes) /\ undo[n] # <<>>
              /\ undo' = [undo EXCEPT ![n] = Tail(@)]
              /\ \A k \in Nodes : k # n => todo'[k] = todo[k]
            <4>1. undo[n] \in Seq(Nodes) /\ undo[n] # <<>>
                BY <2>12 DEF Undo
            <4>2. Downstream(Head(undo[n])) \in SUBSET Nodes
                BY <4>1, HeadTail, DownstreamType
            <4>3. /\ UNCHANGED <<pc, mark>> /\ pc[n] = "failing"
                  /\ undo' = [undo EXCEPT ![n] = Tail(@)]
                  /\ todo' \in {todo, [todo EXCEPT ![n] = Downstream(Head(undo[n]))]}
                BY <2>12 DEF Undo
            <4>4. PICK D \in SUBSET Nodes : todo' \in {todo, [todo EXCEPT ![n] = D]}
                BY <4>2, <4>3
            <4>5. todo' \in [Nodes -> SUBSET Nodes] /\ \A k \in Nodes : k # n => todo'[k] = todo[k]
                BY <4>4
            <4>6. QED
                BY <4>1, <4>3, <4>5
        <3>2. \A i \in DOMAIN Tail(undo[n]) : n \in Downstream(Tail(undo[n])[i])
            BY <3>1, HeadTail
        <3>3. ASSUME NEW k \in Nodes, pc[k] = "failing"
              PROVE  \A i \in DOMAIN undo'[k] : k \in Downstream(undo'[k][i])
            <4>1. CASE k = n
                <5>1. undo'[k] = Tail(undo[n])
                    BY <3>1, <4>1
                <5>2. QED
                    BY <3>2, <4>1, <5>1
            <4>2. CASE k # n
                <5>1. undo'[k] = undo[k]
                    BY <3>1, <4>2
                <5>2. QED
                    BY <3>3, <5>1
            <4>3. QED
                BY <4>1, <4>2
        <3>4. QED
            BY <3>1, <3>3
    <2>13. CASE UndoRaises(n)
        <3>1. /\ UNCHANGED <<todo, mark>> /\ todo[n] = {} /\ mark[n] = {}
              /\ pc' = [pc EXCEPT ![n] = "out"]
              /\ undo' = [undo EXCEPT ![n] = <<>>]
            BY <2>13 DEF UndoRaises, Raise
        <3>2. pc'[n] = "out" /\ \A k \in Nodes : k # n => pc'[k] = pc[k] /\ undo'[k] = undo[k]
            BY <3>1
        <3>3. QED
            BY <3>1, <3>2
    <2>14. CASE EndFailure(n)
        BY <2>14 DEF EndFailure
    <2>15. ASSUME NEW m \in Nodes, CascadeCheck(n, m) PROVE LoopInv'
        <3>1. /\ UNCHANGED <<pc, undo>> /\ m \in todo[n]
              /\ todo' = [todo EXCEPT ![n] = todo[n] \ {m}]
            BY <2>15 DEF CascadeCheck
        <3>2. PICK M \in SUBSET {m} : mark' = [mark EXCEPT ![n] = M]
            BY <2>15 DEF CascadeCheck
        <3>3. pc[n] \in {"failing", "rejecting"}
            BY <3>1
        <3>4. \A k \in Nodes : todo'[k] \union mark'[k] \subseteq todo[k] \union mark[k]
            BY <3>1, <3>2
        <3>5. \A k \in Nodes : k # n => todo'[k] = todo[k] /\ mark'[k] = mark[k]
            BY <3>1, <3>2
        <3>6. QED
            BY <3>1, <3>3, <3>4, <3>5
    <2>16. ASSUME NEW m \in Nodes, CascadeSkip(n, m) PROVE LoopInv'
        BY <2>16 DEF CascadeSkip
    <2>17. QED
        BY <1>9, <2>1, <2>2, <2>3, <2>4, <2>5, <2>6, <2>7, <2>7a, <2>8,
           <2>9, <2>10, <2>11, <2>12, <2>13, <2>14, <2>15, <2>16 DEF Execute
<1>10. CASE UNCHANGED vars
    BY <1>10 DEF vars
<1> HIDE DEF TypeOK, ThreadInv, LoopInv
<1>11. QED
    BY <1>1, <1>2, <1>3, <1>4, <1>5, <1>6, <1>7, <1>7a, <1>8, <1>9, <1>10 DEF Next, Run, Caller

-----------------------------------------------------------------------------
(* What the run's thread skips when it returns had not ended.              *)
LEMMA ReturnSkipsOpen ==
    ASSUME TypeOK, Return, NEW k \in Nodes
    PROVE  \/ statuses'[k] = statuses[k]
           \/ statuses[k] \notin Terminal /\ statuses'[k] = "skipped"
<1>1. CASE statuses' = statuses
    BY <1>1
<1>2. ASSUME NEW S \in SUBSET {n \in Nodes : statuses[n] \notin Terminal}, statuses' = Skipping(S)
      PROVE  \/ statuses'[k] = statuses[k]
             \/ statuses[k] \notin Terminal /\ statuses'[k] = "skipped"
    BY <1>2 DEF Skipping
<1>3. QED
    BY <1>1, <1>2 DEF Return

(* No node has been executed yet.                                          *)
LEMMA ExecInit == Init => ExecInv
BY DEF Init, ExecInv

(* A thread that still executes is undone by nobody: what is undone is      *)
(* upstream of the failed node, and nothing upstream executes.             *)
LEMMA ExecStep ==
    TypeOK /\ ThreadInv /\ LoopInv /\ ReworkInv /\ ExecInv /\ [Next]_vars => ExecInv'
<1> SUFFICES ASSUME TypeOK, ThreadInv, LoopInv, ReworkInv, ExecInv, [Next]_vars
             PROVE  ExecInv'
    OBVIOUS
<1> USE DEF orchVars, storeVars, runVars, loopVars, TypeOK, ExecInv
<1>1. CASE StartWave
    BY <1>1 DEF StartWave, Ready, Runnable, ThreadInv
<1>2. CASE EndWave
    BY <1>2 DEF EndWave
<1>3. CASE RunRaises
    BY <1>3 DEF RunRaises
<1>4. CASE Return
    BY <1>4, ReturnSkips DEF ThreadInv
<1>5. CASE CallRun
    BY <1>5 DEF CallRun
<1>6. ASSUME NEW i \in DOMAIN requests, Approve(i) PROVE ExecInv'
    BY <1>6 DEF Approve, ThreadInv
<1>7. ASSUME NEW i \in DOMAIN requests, Reject(i) PROVE ExecInv'
    BY <1>7 DEF Reject, Rejecting, ThreadInv
<1>7a. ASSUME NEW i \in DOMAIN requests, NEW s \in Decisions, DecisionRaises(i, s)
      PROVE  ExecInv'
    BY <1>7a DEF DecisionRaises
<1>8. ASSUME NEW f \in ReplanRoots, Amend(f) PROVE ExecInv'
    BY <1>8 DEF Amend, AmendSpec, Invalidated, ThreadInv
<1>9. ASSUME NEW n \in Nodes, Execute(n) PROVE ExecInv'
    <2>1. CASE Start(n)
        BY <2>1 DEF Start
    <2>2. CASE GateFails(n)
        BY <2>2 DEF GateFails, BeginFailure
    <2>3. CASE GateRaises(n)
        BY <2>3 DEF GateRaises, Raise
    <2>4. CASE RequestApproval(n)
        BY <2>4 DEF RequestApproval
    <2>5. CASE RequestRaises(n)
        BY <2>5 DEF RequestRaises, Raise
    <2>6. CASE AutoApprove(n)
        BY <2>6 DEF AutoApprove
    <2>7. CASE AutoReject(n)
        BY <2>7 DEF AutoReject
    <2>7a. CASE AutoRaises(n)
        BY <2>7a DEF AutoRaises, Raise
    <2>8. CASE Park(n)
        BY <2>8 DEF Park
    <2>9. CASE BeginWork(n)
        BY <2>9 DEF BeginWork, MayBegin
    <2>10. CASE Complete(n)
        BY <2>10 DEF Complete, Put
    <2>11. CASE HandlerFails(n)
        BY <2>11 DEF HandlerFails, BeginFailure
    <2>12. CASE Undo(n)
        <3>1. PICK u \in Nodes : n \in Downstream(u) /\ statuses' \in {statuses, UndoStatus(u)}
            <4>1. Head(undo[n]) \in Nodes /\ n \in Downstream(Head(undo[n]))
                BY <2>12, HeadTail DEF Undo, LoopInv
            <4>2. QED
                BY <2>12, <4>1 DEF Undo
        <3>2. pc[u] = "out" /\ pc' = pc
            BY <2>12, <3>1 DEF Undo, ReworkInv, Unsettled
        <3>3. QED
            BY <3>1, <3>2
    <2>13. CASE UndoRaises(n)
        BY <2>13 DEF UndoRaises, Raise
    <2>14. CASE EndFailure(n)
        BY <2>14 DEF EndFailure
    <2>15. ASSUME NEW m \in Nodes, CascadeCheck(n, m) PROVE ExecInv'
        BY <2>15 DEF CascadeCheck
    <2>16. ASSUME NEW m \in Nodes, CascadeSkip(n, m) PROVE ExecInv'
        BY <2>16 DEF CascadeSkip
    <2>17. QED
        BY <1>9, <2>1, <2>2, <2>3, <2>4, <2>5, <2>6, <2>7, <2>7a, <2>8,
           <2>9, <2>10, <2>11, <2>12, <2>13, <2>14, <2>15, <2>16 DEF Execute
<1>10. CASE UNCHANGED vars
    BY <1>10 DEF vars
<1>11. QED
    BY <1>1, <1>2, <1>3, <1>4, <1>5, <1>6, <1>7, <1>7a, <1>8, <1>9, <1>10 DEF Next, Run, Caller

-----------------------------------------------------------------------------
(* No node is COMPLETED yet.                                               *)
LEMMA BrokenInit == Init => BrokenInv
BY DownstreamType DEF Init, BrokenInv, Idle

(* A step that completes and starts nothing, and spoils only nodes that    *)
(* are executing or to be executed, keeps what is downstream idle.         *)
LEMMA BrokenFrame ==
    ASSUME ReworkInv, BrokenInv,
           \A n \in Nodes : /\ Spoilt(n)' => Spoilt(n) \/ Unsettled(n)
                            /\ statuses'[n] = "completed" => statuses[n] = "completed"
                            /\ pc'[n] # "out" => pc[n] # "out"
    PROVE  BrokenInv'
<1>1. ASSUME NEW n \in Nodes, Spoilt(n)', NEW m \in Downstream(n)
      PROVE  statuses'[m] # "completed" /\ pc'[m] = "out"
    <2>1. statuses[m] # "completed" /\ pc[m] = "out" /\ m \in Nodes
        BY <1>1, DownstreamType DEF ReworkInv, BrokenInv, Idle
    <2>2. QED
        BY <2>1
<1>2. QED
    BY <1>1 DEF BrokenInv, Idle

(* A wave starts nothing downstream of a spoilt node, and a re-plan         *)
(* invalidates everything downstream of what it invalidates.               *)
LEMMA BrokenStep ==
    PlainCaller /\ TypeOK /\ ThreadInv /\ LoopInv /\ ReworkInv /\ BrokenInv /\
    [Next]_vars => BrokenInv'
<1> SUFFICES ASSUME PlainCaller, TypeOK, ThreadInv, LoopInv, ReworkInv, BrokenInv, [Next]_vars
             PROVE  BrokenInv'
    OBVIOUS
<1> USE DEF orchVars, storeVars, runVars, loopVars
<1>1. CASE StartWave
    <2>1. /\ UNCHANGED <<statuses, mark>>
          /\ \A k \in Nodes : pc[k] = "out" /\ mark[k] = {}
          /\ \A k \in Nodes : pc'[k] # "out" => k \in Ready
        BY <1>1 DEF StartWave, TypeOK, ThreadInv, LoopInv
    <2>2. ASSUME NEW k \in Nodes, Spoilt(k), NEW m \in Downstream(k)
          PROVE  statuses[m] # "completed" /\ m \notin Ready
        <3>1. statuses[m] # "completed" /\ m \in Nodes
            BY <2>2, DownstreamType DEF BrokenInv, Idle
        <3>2. PICK d \in DependsOn[m] : d \in ReachableFrom[k]
            BY <2>2, ReachableLastStep
        <3>3. statuses[d] # "completed"
            BY <2>1, <2>2, <3>2 DEF BrokenInv, Idle, Spoilt, Downstream
        <3>4. QED
            BY <3>1, <3>3 DEF Ready
    <2>3. ASSUME NEW k \in Nodes, Spoilt(k)', NEW m \in Downstream(k)
          PROVE  statuses'[m] # "completed" /\ pc'[m] = "out"
        <3>1. Spoilt(k) /\ m \in Nodes
            BY <2>1, <2>3, DownstreamType DEF Spoilt
        <3>2. QED
            BY <2>1, <2>2, <3>1
    <2>4. QED
        BY <2>3 DEF BrokenInv, Idle
<1>2. CASE EndWave
    <2>1. \A k \in Nodes : /\ Spoilt(k)' => Spoilt(k) \/ Unsettled(k)
                           /\ statuses'[k] = "completed" => statuses[k] = "completed"
                           /\ pc'[k] # "out" => pc[k] # "out"
        BY <1>2 DEF EndWave, Spoilt, Unsettled, TypeOK
    <2>2. QED
        BY <2>1, BrokenFrame
<1>3. CASE RunRaises
    <2>1. \A k \in Nodes : /\ Spoilt(k)' => Spoilt(k) \/ Unsettled(k)
                           /\ statuses'[k] = "completed" => statuses[k] = "completed"
                           /\ pc'[k] # "out" => pc[k] # "out"
        BY <1>3 DEF RunRaises, Spoilt, Unsettled, TypeOK
    <2>2. QED
        BY <2>1, BrokenFrame
<1>4. CASE Return
    <2>1. UNCHANGED <<pc, mark>>
        BY <1>4 DEF Return
    <2>2. \A k \in Nodes : /\ Spoilt(k)' => Spoilt(k) \/ Unsettled(k)
                           /\ statuses'[k] = "completed" => statuses[k] = "completed"
                           /\ pc'[k] # "out" => pc[k] # "out"
        BY <1>4, <2>1, ReturnSkipsOpen DEF Spoilt, Terminal
    <2>3. QED
        BY <2>2, BrokenFrame
<1>5. CASE CallRun
    <2>1. \A k \in Nodes : /\ Spoilt(k)' => Spoilt(k) \/ Unsettled(k)
                           /\ statuses'[k] = "completed" => statuses[k] = "completed"
                           /\ pc'[k] # "out" => pc[k] # "out"
        BY <1>5 DEF CallRun, Spoilt, Unsettled, TypeOK
    <2>2. QED
        BY <2>1, BrokenFrame
<1>6. ASSUME NEW i \in DOMAIN requests, Approve(i) PROVE BrokenInv'
    <2>1. \A k \in Nodes : /\ Spoilt(k)' => Spoilt(k) \/ Unsettled(k)
                           /\ statuses'[k] = "completed" => statuses[k] = "completed"
                           /\ pc'[k] # "out" => pc[k] # "out"
        <3>1. requests[i].status = "pending"
            BY <1>6, DecidesOpen DEF Approve
        <3>2. QED
            BY <1>6, <3>1 DEF Approve, Spoilt, Unsettled, TypeOK, Open
    <2>2. QED
        BY <2>1, BrokenFrame
<1>7. ASSUME NEW i \in DOMAIN requests, Reject(i) PROVE BrokenInv'
    <2>1. \A k \in Nodes : /\ Spoilt(k)' => Spoilt(k) \/ Unsettled(k)
                           /\ statuses'[k] = "completed" => statuses[k] = "completed"
                           /\ pc'[k] # "out" => pc[k] # "out"
        BY <1>7 DEF Reject, Rejecting, Spoilt, Unsettled, TypeOK, Terminal
    <2>2. QED
        BY <2>1, BrokenFrame
<1>7a. ASSUME NEW i \in DOMAIN requests, NEW s \in Decisions, DecisionRaises(i, s)
      PROVE  BrokenInv'
    <2>1. \A k \in Nodes : /\ Spoilt(k)' => Spoilt(k) \/ Unsettled(k)
                           /\ statuses'[k] = "completed" => statuses[k] = "completed"
                           /\ pc'[k] # "out" => pc[k] # "out"
        BY <1>7a DEF DecisionRaises, Spoilt
    <2>2. QED
        BY <2>1, BrokenFrame
<1>8. ASSUME NEW f \in ReplanRoots, Amend(f) PROVE BrokenInv'
    <2>1. /\ statuses' = [k \in Nodes |-> IF k \in Invalidated(f) THEN "stale" ELSE statuses[k]]
          /\ UNCHANGED <<pc, mark>> /\ f \in Nodes
          /\ \A k \in Nodes : pc[k] = "out"
        BY <1>8 DEF Amend, AmendSpec, ThreadInv
    <2>2. ASSUME NEW k \in Nodes, Spoilt(k)', NEW m \in Downstream(k),
                 statuses'[m] = "completed"
          PROVE  FALSE
        <3>1. m \in Nodes /\ statuses[m] = "completed" /\ m \notin Invalidated(f)
            BY <2>1, <2>2, DownstreamType
        <3>2. m \notin Downstream(f)
            BY <3>1 DEF Invalidated
        <3>3. k \notin Invalidated(f)
            BY <2>1, <3>2, DownstreamTransitive DEF Invalidated
        <3>4. Spoilt(k)
            BY <2>1, <2>2, <3>3 DEF Spoilt
        <3>5. QED
            BY <3>1, <3>4 DEF BrokenInv, Idle
    <2>3. QED
        BY <2>1, <2>2, DownstreamType DEF BrokenInv, Idle
<1>9. ASSUME NEW n \in Nodes, Execute(n) PROVE BrokenInv'
    <2>1. CASE Start(n)
        <3>1. \A k \in Nodes : /\ Spoilt(k)' => Spoilt(k) \/ Unsettled(k)
                               /\ statuses'[k] = "completed" => statuses[k] = "completed"
                               /\ pc'[k] # "out" => pc[k] # "out"
            BY <2>1 DEF Start, Spoilt, Unsettled, TypeOK
        <3>2. QED
            BY <3>1, BrokenFrame
    <2>2. CASE GateFails(n)
        <3>1. \A k \in Nodes : /\ Spoilt(k)' => Spoilt(k) \/ Unsettled(k)
                               /\ statuses'[k] = "completed" => statuses[k] = "completed"
                               /\ pc'[k] # "out" => pc[k] # "out"
            BY <2>2 DEF GateFails, BeginFailure, Spoilt, Unsettled, TypeOK
        <3>2. QED
            BY <3>1, BrokenFrame
    <2>3. CASE GateRaises(n)
        <3>1. \A k \in Nodes : /\ Spoilt(k)' => Spoilt(k) \/ Unsettled(k)
                               /\ statuses'[k] = "completed" => statuses[k] = "completed"
                               /\ pc'[k] # "out" => pc[k] # "out"
            BY <2>3 DEF GateRaises, Raise, Spoilt, Unsettled, TypeOK
        <3>2. QED
            BY <3>1, BrokenFrame
    <2>4. CASE RequestApproval(n)
        <3>1. \A k \in Nodes : /\ Spoilt(k)' => Spoilt(k) \/ Unsettled(k)
                               /\ statuses'[k] = "completed" => statuses[k] = "completed"
                               /\ pc'[k] # "out" => pc[k] # "out"
            BY <2>4 DEF RequestApproval, Spoilt, Unsettled, TypeOK
        <3>2. QED
            BY <3>1, BrokenFrame
    <2>5. CASE RequestRaises(n)
        <3>1. \A k \in Nodes : /\ Spoilt(k)' => Spoilt(k) \/ Unsettled(k)
                               /\ statuses'[k] = "completed" => statuses[k] = "completed"
                               /\ pc'[k] # "out" => pc[k] # "out"
            BY <2>5 DEF RequestRaises, Raise, Spoilt, Unsettled, TypeOK
        <3>2. QED
            BY <3>1, BrokenFrame
    <2>6. CASE AutoApprove(n)
        <3>1. \A k \in Nodes : /\ Spoilt(k)' => Spoilt(k) \/ Unsettled(k)
                               /\ statuses'[k] = "completed" => statuses[k] = "completed"
                               /\ pc'[k] # "out" => pc[k] # "out"
            BY <2>6 DEF AutoApprove, Spoilt, Unsettled, TypeOK
        <3>2. QED
            BY <3>1, BrokenFrame
    <2>7. CASE AutoReject(n)
        <3>1. \A k \in Nodes : /\ Spoilt(k)' => Spoilt(k) \/ Unsettled(k)
                               /\ statuses'[k] = "completed" => statuses[k] = "completed"
                               /\ pc'[k] # "out" => pc[k] # "out"
            BY <2>7 DEF AutoReject, Spoilt, Unsettled, TypeOK
        <3>2. QED
            BY <3>1, BrokenFrame
    <2>7a. CASE AutoRaises(n)
        <3>1. \A k \in Nodes : /\ Spoilt(k)' => Spoilt(k) \/ Unsettled(k)
                               /\ statuses'[k] = "completed" => statuses[k] = "completed"
                               /\ pc'[k] # "out" => pc[k] # "out"
            BY <2>7a DEF AutoRaises, Raise, Spoilt, Unsettled, TypeOK
        <3>2. QED
            BY <3>1, BrokenFrame
    <2>8. CASE Park(n)
        <3>1. \A k \in Nodes : /\ Spoilt(k)' => Spoilt(k) \/ Unsettled(k)
                               /\ statuses'[k] = "completed" => statuses[k] = "completed"
                               /\ pc'[k] # "out" => pc[k] # "out"
            BY <2>8 DEF Park, Spoilt, Unsettled, TypeOK
        <3>2. QED
            BY <3>1, BrokenFrame
    <2>9. CASE BeginWork(n)
        <3>1. \A k \in Nodes : /\ Spoilt(k)' => Spoilt(k) \/ Unsettled(k)
                               /\ statuses'[k] = "completed" => statuses[k] = "completed"
                               /\ pc'[k] # "out" => pc[k] # "out"
            BY <2>9 DEF BeginWork, MayBegin, Spoilt, Unsettled, TypeOK
        <3>2. QED
            BY <3>1, BrokenFrame
    <2>10. CASE Complete(n)
        <3>1. /\ UNCHANGED mark /\ pc[n] # "out"
              /\ pc' = [pc EXCEPT ![n] = "out"]
              /\ statuses' = [statuses EXCEPT ![n] = "completed"]
              /\ statuses \in [Nodes -> Status] /\ pc \in [Nodes -> PCs]
            BY <2>10 DEF Complete, Put, TypeOK
        <3>2. \A k \in Nodes : Spoilt(k)' => Spoilt(k)
            BY <3>1 DEF Spoilt
        <3>3. ASSUME NEW k \in Nodes, Spoilt(k), NEW m \in Downstream(k)
              PROVE  statuses'[m] # "completed" /\ pc'[m] = "out"
            BY <3>1, <3>3, DownstreamType DEF BrokenInv, Idle
        <3>4. QED
            BY <3>2, <3>3 DEF BrokenInv, Idle
    <2>11. CASE HandlerFails(n)
        <3>1. \A k \in Nodes : /\ Spoilt(k)' => Spoilt(k) \/ Unsettled(k)
                               /\ statuses'[k] = "completed" => statuses[k] = "completed"
                               /\ pc'[k] # "out" => pc[k] # "out"
            BY <2>11 DEF HandlerFails, BeginFailure, Spoilt, Unsettled, TypeOK
        <3>2. QED
            BY <3>1, BrokenFrame
    <2>12. CASE Undo(n)
        <3>1. /\ UNCHANGED <<pc, mark>>
              /\ \A k \in Nodes : statuses'[k] \in {"rolled_back", statuses[k]}
            BY <2>12 DEF Undo, TypeOK
        <3>2. \A k \in Nodes : /\ Spoilt(k)' => Spoilt(k) \/ Unsettled(k)
                               /\ statuses'[k] = "completed" => statuses[k] = "completed"
                               /\ pc'[k] # "out" => pc[k] # "out"
            BY <3>1 DEF Spoilt
        <3>3. QED
            BY <3>2, BrokenFrame
    <2>13. CASE UndoRaises(n)
        <3>1. \A k \in Nodes : /\ Spoilt(k)' => Spoilt(k) \/ Unsettled(k)
                               /\ statuses'[k] = "completed" => statuses[k] = "completed"
                               /\ pc'[k] # "out" => pc[k] # "out"
            BY <2>13 DEF UndoRaises, Raise, Spoilt, Unsettled, TypeOK
        <3>2. QED
            BY <3>1, BrokenFrame
    <2>14. CASE EndFailure(n)
        <3>1. \A k \in Nodes : /\ Spoilt(k)' => Spoilt(k) \/ Unsettled(k)
                               /\ statuses'[k] = "completed" => statuses[k] = "completed"
                               /\ pc'[k] # "out" => pc[k] # "out"
            BY <2>14 DEF EndFailure, Spoilt, Unsettled, TypeOK
        <3>2. QED
            BY <3>1, BrokenFrame
    <2>15. ASSUME NEW m \in Nodes, CascadeCheck(n, m) PROVE BrokenInv'
        <3>1. \A k \in Nodes : /\ Spoilt(k)' => Spoilt(k) \/ Unsettled(k)
                               /\ statuses'[k] = "completed" => statuses[k] = "completed"
                               /\ pc'[k] # "out" => pc[k] # "out"
            BY <2>15 DEF CascadeCheck, Spoilt, Unsettled, TypeOK, Terminal
        <3>2. QED
            BY <3>1, BrokenFrame
    <2>16. ASSUME NEW m \in Nodes, CascadeSkip(n, m) PROVE BrokenInv'
        <3>1. \A k \in Nodes : /\ Spoilt(k)' => Spoilt(k) \/ Unsettled(k)
                               /\ statuses'[k] = "completed" => statuses[k] = "completed"
                               /\ pc'[k] # "out" => pc[k] # "out"
            BY <2>16 DEF CascadeSkip, Spoilt, Unsettled, TypeOK
        <3>2. QED
            BY <3>1, BrokenFrame
    <2>17. QED
        BY <1>9, <2>1, <2>2, <2>3, <2>4, <2>5, <2>6, <2>7, <2>7a, <2>8,
           <2>9, <2>10, <2>11, <2>12, <2>13, <2>14, <2>15, <2>16 DEF Execute
<1>10. CASE UNCHANGED vars
    <2>1. \A k \in Nodes : /\ Spoilt(k)' => Spoilt(k) \/ Unsettled(k)
                           /\ statuses'[k] = "completed" => statuses[k] = "completed"
                           /\ pc'[k] # "out" => pc[k] # "out"
        BY <1>10 DEF vars, Spoilt, Unsettled, TypeOK
    <2>2. QED
        BY <2>1, BrokenFrame
<1>11. QED
    BY <1>1, <1>2, <1>3, <1>4, <1>5, <1>6, <1>7, <1>7a, <1>8, <1>9, <1>10 DEF Next, Run, Caller

-----------------------------------------------------------------------------
(* The failure that stays visible.                                         *)

SafeStays == \A e \in Nodes : phase # "idle" /\ Safe(e) => Safe(e)'

FailureBegins ==
    SomeFailure' => SomeFailure \/ \E n \in Nodes : GateFails(n) \/ HandlerFails(n)

(* A failure no cascade is about to overwrite stays such until the run      *)
(* returns: its node is done, and nothing downstream of it executes.       *)
LEMMA SafeStep ==
    TypeOK /\ LoopInv /\ ExecInv /\ BrokenInv /\ [Next]_vars => SafeStays
<1> SUFFICES ASSUME TypeOK, LoopInv, ExecInv, BrokenInv, [Next]_vars
             PROVE  SafeStays
    OBVIOUS
<1> USE DEF orchVars, storeVars, runVars, loopVars, TypeOK, SafeStays
<1>1. CASE StartWave
    BY <1>1 DEF StartWave, Safe
<1>2. CASE EndWave
    BY <1>2 DEF EndWave, Safe
<1>3. CASE RunRaises
    BY <1>3 DEF RunRaises, Safe
<1>4. CASE Return
    BY <1>4, ReturnSkips, ReturnSkipsOpen DEF Safe, Terminal
<1>5. CASE CallRun
    BY <1>5 DEF CallRun, Safe
<1>6. ASSUME NEW i \in DOMAIN requests, Approve(i) PROVE SafeStays
    BY <1>6 DEF Approve, Safe
<1>7. ASSUME NEW i \in DOMAIN requests, Reject(i) PROVE SafeStays
    BY <1>7 DEF Reject, Rejecting, Safe
<1>7a. ASSUME NEW i \in DOMAIN requests, NEW s \in Decisions, DecisionRaises(i, s)
      PROVE  SafeStays
    BY <1>7a DEF DecisionRaises
<1>8. ASSUME NEW f \in ReplanRoots, Amend(f) PROVE SafeStays
    BY <1>8 DEF Amend, AmendSpec, Invalidated, Safe
<1>9. ASSUME NEW n \in Nodes, Execute(n) PROVE SafeStays
    <2>1. CASE Start(n)
        BY <2>1 DEF Start, Safe, ExecInv
    <2>2. CASE GateFails(n)
        BY <2>2 DEF GateFails, BeginFailure, Safe
    <2>3. CASE GateRaises(n)
        BY <2>3 DEF GateRaises, Raise, Safe
    <2>4. CASE RequestApproval(n)
        BY <2>4 DEF RequestApproval, Safe, ExecInv
    <2>5. CASE RequestRaises(n)
        BY <2>5 DEF RequestRaises, Raise, Safe
    <2>6. CASE AutoApprove(n)
        BY <2>6 DEF AutoApprove, Safe, ExecInv
    <2>7. CASE AutoReject(n)
        BY <2>7 DEF AutoReject, Safe, ExecInv
    <2>7a. CASE AutoRaises(n)
        BY <2>7a DEF AutoRaises, Raise, Safe
    <2>8. CASE Park(n)
        BY <2>8 DEF Park, Safe, ExecInv
    <2>9. CASE BeginWork(n)
        BY <2>9 DEF BeginWork, MayBegin, Safe
    <2>10. CASE Complete(n)
        BY <2>10 DEF Complete, Put, Safe, ExecInv
    <2>11. CASE HandlerFails(n)
        BY <2>11 DEF HandlerFails, BeginFailure, Safe
    <2>12. CASE Undo(n)
        <3>1. PICK u \in Nodes : n \in Downstream(u) /\ statuses' \in {statuses, UndoStatus(u)}
            <4>1. Head(undo[n]) \in Nodes /\ n \in Downstream(Head(undo[n]))
                BY <2>12, HeadTail DEF Undo, LoopInv
            <4>2. QED
                BY <2>12, <4>1 DEF Undo
        <3>2. UNCHANGED mark /\ pc[n] # "out"
            BY <2>12 DEF Undo
        <3>3. statuses[u] # "failed"
            BY <3>1, <3>2 DEF BrokenInv, Spoilt, Idle
        <3>4. QED
            BY <3>1, <3>2, <3>3 DEF Safe
    <2>13. CASE UndoRaises(n)
        BY <2>13 DEF UndoRaises, Raise, Safe
    <2>14. CASE EndFailure(n)
        BY <2>14 DEF EndFailure, Safe
    <2>15. ASSUME NEW m \in Nodes, CascadeCheck(n, m) PROVE SafeStays
        BY <2>15 DEF CascadeCheck, Safe, Terminal
    <2>16. ASSUME NEW m \in Nodes, CascadeSkip(n, m) PROVE SafeStays
        BY <2>16 DEF CascadeSkip, Safe
    <2>17. QED
        BY <1>9, <2>1, <2>2, <2>3, <2>4, <2>5, <2>6, <2>7, <2>7a, <2>8,
           <2>9, <2>10, <2>11, <2>12, <2>13, <2>14, <2>15, <2>16 DEF Execute
<1>10. CASE UNCHANGED vars
    BY <1>10 DEF vars, Safe
<1>11. QED
    BY <1>1, <1>2, <1>3, <1>4, <1>5, <1>6, <1>7, <1>7a, <1>8, <1>9, <1>10 DEF Next, Run, Caller

(* A failure begins with a failing gate or handler.                        *)
LEMMA FailureStep ==
    TypeOK /\ [Next]_vars => FailureBegins
<1> SUFFICES ASSUME TypeOK, [Next]_vars
             PROVE  FailureBegins
    OBVIOUS
<1> USE DEF orchVars, storeVars, runVars, loopVars, TypeOK, FailureBegins, SomeFailure
<1>1. CASE StartWave
    BY <1>1 DEF StartWave
<1>2. CASE EndWave
    BY <1>2 DEF EndWave
<1>3. CASE RunRaises
    BY <1>3 DEF RunRaises
<1>4. CASE Return
    BY <1>4, ReturnSkips
<1>5. CASE CallRun
    BY <1>5 DEF CallRun
<1>6. ASSUME NEW i \in DOMAIN requests, Approve(i) PROVE FailureBegins
    BY <1>6 DEF Approve
<1>7. ASSUME NEW i \in DOMAIN requests, Reject(i) PROVE FailureBegins
    BY <1>7 DEF Reject, Rejecting
<1>7a. ASSUME NEW i \in DOMAIN requests, NEW s \in Decisions, DecisionRaises(i, s)
      PROVE  FailureBegins
    BY <1>7a DEF DecisionRaises
<1>8. ASSUME NEW f \in ReplanRoots, Amend(f) PROVE FailureBegins
    BY <1>8 DEF Amend, AmendSpec, Invalidated
<1>9. ASSUME NEW n \in Nodes, Execute(n) PROVE FailureBegins
    <2>1. CASE Start(n)
        BY <2>1 DEF Start
    <2>2. CASE GateFails(n)
        BY <2>2 DEF GateFails, BeginFailure
    <2>3. CASE GateRaises(n)
        BY <2>3 DEF GateRaises, Raise
    <2>4. CASE RequestApproval(n)
        BY <2>4 DEF RequestApproval
    <2>5. CASE RequestRaises(n)
        BY <2>5 DEF RequestRaises, Raise
    <2>6. CASE AutoApprove(n)
        BY <2>6 DEF AutoApprove
    <2>7. CASE AutoReject(n)
        BY <2>7 DEF AutoReject
    <2>7a. CASE AutoRaises(n)
        BY <2>7a DEF AutoRaises, Raise
    <2>8. CASE Park(n)
        BY <2>8 DEF Park
    <2>9. CASE BeginWork(n)
        BY <2>9 DEF BeginWork, MayBegin
    <2>10. CASE Complete(n)
        BY <2>10 DEF Complete, Put
    <2>11. CASE HandlerFails(n)
        BY <2>11 DEF HandlerFails, BeginFailure
    <2>12. CASE Undo(n)
        BY <2>12 DEF Undo
    <2>13. CASE UndoRaises(n)
        BY <2>13 DEF UndoRaises, Raise
    <2>14. CASE EndFailure(n)
        BY <2>14 DEF EndFailure
    <2>15. ASSUME NEW m \in Nodes, CascadeCheck(n, m) PROVE FailureBegins
        BY <2>15 DEF CascadeCheck
    <2>16. ASSUME NEW m \in Nodes, CascadeSkip(n, m) PROVE FailureBegins
        BY <2>16 DEF CascadeSkip
    <2>17. QED
        BY <1>9, <2>1, <2>2, <2>3, <2>4, <2>5, <2>6, <2>7, <2>7a, <2>8,
           <2>9, <2>10, <2>11, <2>12, <2>13, <2>14, <2>15, <2>16 DEF Execute
<1>10. CASE UNCHANGED vars
    BY <1>10 DEF vars
<1>11. QED
    BY <1>1, <1>2, <1>3, <1>4, <1>5, <1>6, <1>7, <1>7a, <1>8, <1>9, <1>10 DEF Next, Run, Caller

(* No node has FAILED yet.                                                 *)
LEMMA VisibleInit == Init => VisibleInv
BY DEF Init, VisibleInv, SomeFailure

(* The first thread to fail is about to be skipped by nobody: others mark  *)
(* it only if they have failed before, and one that rejects marks nothing  *)
(* that executes.                                                          *)
LEMMA VisibleStep ==
    TypeOK /\ ThreadInv /\ LoopInv /\ ReworkInv /\ ExecInv /\ BrokenInv /\ VisibleInv /\ [Next]_vars
        => VisibleInv'
<1> SUFFICES ASSUME TypeOK, ThreadInv, LoopInv, ReworkInv, ExecInv, BrokenInv,
                    VisibleInv, [Next]_vars, SomeFailure'
             PROVE  \E e \in Nodes : Safe(e)'
    BY DEF VisibleInv
<1>1. CASE phase = "idle"
    <2>1. \A n \in Nodes : pc[n] = "out" /\ mark[n] = {}
        BY <1>1 DEF ThreadInv, LoopInv
    <2>2. UNCHANGED <<pc, mark>>
        <3>1. ASSUME NEW n \in Nodes, Execute(n) PROVE FALSE
            BY <2>1, <3>1, HeadTail DEF Execute, Start, GateFails, GateRaises, RequestApproval,
               RequestRaises, AutoApprove, AutoReject, AutoRaises, Park, BeginWork, MayBegin,
               Complete, HandlerFails, CascadeCheck, CascadeSkip, Undo, UndoRaises, EndFailure,
               TypeOK, LoopInv
        <3>2. QED
            BY <1>1, <3>1 DEF Next, Run, Caller, StartWave, EndWave, RunRaises, Return, CallRun,
               Approve, Reject, DecisionRaises, Amend, vars, loopVars
    <2>3. QED
        BY <2>1, <2>2 DEF SomeFailure, Safe
<1>2. CASE phase # "idle" /\ \E e \in Nodes : Safe(e)
    BY <1>2, SafeStep DEF SafeStays
<1>3. CASE phase # "idle" /\ ~\E e \in Nodes : Safe(e)
    <2>1. ~SomeFailure
        BY <1>3 DEF VisibleInv
    <2>2. PICK n \in Nodes : GateFails(n) \/ HandlerFails(n)
        BY <2>1, FailureStep DEF FailureBegins
    <2>3. /\ statuses' = [statuses EXCEPT ![n] = "failed"]
          /\ UNCHANGED mark /\ pc[n] \in {"started", "working"}
        BY <2>2 DEF GateFails, HandlerFails, BeginFailure
    <2>4. ASSUME NEW k \in Nodes PROVE n \notin mark[k]
        <3>1. pc[k] # "failing"
            BY <2>1 DEF SomeFailure
        <3>2. CASE pc[k] = "rejecting"
            BY <2>3, <3>2 DEF LoopInv, ReworkInv, Unsettled
        <3>3. CASE pc[k] # "rejecting"
            BY <3>1, <3>3 DEF LoopInv
        <3>4. QED
            BY <3>2, <3>3
    <2>5. Safe(n)'
        BY <2>3, <2>4 DEF Safe, TypeOK
    <2>6. QED
        BY <2>5
<1>4. QED
    BY <1>1, <1>2, <1>3

(* What the theorems about failures rest on together.                      *)
FailureBase == TypeOK /\ ThreadInv /\ OpenInv /\ ReworkInv /\ LoopInv /\ ExecInv /\ BrokenInv

(* The invariants that do not speak of the callbacks hold at first ...     *)
LEMMA BaseInit == Init => FailureBase
BY TypeInit, ThreadInit, OpenInit, ReworkInit, LoopInit, ExecInit, BrokenInit DEF FailureBase

(* ... and every step of the engine keeps them.                            *)
LEMMA BaseStep == PlainCaller /\ FailureBase /\ [Next]_vars => FailureBase'
<1> SUFFICES ASSUME PlainCaller, FailureBase, [Next]_vars PROVE FailureBase'
    OBVIOUS
<1> USE DEF FailureBase
<1>1. TypeOK' /\ ThreadInv'
    BY TypeStep, ThreadStep
<1>2. OpenInv' /\ ReworkInv'
    BY OpenStep, ReworkStep
<1>3. LoopInv' /\ ExecInv' /\ BrokenInv'
    BY LoopStep, ExecStep, BrokenStep
<1>4. QED
    BY <1>1, <1>2, <1>3

(* As long as the caller decides only what is listed as pending, and       *)
(* re-plans only from nodes that need no approval, a run in which a node   *)
(* has FAILED shows a FAILED node when it returns, whatever its threads    *)
(* overwrite (engine.py:225-248).                                          *)
THEOREM FailuresStayVisible == PlainCaller /\ Spec => FailureStaysVisible
<1> DEFINE A == phase # "idle" /\ (\E n \in Nodes : statuses[n] = "failed")
                    => \E n \in Nodes : statuses'[n] = "failed"
<1>1. Init => FailureBase /\ VisibleInv
    BY BaseInit, VisibleInit
<1>2. PlainCaller /\ FailureBase /\ VisibleInv /\ [Next]_vars => (FailureBase /\ VisibleInv)'
    BY BaseStep, VisibleStep DEF FailureBase
<1>3. FailureBase /\ VisibleInv /\ [Next]_vars => [A]_vars
    <2> SUFFICES ASSUME FailureBase, VisibleInv, [Next]_vars,
                        phase # "idle", NEW n \in Nodes, statuses[n] = "failed"
                 PROVE  \E k \in Nodes : statuses'[k] = "failed"
        OBVIOUS
    <2>1. PICK e \in Nodes : Safe(e)
        BY DEF VisibleInv, SomeFailure
    <2>2. Safe(e)'
        BY <2>1, SafeStep DEF FailureBase, SafeStays
    <2>3. QED
        BY <2>2 DEF Safe
<1>4. CASE PlainCaller
    BY <1>1, <1>2, <1>3, <1>4, PTL DEF Spec, FailureStaysVisible
<1>5. QED
    BY <1>4

-----------------------------------------------------------------------------
(* A run that is over.                                                     *)

(* No node is parked or RUNNING yet.                                       *)
LEMMA SettleInit == Init => SettleInv
BY DEF Init, SettleInv

(* Without callbacks that raise or reject, a node is parked only with a     *)
(* request, and RUNNING only with a thread.                                *)
LEMMA SettleStep ==
    MayRaise = {} /\ FALSE \notin AutoDecisions /\ TypeOK /\ ThreadInv /\ SettleInv /\
    [Next]_vars => SettleInv'
<1> SUFFICES ASSUME MayRaise = {}, FALSE \notin AutoDecisions, TypeOK, ThreadInv,
                    SettleInv, [Next]_vars
             PROVE  SettleInv'
    OBVIOUS
<1> USE DEF orchVars, storeVars, runVars, loopVars, TypeOK, SettleInv
<1>1. CASE StartWave
    BY <1>1 DEF StartWave
<1>2. CASE EndWave
    BY <1>2 DEF EndWave
<1>3. CASE RunRaises
    BY <1>3 DEF RunRaises
<1>4. CASE Return
    BY <1>4, ReturnSkips DEF Terminal
<1>5. CASE CallRun
    BY <1>5 DEF CallRun
<1>6. ASSUME NEW i \in DOMAIN requests, Approve(i) PROVE SettleInv'
    BY <1>6 DEF Approve
<1>7. ASSUME NEW i \in DOMAIN requests, Reject(i) PROVE SettleInv'
    BY <1>7 DEF Reject, Rejecting
<1>7a. ASSUME NEW i \in DOMAIN requests, NEW s \in Decisions, DecisionRaises(i, s)
      PROVE  SettleInv'
    BY <1>7a DEF DecisionRaises
<1>8. ASSUME NEW f \in ReplanRoots, Amend(f) PROVE SettleInv'
    BY <1>8 DEF Amend, AmendSpec, Invalidated
<1>9. ASSUME NEW n \in Nodes, Execute(n) PROVE SettleInv'
    <2>1. CASE Start(n)
        BY <2>1 DEF Start
    <2>2. CASE GateFails(n)
        BY <2>2 DEF GateFails, BeginFailure
    <2>3. CASE GateRaises(n)
        BY <2>3 DEF GateRaises, Raise
    <2>4. CASE RequestApproval(n)
        BY <2>4 DEF RequestApproval, ApprovalRequest
    <2>5. CASE RequestRaises(n)
        BY <2>5 DEF RequestRaises, Raise
    <2>6. CASE AutoApprove(n)
        BY <2>6 DEF AutoApprove
    <2>7. CASE AutoReject(n)
        BY <2>7 DEF AutoReject
    <2>7a. CASE AutoRaises(n)
        <3>1. /\ pendingReq' = [pendingReq EXCEPT ![n] = Len(requests) + 1]
              /\ pc' = [pc EXCEPT ![n] = "out"] /\ UNCHANGED statuses
              /\ statuses[n] # "awaiting_approval"
            BY <2>7a, AutoRaisesRequest DEF ThreadInv
        <3>2. Len(requests) \in Nat
            OBVIOUS
        <3>3. QED
            BY <3>1, <3>2
    <2>8. CASE Park(n)
        BY <2>8 DEF Park
    <2>9. CASE BeginWork(n)
        BY <2>9 DEF BeginWork, MayBegin
    <2>10. CASE Complete(n)
        BY <2>10 DEF Complete, Put
    <2>11. CASE HandlerFails(n)
        BY <2>11 DEF HandlerFails, BeginFailure
    <2>12. CASE Undo(n)
        <3>1. UNCHANGED <<pc, pendingReq>>
            BY <2>12 DEF Undo
        <3>2. \A k \in Nodes : statuses'[k] \in {statuses[k], "rolled_back"}
            <4>1. PICK u : u = Head(undo[n])
                OBVIOUS
            <4>2. statuses' \in {statuses, [statuses EXCEPT ![u] = "rolled_back"]}
                BY <2>12, <4>1 DEF Undo
            <4>3. QED
                BY <4>2
        <3>3. QED
            BY <3>1, <3>2
    <2>13. CASE UndoRaises(n)
        BY <2>13 DEF UndoRaises, Raise
    <2>14. CASE EndFailure(n)
        BY <2>14 DEF EndFailure, ThreadInv, Broken
    <2>15. ASSUME NEW m \in Nodes, CascadeCheck(n, m) PROVE SettleInv'
        BY <2>15 DEF CascadeCheck
    <2>16. ASSUME NEW m \in Nodes, CascadeSkip(n, m) PROVE SettleInv'
        BY <2>16 DEF CascadeSkip
    <2>17. QED
        BY <1>9, <2>1, <2>2, <2>3, <2>4, <2>5, <2>6, <2>7, <2>7a, <2>8,
           <2>9, <2>10, <2>11, <2>12, <2>13, <2>14, <2>15, <2>16 DEF Execute
<1>10. CASE UNCHANGED vars
    BY <1>10 DEF vars
<1>11. QED
    BY <1>1, <1>2, <1>3, <1>4, <1>5, <1>6, <1>7, <1>7a, <1>8, <1>9, <1>10 DEF Next, Run, Caller

(* Of any nodes, one is declared first.                                    *)
LEMMA DeclaredFirst ==
    ASSUME NEW S \in SUBSET Nodes, S # {}
    PROVE  \E n \in S : \A m \in S : ~(Position[m] < Position[n])
<1> DEFINE P == {Position[n] : n \in S}
<1>1. P \subseteq Nat /\ P # {}
    OBVIOUS
<1>2. PICK p \in P : \A q \in P : <<q, p>> \notin OpToRel(<, Nat)
    BY <1>1, NatLessThanWellFounded, WFMin
<1>3. \A q \in P : ~(q < p)
    BY <1>1, <1>2 DEF OpToRel
<1>4. QED
    BY <1>3

(* The graph declares every node after what it depends on, as all graphs   *)
(* of graphs.py do.                                                        *)
DeclaredInOrder == \A n \in Nodes : \A d \in DependsOn[n] : Position[d] < Position[n]

(* When nothing is ready or parked, one pass over the nodes in the order   *)
(* they were declared skips all that are left: the first one it left out   *)
(* would be ready.                                                         *)
LEMMA OnePassSettles ==
    ASSUME DeclaredInOrder, TypeOK, ThreadInv, SettleInv, phase = "loop", Ready = {}, Pending = {},
           NEW S \in SUBSET Nodes, IsSkipPass(S), NEW n \in Nodes
    PROVE  Skipping(S)[n] \in Terminal
<1> DEFINE L == {k \in Nodes : Skipping(S)[k] \notin Terminal}
<1> SUFFICES ASSUME L # {} PROVE FALSE
    OBVIOUS
<1>1. PICK l \in L : \A k \in L : ~(Position[k] < Position[l])
    BY DeclaredFirst
<1>2. l \in Nodes /\ l \notin S /\ statuses[l] \notin Terminal
    BY <1>1 DEF Skipping, Terminal
<1>3. Runnable(l)
    BY <1>2 DEF TypeOK, Status, Terminal, ThreadInv, SettleInv, Pending, Runnable
<1>4. PICK d \in DependsOn[l] : statuses[d] # "completed"
    BY <1>2, <1>3 DEF Ready
<1>5. d \in Nodes /\ Position[d] < Position[l]
    BY <1>2 DEF DeclaredInOrder
<1>6. d \notin L
    BY <1>1, <1>5
<1>7. d \in S \/ statuses[d] \in Broken
    BY <1>4, <1>5, <1>6 DEF Skipping, Terminal, Broken
<1>8. QED
    BY <1>2, <1>5, <1>7 DEF IsSkipPass

(* If no callback raises or rejects and the graph is declared in order, a  *)
(* run that reports completed or failed has settled every node             *)
(* (engine.py:82-93, 140-151).                                             *)
THEOREM RunsSettle ==
    MayRaise = {} /\ FALSE \notin AutoDecisions /\ DeclaredInOrder /\ Spec => RunSettlesEveryNode
<1> DEFINE H == MayRaise = {} /\ FALSE \notin AutoDecisions /\ DeclaredInOrder
           I == TypeOK /\ ThreadInv /\ SettleInv
           A == phase # "idle" /\ phase' = "idle" /\ result' \in {"completed", "failed"}
                    => \A n \in Nodes : statuses'[n] \in Terminal
<1>1. Init => I
    BY TypeInit, ThreadInit, SettleInit
<1>2. H /\ I /\ [Next]_vars => I'
    BY TypeStep, ThreadStep, SettleStep
<1>3. H /\ I /\ [Next]_vars => [A]_vars
    <2> SUFFICES ASSUME H, I, [Next]_vars, phase # "idle", phase' = "idle",
                        result' \in {"completed", "failed"}, NEW n \in Nodes
                 PROVE  statuses'[n] \in Terminal
        OBVIOUS
    <2>1. CASE Return
        <3>1. ~safeStopped /\ Pending = {} /\ Ready = {} /\ phase = "loop"
            <4>1. result' = RunStatus(statuses') /\ phase = "loop" /\ (safeStopped \/ Ready = {})
                BY <2>1 DEF Return
            <4>2. QED
                BY <4>1 DEF RunStatus, TypeOK
        <3>2. PICK S \in SUBSET Nodes : IsSkipPass(S) /\ statuses' = Skipping(S)
            BY <2>1, <3>1 DEF Return
        <3>3. QED
            BY <3>1, <3>2, OnePassSettles
    <2>2. CASE RunRaises
        BY <2>2 DEF RunRaises
    <2>3. ASSUME NEW k \in Nodes, Execute(k) PROVE FALSE
        BY <2>3 DEF Execute, Start, GateFails, GateRaises, RequestApproval, Raise, BeginFailure,
           RequestRaises, AutoApprove, AutoReject, AutoRaises, Park, BeginWork, Complete,
           HandlerFails, CascadeCheck, CascadeSkip, Undo, UndoRaises, EndFailure, runVars
    <2>4. QED
        BY <2>1, <2>2, <2>3 DEF Next, Run, Caller, StartWave, EndWave, CallRun, Approve, Reject,
           DecisionRaises, Amend, vars, runVars
<1>4. CASE H
    <2> HIDE DEF H, I, A
    <2>1. Spec => [][A]_vars
        BY <1>1, <1>2, <1>3, <1>4, PTL DEF Spec
    <2>2. QED
        BY <2>1 DEF RunSettlesEveryNode, A
<1>5. QED
    BY <1>4

-----------------------------------------------------------------------------
(* Why nodes are skipped.                                                  *)

(* The caller does not re-plan from a node that failed or was rolled back. *)
NoRetry == \A f \in ReplanRoots : Amend(f) => ~Bad(f)

(* No node is SKIPPED yet.                                                 *)
LEMMA CauseInit == Init => CauseInv
BY DEF Init, CauseInv, Open, Bad

(* A cause is lost only to a cause further upstream.                       *)
LEMMA CausePersists ==
    ASSUME \A r \in Nodes : Bad(r) =>
               Bad(r)' \/ (Caused(r) /\ \A q \in Nodes : q # r /\ Bad(q) => Bad(q)'),
           NEW m \in Nodes, Caused(m)
    PROVE  Caused(m)'
<1>1. PICK r \in Nodes : m \in Downstream(r) /\ Bad(r)
    BY DEF Caused
<1>2. CASE Bad(r)'
    BY <1>1, <1>2 DEF Caused
<1>3. CASE ~Bad(r)'
    <2>1. PICK q \in Nodes : r \in Downstream(q) /\ Bad(q)
        BY <1>1, <1>3 DEF Caused
    <2>2. q # r
        BY <2>1 DEF Downstream
    <2>3. Bad(q)' /\ m \in Downstream(q)
        BY <1>1, <1>3, <2>1, <2>2, DownstreamTransitive
    <2>4. QED
        BY <2>3 DEF Caused
<1>4. QED
    BY <1>2, <1>3

(* It is enough to look at the nodes whose cause a step takes away.        *)
LEMMA CauseFrame ==
    ASSUME TypeOK, CauseInv,
           \A r \in Nodes :
               /\ Bad(r) => Bad(r)' \/ (Caused(r) /\ \A q \in Nodes : q # r /\ Bad(q) => Bad(q)')
               /\ pc'[r] # "rejecting"
               /\ Open(r)' => ~Bad(r)'
               /\ statuses'[r] = "skipped" => statuses[r] = "skipped" \/ Caused(r) \/ Caused(r)'
               /\ \A m \in todo'[r] \union mark'[r] : m \in Nodes /\
                      (m \in todo[r] \union mark[r] \/ Caused(m)')
    PROVE  CauseInv'
<1>1. \A m \in Nodes : Caused(m) => Caused(m)'
    BY CausePersists
<1>2. QED
    BY <1>1 DEF CauseInv

(* A decision leaves its node without an open request.                     *)
LEMMA DecidedCloses ==
    ASSUME TypeOK, OpenInv, NEW i \in DOMAIN requests, requests[i].status = "pending",
           NEW n, n = requests[i].node,
           NEW s \in {"approved", "rejected"}, requests' = Decided(i, s)
    PROVE  n \in Nodes /\ Open(n) /\ ~Open(n)' /\ \A m \in Nodes : Open(m)' => Open(m)
<1>1. n \in Nodes /\ Open(n)
    <2>1. requests[i] \in ApprovalRequest
        BY DEF TypeOK
    <2>2. QED
        BY <2>1 DEF ApprovalRequest, Open
<1>2. /\ DOMAIN requests' = DOMAIN requests
      /\ requests'[i].status = s
      /\ \A j \in DOMAIN requests : j # i => requests'[j] = requests[j]
    BY DEF TypeOK, Decided
<1>3. ASSUME NEW m \in Nodes, Open(m)' PROVE Open(m) /\ m # n
    <2>1. PICK k \in DOMAIN requests :
              requests'[k].node = m /\ requests'[k].status = "pending"
        BY <1>2, <1>3 DEF Open
    <2>2. k # i /\ requests[k].node = m /\ requests[k].status = "pending"
        BY <1>2, <2>1
    <2>3. QED
        BY <2>2 DEF Open, OpenInv
<1>4. QED
    BY <1>1, <1>3

(* What one pass skips is downstream of a failure: the first node declared *)
(* that were not would depend on one that is.                              *)
LEMMA PassIsCaused ==
    ASSUME TypeOK, CauseInv, NEW S \in SUBSET Nodes, IsSkipPass(S), statuses' = Skipping(S),
           \A m \in Nodes : Caused(m) => Caused(m)',
           NEW n \in Nodes, statuses'[n] = "skipped"
    PROVE  statuses[n] = "skipped" \/ Caused(n)'
<1> DEFINE L == {k \in S : ~Caused(k)'}
<1>1. CASE n \notin S
    BY <1>1 DEF Skipping
<1>2. CASE L # {}
    <2>1. PICK l \in L : \A k \in L : ~(Position[k] < Position[l])
        BY <1>2, DeclaredFirst
    <2>2. l \in Nodes /\ l \in S /\ ~Caused(l)'
        BY <2>1
    <2>3. PICK d \in DependsOn[l] : statuses[d] \in Broken \/ (d \in S /\ Position[d] < Position[l])
        BY <2>2 DEF IsSkipPass
    <2>4. d \in Nodes /\ l \in Downstream(d)
        BY <2>2, DependentIsDownstream
    <2>5. ~Caused(d)'
        <3>1. SUFFICES ASSUME NEW r \in Nodes, d \in Downstream(r), Bad(r)' PROVE FALSE
            BY DEF Caused
        <3>2. l \in Downstream(r)
            BY <2>4, <3>1, DownstreamTransitive
        <3>3. QED
            BY <2>2, <3>1, <3>2 DEF Caused
    <2>6. CASE d \in S /\ Position[d] < Position[l]
        BY <2>1, <2>5, <2>6
    <2>7. CASE statuses[d] = "skipped"
        BY <2>4, <2>5, <2>7 DEF CauseInv
    <2>8. CASE Bad(d)
        <3>1. d \notin S
            BY <2>8 DEF IsSkipPass, Bad, Terminal
        <3>2. Bad(d)'
            BY <2>4, <2>8, <3>1 DEF Bad, Skipping
        <3>3. QED
            BY <2>2, <2>4, <3>2 DEF Caused
    <2>9. QED
        BY <2>3, <2>6, <2>7, <2>8 DEF Broken, Bad
<1>3. QED
    BY <1>1, <1>2

(* Every step keeps the cause of what is skipped: what is FAILED or         *)
(* ROLLED_BACK stays so, unless a cascade that began upstream of it skips  *)
(* it.                                                                     *)
LEMMA CauseStep ==
    PlainCaller /\ FALSE \notin AutoDecisions /\ NoRetry /\ TypeOK /\ ThreadInv /\ OpenInv /\
    LoopInv /\ ReworkInv /\ ExecInv /\ CauseInv /\ [Next]_vars => CauseInv'
<1> SUFFICES ASSUME PlainCaller, FALSE \notin AutoDecisions, NoRetry, TypeOK, ThreadInv, OpenInv,
                    LoopInv, ReworkInv, ExecInv, CauseInv, [Next]_vars
             PROVE  CauseInv'
    OBVIOUS
<1> USE DEF orchVars, storeVars, runVars, loopVars
<1>1. CASE StartWave
    <2>1. \A r \in Nodes :
               /\ Bad(r) => Bad(r)'
               /\ pc'[r] # "rejecting"
               /\ Open(r)' => ~Bad(r)'
               /\ statuses'[r] = "skipped" => statuses[r] = "skipped"
               /\ \A x \in todo'[r] \union mark'[r] : x \in todo[r] \union mark[r]
        BY <1>1 DEF StartWave, Bad, TypeOK, CauseInv, Open
    <2>2. QED
        BY <2>1, CauseFrame DEF TypeOK
<1>2. CASE EndWave
    <2>1. \A r \in Nodes :
               /\ Bad(r) => Bad(r)'
               /\ pc'[r] # "rejecting"
               /\ Open(r)' => ~Bad(r)'
               /\ statuses'[r] = "skipped" => statuses[r] = "skipped"
               /\ \A x \in todo'[r] \union mark'[r] : x \in todo[r] \union mark[r]
        BY <1>2 DEF EndWave, Bad, TypeOK, CauseInv, Open
    <2>2. QED
        BY <2>1, CauseFrame DEF TypeOK
<1>3. CASE RunRaises
    <2>1. \A r \in Nodes :
               /\ Bad(r) => Bad(r)'
               /\ pc'[r] # "rejecting"
               /\ Open(r)' => ~Bad(r)'
               /\ statuses'[r] = "skipped" => statuses[r] = "skipped"
               /\ \A x \in todo'[r] \union mark'[r] : x \in todo[r] \union mark[r]
        BY <1>3 DEF RunRaises, Bad, TypeOK, CauseInv, Open
    <2>2. QED
        BY <2>1, CauseFrame DEF TypeOK
<1>4. CASE Return
    <2>1. UNCHANGED <<pc, requests, todo, mark>>
        BY <1>4 DEF Return
    <2>2. \A r \in Nodes :
               /\ Bad(r) => Bad(r)'
               /\ pc'[r] # "rejecting"
               /\ Open(r)' => ~Bad(r)'
               /\ \A m \in todo'[r] \union mark'[r] : m \in Nodes /\ m \in todo[r] \union mark[r]
        BY <1>4, <2>1, ReturnSkipsOpen DEF Bad, Open, TypeOK, CauseInv, Terminal
    <2>3. \A m \in Nodes : Caused(m) => Caused(m)'
        BY <2>2, CausePersists
    <2>4. ASSUME NEW r \in Nodes, statuses'[r] = "skipped"
          PROVE  statuses[r] = "skipped" \/ Caused(r)'
        <3>1. CASE statuses' = statuses
            BY <2>4, <3>1
        <3>2. ASSUME NEW S \in SUBSET Nodes, IsSkipPass(S), statuses' = Skipping(S)
              PROVE  statuses[r] = "skipped" \/ Caused(r)'
            BY <2>3, <2>4, <3>2, PassIsCaused
        <3>3. QED
            BY <1>4, <3>1, <3>2 DEF Return
    <2>5. QED
        BY <2>2, <2>4, CauseFrame
<1>5. CASE CallRun
    <2>1. \A r \in Nodes :
               /\ Bad(r) => Bad(r)'
               /\ pc'[r] # "rejecting"
               /\ Open(r)' => ~Bad(r)'
               /\ statuses'[r] = "skipped" => statuses[r] = "skipped"
               /\ \A x \in todo'[r] \union mark'[r] : x \in todo[r] \union mark[r]
        BY <1>5 DEF CallRun, Bad, TypeOK, CauseInv, Open
    <2>2. QED
        BY <2>1, CauseFrame DEF TypeOK
<1>6. ASSUME NEW i \in DOMAIN requests, Approve(i) PROVE CauseInv'
    <2>1. PICK u : u = requests[i].node
        OBVIOUS
    <2>2. /\ requests[i].status = "pending" /\ requests' = Decided(i, "approved")
          /\ UNCHANGED <<pc, todo, mark>>
          /\ statuses' = [statuses EXCEPT ![u] = "pending"]
        BY <1>6, <2>1, DecidesOpen DEF Approve
    <2>3. u \in Nodes /\ Open(u) /\ \A m \in Nodes : Open(m)' => Open(m)
        BY <2>1, <2>2, DecidedCloses
    <2>4. \A r \in Nodes :
               /\ Bad(r) => Bad(r)'
               /\ pc'[r] # "rejecting"
               /\ Open(r)' => ~Bad(r)'
               /\ statuses'[r] = "skipped" => statuses[r] = "skipped"
               /\ \A m \in todo'[r] \union mark'[r] : m \in todo[r] \union mark[r]
        BY <2>2, <2>3 DEF Bad, TypeOK, CauseInv
    <2>5. QED
        BY <2>4, CauseFrame DEF TypeOK
<1>7. ASSUME NEW i \in DOMAIN requests, Reject(i) PROVE CauseInv'
    <2>1. PICK u : u = requests[i].node
        OBVIOUS
    <2>2. /\ requests[i].status = "pending" /\ requests' = Decided(i, "rejected")
          /\ UNCHANGED <<pc, todo, mark>> /\ statuses' = Rejecting(u)
        BY <1>7, <2>1, DecidesOpen DEF Reject
    <2>3. u \in Nodes /\ ~Open(u)' /\ \A m \in Nodes : Open(m)' => Open(m)
        BY <2>1, <2>2, DecidedCloses
    <2>4. /\ statuses'[u] = "rolled_back"
          /\ \A m \in Nodes : m # u =>
                 \/ statuses'[m] = statuses[m]
                 \/ m \in Downstream(u) /\ statuses[m] \notin Terminal /\ statuses'[m] = "skipped"
        BY <2>2, <2>3 DEF Rejecting
    <2>5. Bad(u)' /\ \A m \in Downstream(u) : Caused(m)'
        BY <2>3, <2>4, DownstreamType DEF Caused, Bad
    <2>6. \A r \in Nodes :
               /\ Bad(r) => Bad(r)'
               /\ pc'[r] # "rejecting"
               /\ Open(r)' => ~Bad(r)'
               /\ \A m \in todo'[r] \union mark'[r] : m \in Nodes /\ m \in todo[r] \union mark[r]
        BY <2>2, <2>3, <2>4 DEF Bad, TypeOK, CauseInv, Terminal
    <2>7. \A r \in Nodes : statuses'[r] = "skipped" => statuses[r] = "skipped" \/ Caused(r)'
        BY <2>3, <2>5, <2>4
    <2>8. QED
        BY <2>6, <2>7, CauseFrame
<1>7a. ASSUME NEW i \in DOMAIN requests, NEW s \in Decisions, DecisionRaises(i, s)
      PROVE  CauseInv'
    <2>1. /\ UNCHANGED <<statuses, pc, todo, mark>>
          /\ \A m \in Nodes : Open(m)' => Open(m)
        BY <1>7a, DecisionRaisesOpen
    <2>2. \A r \in Nodes :
               /\ Bad(r) => Bad(r)'
               /\ pc'[r] # "rejecting"
               /\ Open(r)' => ~Bad(r)'
               /\ statuses'[r] = "skipped" => statuses[r] = "skipped"
               /\ \A m \in todo'[r] \union mark'[r] : m \in todo[r] \union mark[r]
        BY <2>1 DEF Bad, TypeOK, CauseInv
    <2>3. QED
        BY <2>2, CauseFrame DEF TypeOK
<1>8. ASSUME NEW f \in ReplanRoots, Amend(f) PROVE CauseInv'
    <2>1. \A r \in Nodes :
               /\ Bad(r) => Bad(r)'
               /\ pc'[r] # "rejecting"
               /\ Open(r)' => ~Bad(r)'
               /\ statuses'[r] = "skipped" => statuses[r] = "skipped"
               /\ \A x \in todo'[r] \union mark'[r] : x \in todo[r] \union mark[r]
        BY <1>8 DEF Amend, AmendSpec, Invalidated, Bad, TypeOK, CauseInv, Open, NoRetry
    <2>2. QED
        BY <2>1, CauseFrame DEF TypeOK
<1>9. ASSUME NEW n \in Nodes, Execute(n) PROVE CauseInv'
    <2>1. CASE Start(n)
        <3>1. \A r \in Nodes :
                   /\ Bad(r) => Bad(r)'
                   /\ pc'[r] # "rejecting"
                   /\ Open(r)' => ~Bad(r)'
                   /\ statuses'[r] = "skipped" => statuses[r] = "skipped"
                   /\ \A x \in todo'[r] \union mark'[r] : x \in todo[r] \union mark[r]
            BY <2>1 DEF Start, Bad, TypeOK, CauseInv, Open, ExecInv
        <3>2. QED
            BY <3>1, CauseFrame DEF TypeOK
    <2>2. CASE GateFails(n)
        <3>1. /\ UNCHANGED requests /\ pc[n] \in {"started", "working"}
              /\ pc' = [pc EXCEPT ![n] = "failing"]
              /\ statuses' = [statuses EXCEPT ![n] = "failed"]
              /\ UNCHANGED mark /\ todo' = [todo EXCEPT ![n] = Downstream(n)]
            BY <2>2 DEF GateFails, BeginFailure
        <3>2. ~Open(n)
            BY <3>1 DEF OpenInv, Live
        <3>3. Bad(n)' /\ \A m \in Downstream(n) : Caused(m)' /\ m \in Nodes
            BY <3>1, DownstreamType DEF Caused, Bad, TypeOK
        <3>4. \A r \in Nodes :
                   /\ Bad(r) => Bad(r)'
                   /\ pc'[r] # "rejecting"
                   /\ Open(r)' => ~Bad(r)'
                   /\ statuses'[r] = "skipped" => statuses[r] = "skipped"
            BY <3>1, <3>2 DEF Bad, Open, TypeOK, CauseInv
        <3>5. \A r \in Nodes : \A m \in todo'[r] \union mark'[r] :
                   m \in Nodes /\ (m \in todo[r] \union mark[r] \/ Caused(m)')
            BY <3>1, <3>3 DEF TypeOK
        <3>6. QED
            BY <3>4, <3>5, CauseFrame
    <2>3. CASE GateRaises(n)
        <3>1. \A r \in Nodes :
                   /\ Bad(r) => Bad(r)'
                   /\ pc'[r] # "rejecting"
                   /\ Open(r)' => ~Bad(r)'
                   /\ statuses'[r] = "skipped" => statuses[r] = "skipped"
                   /\ \A x \in todo'[r] \union mark'[r] : x \in todo[r] \union mark[r]
            BY <2>3 DEF GateRaises, Raise, Bad, TypeOK, CauseInv, Open, ExecInv
        <3>2. QED
            BY <3>1, CauseFrame DEF TypeOK
    <2>4. CASE RequestApproval(n)
        <3>1. \A k \in Nodes : Open(k)' => Open(k) \/ k = n
            <4>1. /\ requests \in Seq(ApprovalRequest)
                  /\ requests' = Append(requests, Request(n, "pending"))
                BY <2>4 DEF RequestApproval, TypeOK
            <4>2. QED
                BY <4>1, OpenAppend
        <3>2. \A r \in Nodes :
                   /\ Bad(r) => Bad(r)'
                   /\ pc'[r] # "rejecting"
                   /\ Open(r)' => ~Bad(r)'
                   /\ statuses'[r] = "skipped" => statuses[r] = "skipped"
                   /\ \A m \in todo'[r] \union mark'[r] : m \in todo[r] \union mark[r]
            BY <2>4, <3>1 DEF RequestApproval, Bad, TypeOK, CauseInv, ExecInv
        <3>3. QED
            BY <3>2, CauseFrame DEF TypeOK
    <2>5. CASE RequestRaises(n)
        <3>1. \A k \in Nodes : Open(k)' => Open(k) \/ k = n
            <4>1. /\ requests \in Seq(ApprovalRequest)
                  /\ requests' = Append(requests, Request(n, "pending"))
                BY <2>5 DEF RequestRaises, Raise, TypeOK
            <4>2. QED
                BY <4>1, OpenAppend
        <3>2. \A r \in Nodes :
                   /\ Bad(r) => Bad(r)'
                   /\ pc'[r] # "rejecting"
                   /\ Open(r)' => ~Bad(r)'
                   /\ statuses'[r] = "skipped" => statuses[r] = "skipped"
                   /\ \A m \in todo'[r] \union mark'[r] : m \in todo[r] \union mark[r]
            BY <2>5, <3>1 DEF RequestRaises, Raise, Bad, TypeOK, CauseInv, ExecInv
        <3>3. QED
            BY <3>2, CauseFrame DEF TypeOK
    <2>6. CASE AutoApprove(n)
        <3>1. \A k \in Nodes : Open(k)' => Open(k) \/ k = n
            <4>1. /\ requests \in Seq(ApprovalRequest)
                  /\ requests' = Append(requests, Request(n, "approved"))
                BY <2>6 DEF AutoApprove, TypeOK
            <4>2. QED
                BY <4>1, OpenAppend
        <3>2. \A r \in Nodes :
                   /\ Bad(r) => Bad(r)'
                   /\ pc'[r] # "rejecting"
                   /\ Open(r)' => ~Bad(r)'
                   /\ statuses'[r] = "skipped" => statuses[r] = "skipped"
                   /\ \A m \in todo'[r] \union mark'[r] : m \in todo[r] \union mark[r]
            BY <2>6, <3>1 DEF AutoApprove, Bad, TypeOK, CauseInv, ExecInv
        <3>3. QED
            BY <3>2, CauseFrame DEF TypeOK
    <2>7. CASE AutoReject(n)
        BY <2>7 DEF AutoReject
    <2>7a. CASE AutoRaises(n)
        <3>1. \A k \in Nodes : Open(k)' => Open(k) \/ k = n
            BY <2>7a, AutoRaisesOpen
        <3>2. \A r \in Nodes :
                   /\ Bad(r) => Bad(r)'
                   /\ pc'[r] # "rejecting"
                   /\ Open(r)' => ~Bad(r)'
                   /\ statuses'[r] = "skipped" => statuses[r] = "skipped"
                   /\ \A m \in todo'[r] \union mark'[r] : m \in todo[r] \union mark[r]
            BY <2>7a, <3>1 DEF AutoRaises, Raise, Bad, TypeOK, CauseInv, ExecInv
        <3>3. QED
            BY <3>2, CauseFrame DEF TypeOK
    <2>8. CASE Park(n)
        BY <2>8 DEF Park, CauseInv
    <2>9. CASE BeginWork(n)
        <3>1. \A r \in Nodes :
                   /\ Bad(r) => Bad(r)'
                   /\ pc'[r] # "rejecting"
                   /\ Open(r)' => ~Bad(r)'
                   /\ statuses'[r] = "skipped" => statuses[r] = "skipped"
                   /\ \A x \in todo'[r] \union mark'[r] : x \in todo[r] \union mark[r]
            BY <2>9 DEF BeginWork, MayBegin, Bad, TypeOK, CauseInv, Open, ExecInv
        <3>2. QED
            BY <3>1, CauseFrame DEF TypeOK
    <2>10. CASE Complete(n)
        <3>1. \A r \in Nodes :
                   /\ Bad(r) => Bad(r)'
                   /\ pc'[r] # "rejecting"
                   /\ Open(r)' => ~Bad(r)'
                   /\ statuses'[r] = "skipped" => statuses[r] = "skipped"
                   /\ \A x \in todo'[r] \union mark'[r] : x \in todo[r] \union mark[r]
            BY <2>10 DEF Complete, Put, Bad, TypeOK, CauseInv, Open, ExecInv
        <3>2. QED
            BY <3>1, CauseFrame DEF TypeOK
    <2>11. CASE HandlerFails(n)
        <3>1. /\ UNCHANGED requests /\ pc[n] \in {"started", "working"}
              /\ pc' = [pc EXCEPT ![n] = "failing"]
              /\ statuses' = [statuses EXCEPT ![n] = "failed"]
              /\ UNCHANGED mark /\ todo' = [todo EXCEPT ![n] = Downstream(n)]
            BY <2>11 DEF HandlerFails, BeginFailure
        <3>2. ~Open(n)
            BY <3>1 DEF OpenInv, Live
        <3>3. Bad(n)' /\ \A m \in Downstream(n) : Caused(m)' /\ m \in Nodes
            BY <3>1, DownstreamType DEF Caused, Bad, TypeOK
        <3>4. \A r \in Nodes :
                   /\ Bad(r) => Bad(r)'
                   /\ pc'[r] # "rejecting"
                   /\ Open(r)' => ~Bad(r)'
                   /\ statuses'[r] = "skipped" => statuses[r] = "skipped"
            BY <3>1, <3>2 DEF Bad, Open, TypeOK, CauseInv
        <3>5. \A r \in Nodes : \A m \in todo'[r] \union mark'[r] :
                   m \in Nodes /\ (m \in todo[r] \union mark[r] \/ Caused(m)')
            BY <3>1, <3>3 DEF TypeOK
        <3>6. QED
            BY <3>4, <3>5, CauseFrame
    <2>12. CASE Undo(n)
        <3>1. PICK u \in Nodes :
                  /\ n \in Downstream(u)
                  /\ \/ UNCHANGED <<statuses, todo>>
                     \/ statuses' = UndoStatus(u) /\ todo' = [todo EXCEPT ![n] = Downstream(u)]
            <4>1. Head(undo[n]) \in Nodes /\ n \in Downstream(Head(undo[n]))
                BY <2>12, HeadTail DEF Undo, LoopInv, TypeOK
            <4>2. QED
                BY <2>12, <4>1 DEF Undo
        <3>2. UNCHANGED <<mark, pc, requests>> /\ pc[n] # "out"
            BY <2>12 DEF Undo
        <3>3. CASE UNCHANGED <<statuses, todo>>
            <4>1. \A r \in Nodes :
                   /\ Bad(r) => Bad(r)'
                   /\ pc'[r] # "rejecting"
                   /\ Open(r)' => ~Bad(r)'
                   /\ statuses'[r] = "skipped" => statuses[r] = "skipped"
                   /\ \A m \in todo'[r] \union mark'[r] : m \in todo[r] \union mark[r]
                BY <3>2, <3>3 DEF Bad, Open, CauseInv
            <4>2. QED
                BY <4>1, CauseFrame DEF TypeOK
        <3>4. CASE statuses' = UndoStatus(u) /\ todo' = [todo EXCEPT ![n] = Downstream(u)]
            <4>1. ~Open(u)
                BY <3>1, <3>2 DEF ReworkInv, Unsettled
            <4>2. Bad(u)' /\ \A m \in Downstream(u) : Caused(m)' /\ m \in Nodes
                BY <3>4, DownstreamType DEF Caused, Bad, TypeOK
            <4>3. \A r \in Nodes :
                   /\ Bad(r) => Bad(r)'
                   /\ pc'[r] # "rejecting"
                   /\ Open(r)' => ~Bad(r)'
                   /\ statuses'[r] = "skipped" => statuses[r] = "skipped"
                BY <3>2, <3>4, <4>1 DEF Bad, Open, TypeOK, CauseInv
            <4>4. \A r \in Nodes : \A m \in todo'[r] \union mark'[r] :
                   m \in Nodes /\ (m \in todo[r] \union mark[r] \/ Caused(m)')
                BY <3>2, <3>4, <4>2 DEF TypeOK
            <4>5. QED
                BY <4>3, <4>4, CauseFrame
        <3>5. QED
            BY <3>1, <3>3, <3>4
    <2>13. CASE UndoRaises(n)
        <3>1. \A r \in Nodes :
                   /\ Bad(r) => Bad(r)'
                   /\ pc'[r] # "rejecting"
                   /\ Open(r)' => ~Bad(r)'
                   /\ statuses'[r] = "skipped" => statuses[r] = "skipped"
                   /\ \A x \in todo'[r] \union mark'[r] : x \in todo[r] \union mark[r]
            BY <2>13 DEF UndoRaises, Raise, Bad, TypeOK, CauseInv, Open, ExecInv
        <3>2. QED
            BY <3>1, CauseFrame DEF TypeOK
    <2>14. CASE EndFailure(n)
        <3>1. \A r \in Nodes :
                   /\ Bad(r) => Bad(r)'
                   /\ pc'[r] # "rejecting"
                   /\ Open(r)' => ~Bad(r)'
                   /\ statuses'[r] = "skipped" => statuses[r] = "skipped"
                   /\ \A x \in todo'[r] \union mark'[r] : x \in todo[r] \union mark[r]
            BY <2>14 DEF EndFailure, Bad, TypeOK, CauseInv, Open, ExecInv
        <3>2. QED
            BY <3>1, CauseFrame DEF TypeOK
    <2>15. ASSUME NEW m \in Nodes, CascadeCheck(n, m) PROVE CauseInv'
        <3>1. \A r \in Nodes :
                   /\ Bad(r) => Bad(r)'
                   /\ pc'[r] # "rejecting"
                   /\ Open(r)' => ~Bad(r)'
                   /\ statuses'[r] = "skipped" => statuses[r] = "skipped"
                   /\ \A x \in todo'[r] \union mark'[r] : x \in todo[r] \union mark[r]
            BY <2>15 DEF CascadeCheck, Bad, TypeOK, CauseInv, Open, ExecInv
        <3>2. QED
            BY <3>1, CauseFrame DEF TypeOK
    <2>16. ASSUME NEW m \in Nodes, CascadeSkip(n, m) PROVE CauseInv'
        <3>1. /\ UNCHANGED <<requests, pc, todo>> /\ m \in mark[n]
              /\ statuses' = [statuses EXCEPT ![m] = "skipped"]
              /\ mark' = [mark EXCEPT ![n] = {}]
            BY <2>16 DEF CascadeSkip
        <3>2. Caused(m)
            BY <3>1 DEF CauseInv
        <3>3. \A r \in Nodes :
                   /\ r # m => /\ Bad(r)' <=> Bad(r)
                               /\ statuses'[r] = "skipped" => statuses[r] = "skipped"
                   /\ ~Bad(m)'
                   /\ pc'[r] # "rejecting"
                   /\ Open(r)' => ~Bad(r)'
                   /\ \A x \in todo'[r] \union mark'[r] : x \in Nodes /\ x \in todo[r] \union mark[r]
            BY <3>1 DEF Bad, Open, TypeOK, CauseInv
        <3>4. QED
            BY <3>2, <3>3, CauseFrame
    <2>17. QED
        BY <1>9, <2>1, <2>2, <2>3, <2>4, <2>5, <2>6, <2>7, <2>7a, <2>8,
           <2>9, <2>10, <2>11, <2>12, <2>13, <2>14, <2>15, <2>16 DEF Execute
<1>10. CASE UNCHANGED vars
    <2>1. \A r \in Nodes :
               /\ Bad(r) => Bad(r)'
               /\ pc'[r] # "rejecting"
               /\ Open(r)' => ~Bad(r)'
               /\ statuses'[r] = "skipped" => statuses[r] = "skipped"
               /\ \A x \in todo'[r] \union mark'[r] : x \in todo[r] \union mark[r]
        BY <1>10 DEF vars, Bad, TypeOK, CauseInv, Open
    <2>2. QED
        BY <2>1, CauseFrame DEF TypeOK
<1>11. QED
    BY <1>1, <1>2, <1>3, <1>4, <1>5, <1>6, <1>7, <1>7a, <1>8, <1>9, <1>10 DEF Next, Run, Caller

(* As long as the caller decides only what is listed as pending, re-plans  *)
(* only from nodes that need no approval and neither failed nor were       *)
(* rolled back, and no callback rejects, every skipped node is downstream  *)
(* of one that failed or was rolled back                                   *)
(* (engine.py:229-232, 245-248, 283-286, 145-148).                         *)
THEOREM SkippedNodesHaveCause ==
    PlainCaller /\ FALSE \notin AutoDecisions /\ Spec /\ [][NoRetry]_vars => []SkippedHasCause
<1> DEFINE H == PlainCaller /\ FALSE \notin AutoDecisions
           I == FailureBase /\ CauseInv
<1>1. Init => I
    BY BaseInit, CauseInit
<1>2. H /\ I /\ [Next]_vars /\ [NoRetry]_vars => I'
    <2> SUFFICES ASSUME H, I, [Next]_vars, [NoRetry]_vars PROVE I'
        OBVIOUS
    <2>1. NoRetry
        BY DEF NoRetry, Amend, AmendSpec, vars, runVars, FailureBase, TypeOK
    <2>2. FailureBase'
        BY BaseStep
    <2>3. CauseInv'
        BY <2>1, CauseStep DEF FailureBase
    <2>4. QED
        BY <2>2, <2>3
<1>3. I => SkippedHasCause
    BY DEF CauseInv, SkippedHasCause, Caused, Bad
<1>4. CASE H
    <2> HIDE DEF H, I
    <2>1. QED
        BY <1>1, <1>2, <1>3, <1>4, PTL DEF Spec
<1>5. QED
    BY <1>4

-----------------------------------------------------------------------------
(* What a failure undoes.                                                  *)

HasFailed(u) == \E n \in Downstream(u) : statuses[n] = "failed"

(* The caller does not re-plan from a node upstream of a failure.          *)
NoRedo == \A f \in ReplanRoots : Amend(f) => ~HasFailed(f)

(* No node has FAILED yet.                                                 *)
LEMMA UndoneInit == Init => UndoneInv
BY DEF Init, UndoneInv

(* It is enough to look at what is above the nodes that stay FAILED.       *)
LEMMA UndoneFrame ==
    ASSUME TypeOK, UndoneInv,
           \A n \in Nodes : statuses'[n] = "failed" =>
               /\ statuses[n] = "failed"
               /\ pc[n] = "failing" =>
                      (pc'[n] = "failing" /\ undo'[n] = undo[n]) \/ DOMAIN undo[n] = {},
           \A u \in Nodes : HasFailed(u) /\ Above(u) =>
               /\ Above(u)'
               /\ statuses[u] = "rolled_back" => statuses'[u] = "rolled_back"
               /\ u \in registered' => u \in registered
    PROVE  UndoneInv'
<1> SUFFICES ASSUME NEW n \in Nodes, statuses'[n] = "failed"
             PROVE  /\ \A u \in Nodes : n \in Downstream(u) => Above(u)'
                    /\ \A i \in DOMAIN RollbackOnFailure[n] : Undone(n, RollbackOnFailure[n][i])'
    BY DEF UndoneInv
<1>1. statuses[n] = "failed"
    OBVIOUS
<1>2. \A u \in Nodes : n \in Downstream(u) => HasFailed(u) /\ Above(u)
    BY <1>1 DEF UndoneInv, HasFailed
<1>3. ASSUME NEW i \in DOMAIN RollbackOnFailure[n]
      PROVE  Undone(n, RollbackOnFailure[n][i])'
    <2>1. PICK u \in Nodes : u = RollbackOnFailure[n][i] /\ n \in Downstream(u)
        BY RollbackIsUpstream
    <2>2. Undone(n, u) /\ HasFailed(u) /\ Above(u)
        BY <1>1, <1>2, <2>1 DEF UndoneInv
    <2>3. Undone(n, u)'
        BY <1>1, <2>2 DEF Undone
    <2>4. QED
        BY <2>1, <2>3
<1>4. QED
    BY <1>2, <1>3

(* When a thread fails, all that is upstream of its node is done, and      *)
(* nobody is about to skip it.                                             *)
LEMMA FailureAbove ==
    ASSUME ReworkInv, BrokenInv, NEW n \in Nodes, pc[n] # "out",
           NEW u \in Nodes, n \in Downstream(u)
    PROVE  Above(u)
BY DEF ReworkInv, BrokenInv, Unsettled, Spoilt, Idle, Above

(* Once a node has FAILED, what is upstream of it changes only by being     *)
(* undone.                                                                 *)
LEMMA UndoneStep ==
    PlainCaller /\ NoRedo /\ Undoable \intersect MayRaise = {} /\ TypeOK /\ ThreadInv /\
    OpenInv /\ LoopInv /\ ReworkInv /\ BrokenInv /\ UndoneInv /\ [Next]_vars => UndoneInv'
<1> SUFFICES ASSUME PlainCaller, NoRedo, Undoable \intersect MayRaise = {}, TypeOK, ThreadInv,
                    OpenInv, LoopInv, ReworkInv, BrokenInv, UndoneInv, [Next]_vars
             PROVE  UndoneInv'
    OBVIOUS
<1> USE DEF orchVars, storeVars, runVars, loopVars
<1>1. CASE StartWave
    <2>1. \A x \in Nodes : statuses'[x] = "failed" =>
               /\ statuses[x] = "failed"
               /\ pc[x] = "failing" =>
                      (pc'[x] = "failing" /\ undo'[x] = undo[x]) \/ DOMAIN undo[x] = {}
        BY <1>1 DEF StartWave, TypeOK, ThreadInv
    <2>2. \A u \in Nodes : Above(u) =>
               /\ Above(u)'
               /\ statuses[u] = "rolled_back" => statuses'[u] = "rolled_back"
               /\ u \in registered' => u \in registered
        BY <1>1 DEF StartWave, TypeOK, Above, Open, Ready, Runnable
    <2>3. QED
        BY <2>1, <2>2, UndoneFrame
<1>2. CASE EndWave
    <2>1. \A x \in Nodes : statuses'[x] = "failed" =>
               /\ statuses[x] = "failed"
               /\ pc[x] = "failing" =>
                      (pc'[x] = "failing" /\ undo'[x] = undo[x]) \/ DOMAIN undo[x] = {}
        BY <1>2 DEF EndWave, TypeOK
    <2>2. \A u \in Nodes : Above(u) =>
               /\ Above(u)'
               /\ statuses[u] = "rolled_back" => statuses'[u] = "rolled_back"
               /\ u \in registered' => u \in registered
        BY <1>2 DEF EndWave, TypeOK, Above, Open
    <2>3. QED
        BY <2>1, <2>2, UndoneFrame
<1>3. CASE RunRaises
    <2>1. \A x \in Nodes : statuses'[x] = "failed" =>
               /\ statuses[x] = "failed"
               /\ pc[x] = "failing" =>
                      (pc'[x] = "failing" /\ undo'[x] = undo[x]) \/ DOMAIN undo[x] = {}
        BY <1>3 DEF RunRaises, TypeOK
    <2>2. \A u \in Nodes : Above(u) =>
               /\ Above(u)'
               /\ statuses[u] = "rolled_back" => statuses'[u] = "rolled_back"
               /\ u \in registered' => u \in registered
        BY <1>3 DEF RunRaises, TypeOK, Above, Open
    <2>3. QED
        BY <2>1, <2>2, UndoneFrame
<1>4. CASE Return
    <2>1. UNCHANGED <<pc, mark, undo, registered, requests>>
        BY <1>4 DEF Return
    <2>2. \A x \in Nodes : statuses'[x] = "failed" => statuses[x] = "failed"
        BY <1>4, ReturnSkipsOpen
    <2>3. \A u \in Nodes : Above(u) =>
               /\ Above(u)'
               /\ statuses[u] = "rolled_back" => statuses'[u] = "rolled_back"
               /\ u \in registered' => u \in registered
        BY <1>4, <2>1, ReturnSkipsOpen DEF Above, Open, Terminal
    <2>4. QED
        BY <2>1, <2>2, <2>3, UndoneFrame
<1>5. CASE CallRun
    <2>1. \A x \in Nodes : statuses'[x] = "failed" =>
               /\ statuses[x] = "failed"
               /\ pc[x] = "failing" =>
                      (pc'[x] = "failing" /\ undo'[x] = undo[x]) \/ DOMAIN undo[x] = {}
        BY <1>5 DEF CallRun, TypeOK
    <2>2. \A u \in Nodes : Above(u) =>
               /\ Above(u)'
               /\ statuses[u] = "rolled_back" => statuses'[u] = "rolled_back"
               /\ u \in registered' => u \in registered
        BY <1>5 DEF CallRun, TypeOK, Above, Open
    <2>3. QED
        BY <2>1, <2>2, UndoneFrame
<1>6. ASSUME NEW i \in DOMAIN requests, Approve(i) PROVE UndoneInv'
    <2>1. PICK v : v = requests[i].node
        OBVIOUS
    <2>2. /\ requests[i].status = "pending" /\ requests' = Decided(i, "approved")
          /\ UNCHANGED <<pc, mark, undo, registered>>
          /\ statuses' = [statuses EXCEPT ![v] = "pending"]
        BY <1>6, <2>1, DecidesOpen DEF Approve
    <2>3. v \in Nodes /\ Open(v) /\ \A x \in Nodes : Open(x)' => Open(x)
        BY <2>1, <2>2, DecidedCloses
    <2>4. \A x \in Nodes : statuses'[x] = "failed" => statuses[x] = "failed"
        BY <2>2, <2>3 DEF Rejecting, TypeOK
    <2>5. \A u \in Nodes : Above(u) =>
               /\ Above(u)'
               /\ statuses[u] = "rolled_back" => statuses'[u] = "rolled_back"
               /\ u \in registered' => u \in registered
        BY <2>2, <2>3 DEF TypeOK, Above, Rejecting, Terminal
    <2>6. QED
        BY <2>2, <2>4, <2>5, UndoneFrame
<1>7. ASSUME NEW i \in DOMAIN requests, Reject(i) PROVE UndoneInv'
    <2>1. PICK v : v = requests[i].node
        OBVIOUS
    <2>2. /\ requests[i].status = "pending" /\ requests' = Decided(i, "rejected")
          /\ UNCHANGED <<pc, mark, undo, registered>>
          /\ statuses' = Rejecting(v)
        BY <1>7, <2>1, DecidesOpen DEF Reject
    <2>3. v \in Nodes /\ Open(v) /\ \A x \in Nodes : Open(x)' => Open(x)
        BY <2>1, <2>2, DecidedCloses
    <2>4. \A x \in Nodes : statuses'[x] = "failed" => statuses[x] = "failed"
        BY <2>2, <2>3 DEF Rejecting, TypeOK
    <2>5. \A u \in Nodes : Above(u) =>
               /\ Above(u)'
               /\ statuses[u] = "rolled_back" => statuses'[u] = "rolled_back"
               /\ u \in registered' => u \in registered
        BY <2>2, <2>3 DEF TypeOK, Above, Rejecting, Terminal
    <2>6. QED
        BY <2>2, <2>4, <2>5, UndoneFrame
<1>7a. ASSUME NEW i \in DOMAIN requests, NEW s \in Decisions, DecisionRaises(i, s)
      PROVE  UndoneInv'
    <2>1. /\ UNCHANGED <<statuses, pc, mark, undo, registered>>
          /\ \A x \in Nodes : Open(x)' => Open(x)
        BY <1>7a, DecisionRaisesOpen DEF loopVars
    <2>2. \A u \in Nodes : Above(u) => Above(u)'
        BY <2>1 DEF Above
    <2>3. QED
        BY <2>1, <2>2, UndoneFrame
<1>8. ASSUME NEW f \in ReplanRoots, Amend(f) PROVE UndoneInv'
    <2>1. ~HasFailed(f) /\ f \in Nodes
        BY <1>8 DEF NoRedo
    <2>2. /\ UNCHANGED <<pc, mark, undo, registered, requests>>
          /\ statuses' = [k \in Nodes |-> IF k \in Invalidated(f) THEN "stale" ELSE statuses[k]]
        BY <1>8 DEF Amend
    <2>3. ASSUME NEW u \in Nodes, HasFailed(u) PROVE u \notin Invalidated(f)
        BY <2>1, <2>3, DownstreamTransitive DEF HasFailed, Invalidated
    <2>4. \A x \in Nodes : statuses'[x] = "failed" => statuses[x] = "failed"
        BY <2>2
    <2>5. \A u \in Nodes : HasFailed(u) /\ Above(u) =>
               /\ Above(u)'
               /\ statuses[u] = "rolled_back" => statuses'[u] = "rolled_back"
               /\ u \in registered' => u \in registered
        BY <2>2, <2>3 DEF Above, Open
    <2>6. QED
        BY <2>2, <2>4, <2>5, UndoneFrame
<1>9. ASSUME NEW n \in Nodes, Execute(n) PROVE UndoneInv'
    <2>1. CASE Start(n)
        <3>1. \A x \in Nodes : statuses'[x] = "failed" =>
                   /\ statuses[x] = "failed"
                   /\ pc[x] = "failing" =>
                          (pc'[x] = "failing" /\ undo'[x] = undo[x]) \/ DOMAIN undo[x] = {}
            BY <2>1 DEF Start, TypeOK
        <3>2. \A u \in Nodes : Above(u) =>
                   /\ Above(u)'
                   /\ statuses[u] = "rolled_back" => statuses'[u] = "rolled_back"
                   /\ u \in registered' => u \in registered
            BY <2>1 DEF Start, TypeOK, Above, Open
        <3>3. QED
            BY <3>1, <3>2, UndoneFrame
    <2>2. CASE GateFails(n)
        <3>1. /\ UNCHANGED <<requests, mark, registered>> /\ pc[n] \in {"started", "working"}
              /\ pc' = [pc EXCEPT ![n] = "failing"]
              /\ statuses' = [statuses EXCEPT ![n] = "failed"]
              /\ undo' = [undo EXCEPT ![n] = RollbackOnFailure[n]]
            BY <2>2 DEF GateFails, BeginFailure
        <3>2. \A u \in Nodes : Above(u) => Above(u)' /\ u # n /\ statuses'[u] = statuses[u]
            BY <3>1 DEF Above, Open, TypeOK
        <3>3. ASSUME NEW x \in Nodes, statuses'[x] = "failed", NEW u \in Nodes, x \in Downstream(u)
              PROVE  Above(u)
            <4>1. CASE x = n
                BY <3>1, <3>3, <4>1, FailureAbove
            <4>2. CASE x # n
                BY <3>1, <3>3, <4>2 DEF UndoneInv, TypeOK
            <4>3. QED
                BY <4>1, <4>2
        <3>4. ASSUME NEW x \in Nodes, statuses'[x] = "failed", NEW i \in DOMAIN RollbackOnFailure[x]
              PROVE  Undone(x, RollbackOnFailure[x][i])'
            <4>1. CASE x = n
                BY <3>1, <3>4, <4>1 DEF Undone, TypeOK
            <4>2. CASE x # n
                <5>1. PICK u \in Nodes : u = RollbackOnFailure[x][i] /\ x \in Downstream(u)
                    BY RollbackIsUpstream
                <5>2. Undone(x, u) /\ statuses'[u] = statuses[u]
                    BY <3>1, <3>2, <3>3, <3>4, <4>2, <5>1 DEF UndoneInv, TypeOK
                <5>3. Undone(x, u)'
                    BY <3>1, <4>2, <5>2 DEF Undone, TypeOK
                <5>4. QED
                    BY <5>1, <5>3
            <4>3. QED
                BY <4>1, <4>2
        <3>5. QED
            BY <3>2, <3>3, <3>4 DEF UndoneInv
    <2>3. CASE GateRaises(n)
        <3>1. \A x \in Nodes : statuses'[x] = "failed" =>
                   /\ statuses[x] = "failed"
                   /\ pc[x] = "failing" =>
                          (pc'[x] = "failing" /\ undo'[x] = undo[x]) \/ DOMAIN undo[x] = {}
            BY <2>3 DEF GateRaises, Raise, TypeOK
        <3>2. \A u \in Nodes : Above(u) =>
                   /\ Above(u)'
                   /\ statuses[u] = "rolled_back" => statuses'[u] = "rolled_back"
                   /\ u \in registered' => u \in registered
            BY <2>3 DEF GateRaises, Raise, TypeOK, Above, Open
        <3>3. QED
            BY <3>1, <3>2, UndoneFrame
    <2>4. CASE RequestApproval(n)
        <3>1. \A k \in Nodes : Open(k)' => Open(k) \/ k = n
            <4>1. /\ requests \in Seq(ApprovalRequest)
                  /\ requests' = Append(requests, Request(n, "pending"))
                BY <2>4 DEF RequestApproval, TypeOK
            <4>2. QED
                BY <4>1, OpenAppend
        <3>2. \A x \in Nodes : statuses'[x] = "failed" =>
                   /\ statuses[x] = "failed"
                   /\ pc[x] = "failing" =>
                          (pc'[x] = "failing" /\ undo'[x] = undo[x]) \/ DOMAIN undo[x] = {}
            BY <2>4 DEF RequestApproval, TypeOK
        <3>3. \A u \in Nodes : Above(u) =>
                   /\ Above(u)'
                   /\ statuses[u] = "rolled_back" => statuses'[u] = "rolled_back"
                   /\ u \in registered' => u \in registered
            BY <2>4, <3>1 DEF RequestApproval, TypeOK, Above
        <3>4. QED
            BY <3>2, <3>3, UndoneFrame
    <2>5. CASE RequestRaises(n)
        <3>1. \A k \in Nodes : Open(k)' => Open(k) \/ k = n
            <4>1. /\ requests \in Seq(ApprovalRequest)
                  /\ requests' = Append(requests, Request(n, "pending"))
                BY <2>5 DEF RequestRaises, Raise, TypeOK
            <4>2. QED
                BY <4>1, OpenAppend
        <3>2. \A x \in Nodes : statuses'[x] = "failed" =>
                   /\ statuses[x] = "failed"
                   /\ pc[x] = "failing" =>
                          (pc'[x] = "failing" /\ undo'[x] = undo[x]) \/ DOMAIN undo[x] = {}
            BY <2>5 DEF RequestRaises, Raise, TypeOK
        <3>3. \A u \in Nodes : Above(u) =>
                   /\ Above(u)'
                   /\ statuses[u] = "rolled_back" => statuses'[u] = "rolled_back"
                   /\ u \in registered' => u \in registered
            BY <2>5, <3>1 DEF RequestRaises, Raise, TypeOK, Above
        <3>4. QED
            BY <3>2, <3>3, UndoneFrame
    <2>6. CASE AutoApprove(n)
        <3>1. \A k \in Nodes : Open(k)' => Open(k) \/ k = n
            <4>1. /\ requests \in Seq(ApprovalRequest)
                  /\ requests' = Append(requests, Request(n, "approved"))
                BY <2>6 DEF AutoApprove, TypeOK
            <4>2. QED
                BY <4>1, OpenAppend
        <3>2. \A x \in Nodes : statuses'[x] = "failed" =>
                   /\ statuses[x] = "failed"
                   /\ pc[x] = "failing" =>
                          (pc'[x] = "failing" /\ undo'[x] = undo[x]) \/ DOMAIN undo[x] = {}
            BY <2>6 DEF AutoApprove, TypeOK
        <3>3. \A u \in Nodes : Above(u) =>
                   /\ Above(u)'
                   /\ statuses[u] = "rolled_back" => statuses'[u] = "rolled_back"
                   /\ u \in registered' => u \in registered
            BY <2>6, <3>1 DEF AutoApprove, TypeOK, Above
        <3>4. QED
            BY <3>2, <3>3, UndoneFrame
    <2>7. CASE AutoReject(n)
        <3>1. \A k \in Nodes : Open(k)' => Open(k) \/ k = n
            <4>1. /\ requests \in Seq(ApprovalRequest)
                  /\ requests' = Append(requests, Request(n, "rejected"))
                BY <2>7 DEF AutoReject, TypeOK
            <4>2. QED
                BY <4>1, OpenAppend
        <3>2. \A x \in Nodes : statuses'[x] = "failed" =>
                   /\ statuses[x] = "failed"
                   /\ pc[x] = "failing" =>
                          (pc'[x] = "failing" /\ undo'[x] = undo[x]) \/ DOMAIN undo[x] = {}
            BY <2>7 DEF AutoReject, TypeOK
        <3>3. \A u \in Nodes : Above(u) =>
                   /\ Above(u)'
                   /\ statuses[u] = "rolled_back" => statuses'[u] = "rolled_back"
                   /\ u \in registered' => u \in registered
            BY <2>7, <3>1 DEF AutoReject, TypeOK, Above
        <3>4. QED
            BY <3>2, <3>3, UndoneFrame
    <2>7a. CASE AutoRaises(n)
        <3>1. \A k \in Nodes : Open(k)' => Open(k) \/ k = n
            BY <2>7a, AutoRaisesOpen
        <3>2. \A x \in Nodes : statuses'[x] = "failed" =>
                   /\ statuses[x] = "failed"
                   /\ pc[x] = "failing" =>
                          (pc'[x] = "failing" /\ undo'[x] = undo[x]) \/ DOMAIN undo[x] = {}
            BY <2>7a DEF AutoRaises, Raise, TypeOK
        <3>3. \A u \in Nodes : Above(u) =>
                   /\ Above(u)'
                   /\ statuses[u] = "rolled_back" => statuses'[u] = "rolled_back"
                   /\ u \in registered' => u \in registered
            BY <2>7a, <3>1 DEF AutoRaises, Raise, TypeOK, Above
        <3>4. QED
            BY <3>2, <3>3, UndoneFrame
    <2>8. CASE Park(n)
        <3>1. \A x \in Nodes : statuses'[x] = "failed" =>
                   /\ statuses[x] = "failed"
                   /\ pc[x] = "failing" =>
                          (pc'[x] = "failing" /\ undo'[x] = undo[x]) \/ DOMAIN undo[x] = {}
            BY <2>8 DEF Park, TypeOK
        <3>2. \A u \in Nodes : Above(u) =>
                   /\ Above(u)'
                   /\ statuses[u] = "rolled_back" => statuses'[u] = "rolled_back"
                   /\ u \in registered' => u \in registered
            BY <2>8 DEF Park, TypeOK, Above, Open
        <3>3. QED
            BY <3>1, <3>2, UndoneFrame
    <2>9. CASE BeginWork(n)
        <3>1. \A x \in Nodes : statuses'[x] = "failed" =>
                   /\ statuses[x] = "failed"
                   /\ pc[x] = "failing" =>
                          (pc'[x] = "failing" /\ undo'[x] = undo[x]) \/ DOMAIN undo[x] = {}
            BY <2>9 DEF BeginWork, MayBegin, TypeOK
        <3>2. \A u \in Nodes : Above(u) =>
                   /\ Above(u)'
                   /\ statuses[u] = "rolled_back" => statuses'[u] = "rolled_back"
                   /\ u \in registered' => u \in registered
            BY <2>9 DEF BeginWork, MayBegin, TypeOK, Above, Open
        <3>3. QED
            BY <3>1, <3>2, UndoneFrame
    <2>10. CASE Complete(n)
        <3>1. \A x \in Nodes : statuses'[x] = "failed" =>
                   /\ statuses[x] = "failed"
                   /\ pc[x] = "failing" =>
                          (pc'[x] = "failing" /\ undo'[x] = undo[x]) \/ DOMAIN undo[x] = {}
            BY <2>10 DEF Complete, Put, TypeOK
        <3>2. \A u \in Nodes : Above(u) =>
                   /\ Above(u)'
                   /\ statuses[u] = "rolled_back" => statuses'[u] = "rolled_back"
                   /\ u \in registered' => u \in registered
            BY <2>10 DEF Complete, Put, TypeOK, Above, Open
        <3>3. QED
            BY <3>1, <3>2, UndoneFrame
    <2>11. CASE HandlerFails(n)
        <3>1. /\ UNCHANGED <<requests, mark, registered>> /\ pc[n] \in {"started", "working"}
              /\ pc' = [pc EXCEPT ![n] = "failing"]
              /\ statuses' = [statuses EXCEPT ![n] = "failed"]
              /\ undo' = [undo EXCEPT ![n] = RollbackOnFailure[n]]
            BY <2>11 DEF HandlerFails, BeginFailure
        <3>2. \A u \in Nodes : Above(u) => Above(u)' /\ u # n /\ statuses'[u] = statuses[u]
            BY <3>1 DEF Above, Open, TypeOK
        <3>3. ASSUME NEW x \in Nodes, statuses'[x] = "failed", NEW u \in Nodes, x \in Downstream(u)
              PROVE  Above(u)
            <4>1. CASE x = n
                BY <3>1, <3>3, <4>1, FailureAbove
            <4>2. CASE x # n
                BY <3>1, <3>3, <4>2 DEF UndoneInv, TypeOK
            <4>3. QED
                BY <4>1, <4>2
        <3>4. ASSUME NEW x \in Nodes, statuses'[x] = "failed", NEW i \in DOMAIN RollbackOnFailure[x]
              PROVE  Undone(x, RollbackOnFailure[x][i])'
            <4>1. CASE x = n
                BY <3>1, <3>4, <4>1 DEF Undone, TypeOK
            <4>2. CASE x # n
                <5>1. PICK u \in Nodes : u = RollbackOnFailure[x][i] /\ x \in Downstream(u)
                    BY RollbackIsUpstream
                <5>2. Undone(x, u) /\ statuses'[u] = statuses[u]
                    BY <3>1, <3>2, <3>3, <3>4, <4>2, <5>1 DEF UndoneInv, TypeOK
                <5>3. Undone(x, u)'
                    BY <3>1, <4>2, <5>2 DEF Undone, TypeOK
                <5>4. QED
                    BY <5>1, <5>3
            <4>3. QED
                BY <4>1, <4>2
        <3>5. QED
            BY <3>2, <3>3, <3>4 DEF UndoneInv
    <2>12. CASE Undo(n)
        <3>1. PICK v \in Nodes :
                  /\ v = Head(undo[n]) /\ n \in Downstream(v)
                  /\ IF v \in registered THEN statuses' = UndoStatus(v) ELSE statuses' = statuses
            <4>1. Head(undo[n]) \in Nodes /\ n \in Downstream(Head(undo[n]))
                BY <2>12, HeadTail DEF Undo, LoopInv, TypeOK
            <4>2. QED
                BY <2>12, <4>1 DEF Undo
        <3>2. /\ UNCHANGED <<mark, pc, requests, registered>> /\ pc[n] = "failing"
              /\ undo' = [undo EXCEPT ![n] = Tail(undo[n])]
              /\ undo[n] # <<>> /\ undo[n] \in Seq(Nodes)
            BY <2>12 DEF Undo, TypeOK
        <3>3. \A x \in Nodes : statuses'[x] \in {statuses[x], "rolled_back"}
            BY <3>1 DEF TypeOK
        <3>4. \A u \in Nodes : Above(u) =>
                   Above(u)' /\ (statuses[u] = "rolled_back" => statuses'[u] = "rolled_back")
            BY <3>2, <3>3 DEF Above, Open
        <3>5. ASSUME NEW x \in Nodes, statuses'[x] = "failed", NEW i \in DOMAIN RollbackOnFailure[x]
              PROVE  Undone(x, RollbackOnFailure[x][i])'
            <4>1. PICK u \in Nodes : u = RollbackOnFailure[x][i] /\ x \in Downstream(u)
                BY RollbackIsUpstream
            <4>2. Undone(x, u) /\ Above(u)
                BY <3>3, <3>5, <4>1 DEF UndoneInv
            <4>3. CASE u \notin registered \/ statuses[u] = "rolled_back"
                BY <3>2, <3>4, <4>1, <4>2, <4>3 DEF Undone
            <4>4. CASE x # n /\ pc[x] = "failing" /\ \E j \in DOMAIN undo[x] : undo[x][j] = u
                BY <3>2, <4>1, <4>4 DEF Undone, TypeOK
            <4>5. ASSUME x = n, NEW j \in DOMAIN undo[n], undo[n][j] = u PROVE Undone(x, u)'
                <5>1. CASE j = 1
                    <6>1. u = v
                        BY <3>1, <3>2, <4>5, <5>1, HeadTail
                    <6>2. QED
                        BY <3>1, <3>2, <6>1 DEF Undone, TypeOK
                <5>2. CASE j # 1
                    <6>1. j - 1 \in DOMAIN Tail(undo[n]) /\ Tail(undo[n])[j - 1] = u
                        BY <3>2, <4>5, <5>2, HeadTail
                    <6>2. undo'[n] = Tail(undo[n])
                        BY <3>2 DEF TypeOK
                    <6>3. QED
                        BY <3>2, <4>5, <6>1, <6>2 DEF Undone
                <5>3. QED
                    BY <5>1, <5>2
            <4>6. QED
                BY <4>1, <4>2, <4>3, <4>4, <4>5 DEF Undone
        <3>6. \A x \in Nodes : statuses'[x] = "failed" =>
                  \A u \in Nodes : x \in Downstream(u) => Above(u)'
            BY <3>3, <3>4 DEF UndoneInv
        <3>7. QED
            BY <3>5, <3>6 DEF UndoneInv
    <2>13. CASE UndoRaises(n)
        BY <2>13 DEF UndoRaises, TypeOK
    <2>14. CASE EndFailure(n)
        <3>1. \A x \in Nodes : statuses'[x] = "failed" =>
                   /\ statuses[x] = "failed"
                   /\ pc[x] = "failing" =>
                          (pc'[x] = "failing" /\ undo'[x] = undo[x]) \/ DOMAIN undo[x] = {}
            BY <2>14 DEF EndFailure, TypeOK
        <3>2. \A u \in Nodes : Above(u) =>
                   /\ Above(u)'
                   /\ statuses[u] = "rolled_back" => statuses'[u] = "rolled_back"
                   /\ u \in registered' => u \in registered
            BY <2>14 DEF EndFailure, TypeOK, Above, Open
        <3>3. QED
            BY <3>1, <3>2, UndoneFrame
    <2>15. ASSUME NEW m \in Nodes, CascadeCheck(n, m) PROVE UndoneInv'
        <3>1. \A x \in Nodes : statuses'[x] = "failed" =>
                   /\ statuses[x] = "failed"
                   /\ pc[x] = "failing" =>
                          (pc'[x] = "failing" /\ undo'[x] = undo[x]) \/ DOMAIN undo[x] = {}
            BY <2>15 DEF CascadeCheck, TypeOK
        <3>2. \A u \in Nodes : Above(u) =>
                   /\ Above(u)'
                   /\ statuses[u] = "rolled_back" => statuses'[u] = "rolled_back"
                   /\ u \in registered' => u \in registered
            BY <2>15 DEF CascadeCheck, TypeOK, Above, Open, Terminal
        <3>3. QED
            BY <3>1, <3>2, UndoneFrame
    <2>16. ASSUME NEW m \in Nodes, CascadeSkip(n, m) PROVE UndoneInv'
        <3>1. \A x \in Nodes : statuses'[x] = "failed" =>
                   /\ statuses[x] = "failed"
                   /\ pc[x] = "failing" =>
                          (pc'[x] = "failing" /\ undo'[x] = undo[x]) \/ DOMAIN undo[x] = {}
            BY <2>16 DEF CascadeSkip, TypeOK
        <3>2. \A u \in Nodes : Above(u) =>
                   /\ Above(u)'
                   /\ statuses[u] = "rolled_back" => statuses'[u] = "rolled_back"
                   /\ u \in registered' => u \in registered
            BY <2>16 DEF CascadeSkip, TypeOK, Above, Open
        <3>3. QED
            BY <3>1, <3>2, UndoneFrame
    <2>17. QED
        BY <1>9, <2>1, <2>2, <2>3, <2>4, <2>5, <2>6, <2>7, <2>7a, <2>8,
           <2>9, <2>10, <2>11, <2>12, <2>13, <2>14, <2>15, <2>16 DEF Execute
<1>10. CASE UNCHANGED vars
    <2>1. \A x \in Nodes : statuses'[x] = "failed" =>
               /\ statuses[x] = "failed"
               /\ pc[x] = "failing" =>
                      (pc'[x] = "failing" /\ undo'[x] = undo[x]) \/ DOMAIN undo[x] = {}
        BY <1>10 DEF vars, TypeOK
    <2>2. \A u \in Nodes : Above(u) =>
               /\ Above(u)'
               /\ statuses[u] = "rolled_back" => statuses'[u] = "rolled_back"
               /\ u \in registered' => u \in registered
        BY <1>10 DEF vars, TypeOK, Above, Open
    <2>3. QED
        BY <2>1, <2>2, UndoneFrame
<1>11. QED
    BY <1>1, <1>2, <1>3, <1>4, <1>5, <1>6, <1>7, <1>7a, <1>8, <1>9, <1>10 DEF Next, Run, Caller

(* As long as the caller decides only what is listed as pending, re-plans  *)
(* only from nodes that need no approval and have no failure downstream,   *)
(* and no undo action raises, a node that failed leaves nothing in place   *)
(* that it undoes (engine.py:237-240).                                     *)
THEOREM FailuresAreUndone ==
    PlainCaller /\ Undoable \intersect MayRaise = {} /\ Spec /\ [][NoRedo]_vars => []FailureUndone
<1> DEFINE H == PlainCaller /\ Undoable \intersect MayRaise = {}
           I == FailureBase /\ UndoneInv
<1>1. Init => I
    BY BaseInit, UndoneInit
<1>2. H /\ I /\ [Next]_vars /\ [NoRedo]_vars => I'
    <2> SUFFICES ASSUME H, I, [Next]_vars, [NoRedo]_vars PROVE I'
        OBVIOUS
    <2>1. NoRedo
        BY DEF NoRedo, Amend, AmendSpec, vars, runVars, FailureBase, TypeOK
    <2>2. FailureBase'
        BY BaseStep
    <2>3. UndoneInv'
        BY <2>1, UndoneStep DEF FailureBase
    <2>4. QED
        BY <2>2, <2>3
<1>3. I => FailureUndone
    BY DEF FailureBase, ThreadInv, UndoneInv, Undone, FailureUndone
<1>4. CASE H
    <2> HIDE DEF H, I
    <2>1. QED
        BY <1>1, <1>2, <1>3, <1>4, PTL DEF Spec
<1>5. QED
    BY <1>4

=============================================================================

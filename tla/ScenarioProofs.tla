--------------------------- MODULE ScenarioProofs ---------------------------
(***************************************************************************)
(* What the scenario scripts achieve, for every graph that ends in a       *)
(* release: the metrics a run reports agree with its statuses, and a       *)
(* release that is reported completed was announced with its own report.   *)
(***************************************************************************)
EXTENDS ScenarioDriver, EngineFailureProofs

(* The engine's steps that a script takes: it approves what is pending,    *)
(* never rejects, and amends the spec only after a completed release.      *)
Scripted ==
    \/ Run \/ CallRun
    \/ \E n \in Nodes : Execute(n)
    \/ \E i \in DOMAIN requests :
        requests[i].status = "pending" /\ (Approve(i) \/ DecisionRaises(i, "approved"))
    \/ result = "completed" /\ \E f \in ReplanRoots : Amend(f)
    \/ UNCHANGED vars

(* Without rollback callables and rejecting callbacks nothing is rolled    *)
(* back, a cascade stays downstream of the node that failed, and a node    *)
(* that executes is not COMPLETED.                                         *)
CalmInv ==
    \A n \in Nodes :
        /\ statuses[n] # "rolled_back" /\ pc[n] # "rejecting"
        /\ todo[n] \union mark[n] \subseteq Downstream(n)
        /\ pc[n] \notin {"out", "failing"} => statuses[n] # "completed"

(* A FAILED node is not about to be skipped and waits for no decision, and *)
(* a completed run has none.                                               *)
FailedInv ==
    /\ \A n \in Nodes : statuses[n] = "failed" =>
           ~Open(n) /\ \A k \in Nodes : n \notin mark[k]
    /\ phase = "idle" /\ result = "completed" => \A n \in Nodes : statuses[n] # "failed"

(* An event that is not yet logged tells of a node that has ended as it    *)
(* says and is not executing; when there is none for a node that has       *)
(* ended, the metrics know how.                                            *)
AgreeInv ==
    /\ phase # "wave" => \A n \in Nodes : unsaid[n] = {}
    /\ \A n \in Nodes : \A e \in unsaid[n] :
           statuses[e.node] = e.outcome /\ pc[e.node] \in {"out", "failing"}
    /\ \A m \in Nodes : statuses[m] \in Terminal =>
           latest[m] = statuses[m] \/ \E n \in Nodes : \E e \in unsaid[n] : e.node = m

(* Only of nodes that are FAILED is a recovery open.                       *)
RecoveryInv == \A n \in failureOpen : n \in Nodes /\ statuses[n] = "failed"

(* When release_notification is COMPLETED, the webhook or the outbox holds *)
(* the report it was given.                                                *)
AnnouncedInv ==
    statuses["release_notification"] = "completed" =>
        inputs["release_notification"]["release_readiness"] \in {posted, written}

(* After a completed release every node is COMPLETED, until the script     *)
(* goes on.                                                                *)
AllDoneInv ==
    phase = "idle" /\ result = "completed" /\ script = "look"
        => \A n \in Nodes : statuses[n] = "completed"

RoundInv == round \in 1..Rounds

(* No undo action, no callback that raises or rejects, and a graph         *)
(* declared in dependency order, as in graphs.py and scenarios/.           *)
Plain ==
    /\ PlainCaller /\ DeclaredInOrder
    /\ Undoable = {} /\ MayRaise = {} /\ FALSE \notin AutoDecisions

USE DepGraphAssumption, EngineAssumption

USE DEF Done, NothingReady, Unpend, Register, MaySkip, UndoStatus, Revoke, LastAttempt,
        LastOutcome, Outbox, Granted, Decisions

-----------------------------------------------------------------------------
(* A script takes steps of the engine and of its caller.                   *)

(* The script counts its rounds up to Rounds.                              *)
LEMMA RoundStep == RoundInv /\ [ScriptNext]_allVars => RoundInv'
<1> SUFFICES ASSUME RoundInv, [ScriptNext]_allVars PROVE RoundInv'
    OBVIOUS
<1>1. round' = round \/ (round < Rounds /\ round' = round + 1)
    BY DEF ScriptNext, Loop, DriverExecute, Script, Asks, Approves, FailsToApprove, Resumes,
           Amends, Ends, allVars, scriptVars
<1>2. QED
    BY <1>1, RoundsAssumption DEF RoundInv

(* Every step of a script is one of the engine or of its caller.           *)
LEMMA ScriptSteps == RoundInv /\ [ScriptNext]_allVars => Scripted
<1> SUFFICES ASSUME RoundInv, [ScriptNext]_allVars PROVE Scripted
    OBVIOUS
<1>1. CASE Loop
    BY <1>1 DEF Loop, AuditedRunLoop, Scripted
<1>2. ASSUME NEW n \in Nodes, DriverExecute(n) PROVE Scripted
    <2>1. Execute(n) \/ UNCHANGED vars
        BY <1>2 DEF DriverExecute, Notify, Calls, Others, Checks, Cascades, Emit, FirstAttempt,
           Retry, AttemptSucceeds, FallbackSucceeds, GiveUp, Execute
    <2>2. QED
        BY <2>1 DEF Scripted
<1>3. CASE Script
    <2>1. CASE Amends
        <3>1. round < Rounds /\ result = "completed" /\ Amend("requirements")
            BY <2>1 DEF Amends
        <3>2. "requirements" \in ReplanRoots
            BY <3>1, RoundsAssumption, ScenarioAssumption DEF RoundInv
        <3>3. QED
            BY <3>1, <3>2 DEF Scripted
    <2>2. CASE Approves \/ FailsToApprove
        BY <2>2 DEF Approves, FailsToApprove, IsNext, Undecided, Scripted
    <2>3. QED
        BY <1>3, <2>1, <2>2 DEF Script, Asks, Resumes, Ends, Scripted
<1>4. CASE UNCHANGED allVars
    BY <1>4 DEF allVars, auditedVars, Scripted
<1>5. QED
    BY <1>1, <1>2, <1>3, <1>4 DEF ScriptNext

(* And such a step is one of Engine's Next, or leaves the engine alone.    *)
LEMMA ScriptedIsNext == Scripted => [Next]_vars
BY DEF Scripted, Next, Caller

(* Whatever a script does, the run it drives is a run of the engine.       *)
THEOREM ScriptsDriveTheEngine == ScriptSpec => Spec
<1>1. ScriptInit => Init /\ RoundInv
    BY RoundsAssumption DEF ScriptInit, AuditedInit, RoundInv
<1>2. RoundInv /\ [ScriptNext]_allVars => RoundInv' /\ [Next]_vars
    BY RoundStep, ScriptSteps, ScriptedIsNext
<1>3. QED
    BY <1>1, <1>2, PTL DEF ScriptSpec, Spec

-----------------------------------------------------------------------------
(* What the engine does for a script.                                      *)

(* Where nothing can be undone and nothing is rejected, no node is ever    *)
(* ROLLED_BACK.                                                            *)
LEMMA CalmStep ==
    Undoable = {} /\ FALSE \notin AutoDecisions /\ TypeOK /\ ThreadInv /\
    LoopInv /\ CalmInv /\ Scripted => CalmInv'
<1> SUFFICES ASSUME Undoable = {}, FALSE \notin AutoDecisions, TypeOK, ThreadInv,
                    LoopInv, CalmInv, Scripted
             PROVE  CalmInv'
    OBVIOUS
<1> USE DEF orchVars, storeVars, runVars, loopVars, TypeOK, CalmInv, LoopInv
<1>1. CASE StartWave
    BY <1>1 DEF StartWave, Ready, Runnable
<1>2. CASE EndWave
    BY <1>2 DEF EndWave
<1>3. CASE RunRaises
    BY <1>3 DEF RunRaises
<1>4. CASE Return
    BY <1>4, ReturnSkips DEF Terminal
<1>5. CASE CallRun
    BY <1>5 DEF CallRun
<1>6. ASSUME NEW i \in DOMAIN requests, Approve(i) PROVE CalmInv'
    <2>1. PICK v : v = requests[i].node
        OBVIOUS
    <2>2. /\ phase = "idle" /\ UNCHANGED <<pc, mark, todo>>
          /\ statuses' = [statuses EXCEPT ![v] = "pending"]
        BY <1>6, <2>1 DEF Approve, Decides
    <2>3. QED
        BY <2>2 DEF ThreadInv
<1>6a. ASSUME NEW i \in DOMAIN requests, DecisionRaises(i, "approved") PROVE CalmInv'
    BY <1>6a DEF DecisionRaises
<1>7. ASSUME result = "completed", NEW f \in ReplanRoots, Amend(f) PROVE CalmInv'
    <2>1. UNCHANGED <<pc, mark, todo>> /\ phase = "idle"
              /\ \A k \in Nodes : statuses'[k] \in {statuses[k], "stale"}
        BY <1>7 DEF Amend, AmendSpec, Invalidated
    <2>2. QED
        BY <2>1 DEF ThreadInv
<1>8. ASSUME NEW n \in Nodes, Execute(n) PROVE CalmInv'
    <2>1. CASE Start(n)
        BY <2>1 DEF Start
    <2>2. CASE GateFails(n)
        BY <2>2 DEF GateFails, BeginFailure
    <2>3. CASE GateRaises(n)
        BY <2>3 DEF GateRaises, Raise
    <2>4. CASE RequestApproval(n)
        BY <2>4 DEF RequestApproval
    <2>5. CASE RequestRaises(n)
        BY <2>5 DEF RequestRaises, Raise
    <2>6. CASE AutoApprove(n)
        BY <2>6 DEF AutoApprove
    <2>7. CASE AutoReject(n)
        BY <2>7 DEF AutoReject
    <2>7a. CASE AutoRaises(n)
        BY <2>7a DEF AutoRaises, Raise
    <2>8. CASE Park(n)
        BY <2>8 DEF Park
    <2>9. CASE BeginWork(n)
        BY <2>9 DEF BeginWork, MayBegin
    <2>10. CASE Complete(n)
        BY <2>10 DEF Complete, Put
    <2>11. CASE HandlerFails(n)
        BY <2>11 DEF HandlerFails, BeginFailure
    <2>12. CASE Undo(n)
        <3>1. UNCHANGED <<pc, mark, statuses, todo>>
            BY <2>12 DEF Undo
        <3>2. QED
            BY <3>1
    <2>13. CASE UndoRaises(n)
        BY <2>13 DEF UndoRaises, Raise
    <2>14. CASE EndFailure(n)
        BY <2>14 DEF EndFailure
    <2>15. ASSUME NEW m \in Nodes, CascadeCheck(n, m) PROVE CalmInv'
        BY <2>15 DEF CascadeCheck
    <2>16. ASSUME NEW m \in Nodes, CascadeSkip(n, m) PROVE CalmInv'
        BY <2>16 DEF CascadeSkip
    <2>17. QED
        BY <1>8, <2>1, <2>2, <2>3, <2>4, <2>5, <2>6, <2>7, <2>7a, <2>8,
           <2>9, <2>10, <2>11, <2>12, <2>13, <2>14, <2>15, <2>16 DEF Execute
<1>9. CASE UNCHANGED vars
    BY <1>9 DEF vars
<1>10. QED
    BY <1>1, <1>2, <1>3, <1>4, <1>5, <1>6, <1>6a, <1>7, <1>8, <1>9 DEF Scripted, Run

(* Nothing has happened yet.                                               *)
LEMMA CalmInit == Init => CalmInv
BY DEF Init, CalmInv

(* A step that fails no node and completes no run keeps what is failed, as  *)
(* long as it makes no request for it and picks it for no skip.            *)
LEMMA FailedFrame ==
    ASSUME FailedInv,
           phase' = "idle" /\ result' = "completed" => phase = "idle" /\ result = "completed",
           \A k \in Nodes : statuses'[k] = "failed" =>
               /\ statuses[k] = "failed" /\ (Open(k)' => Open(k))
               /\ \A j \in Nodes : k \in mark'[j] => k \in mark[j]
    PROVE  FailedInv'
BY DEF FailedInv

(* A node that fails in a wave, undecided and unmarked, may be FAILED.     *)
LEMMA FailureNoted ==
    ASSUME FailedInv, UNCHANGED <<requests, mark>>, phase' = "wave",
           NEW n \in Nodes, ~Open(n), \A j \in Nodes : n \notin mark[j],
           \A k \in Nodes : statuses'[k] = "failed" => k = n \/ statuses[k] = "failed"
    PROVE  FailedInv'
<1>1. \A k \in Nodes : Open(k)' => Open(k)
    BY DEF Open
<1>2. QED
    BY <1>1 DEF FailedInv

(* No step marks a FAILED node or asks for a decision on it.               *)
LEMMA FailedStep ==
    Undoable = {} /\ FALSE \notin AutoDecisions /\ TypeOK /\ ThreadInv /\
    OpenInv /\ ReworkInv /\ LoopInv /\ ExecInv /\ CalmInv /\ FailedInv /\
    Scripted => FailedInv'
<1> SUFFICES ASSUME Undoable = {}, FALSE \notin AutoDecisions, TypeOK, ThreadInv,
                    OpenInv, ReworkInv, LoopInv, ExecInv, CalmInv, FailedInv,
                    Scripted
             PROVE  FailedInv'
    OBVIOUS
<1> USE DEF orchVars, storeVars, runVars, loopVars, TypeOK
<1>1. CASE StartWave
    <2>1. phase' = "idle" /\ result' = "completed" => phase = "idle" /\ result = "completed"
        BY <1>1 DEF StartWave, ThreadInv
    <2>2. \A k \in Nodes : statuses'[k] = "failed" =>
              /\ statuses[k] = "failed" /\ (Open(k)' => Open(k))
              /\ \A j \in Nodes : k \in mark'[j] => k \in mark[j]
        BY <1>1 DEF StartWave, Open
    <2>3. QED
        BY <2>1, <2>2, FailedFrame
<1>2. CASE EndWave
    <2>1. phase' = "idle" /\ result' = "completed" => phase = "idle" /\ result = "completed"
        BY <1>2 DEF EndWave, ThreadInv
    <2>2. \A k \in Nodes : statuses'[k] = "failed" =>
              /\ statuses[k] = "failed" /\ (Open(k)' => Open(k))
              /\ \A j \in Nodes : k \in mark'[j] => k \in mark[j]
        BY <1>2 DEF EndWave, Open
    <2>3. QED
        BY <2>1, <2>2, FailedFrame
<1>3. CASE RunRaises
    <2>1. phase' = "idle" /\ result' = "completed" => phase = "idle" /\ result = "completed"
        BY <1>3 DEF RunRaises, ThreadInv
    <2>2. \A k \in Nodes : statuses'[k] = "failed" =>
              /\ statuses[k] = "failed" /\ (Open(k)' => Open(k))
              /\ \A j \in Nodes : k \in mark'[j] => k \in mark[j]
        BY <1>3 DEF RunRaises, Open
    <2>3. QED
        BY <2>1, <2>2, FailedFrame
<1>4. CASE Return
    <2>1. phase' = "idle" /\ result' = RunStatus(statuses')
        BY <1>4 DEF Return
    <2>2. \A k \in Nodes : statuses'[k] = "failed" => statuses[k] = "failed"
        BY <1>4, ReturnSkipsOpen
    <2>3. UNCHANGED <<requests, mark>>
        BY <1>4 DEF Return
    <2>4. result' = "completed" => \A k \in Nodes : statuses'[k] # "failed"
        BY <2>1 DEF RunStatus
    <2>5. QED
        BY <2>1, <2>2, <2>3, <2>4 DEF FailedInv, Open
<1>5. CASE CallRun
    <2>1. phase' = "idle" /\ result' = "completed" => phase = "idle" /\ result = "completed"
        BY <1>5 DEF CallRun, ThreadInv
    <2>2. \A k \in Nodes : statuses'[k] = "failed" =>
              /\ statuses[k] = "failed" /\ (Open(k)' => Open(k))
              /\ \A j \in Nodes : k \in mark'[j] => k \in mark[j]
        BY <1>5 DEF CallRun, Open
    <2>3. QED
        BY <2>1, <2>2, FailedFrame
<1>6. ASSUME NEW i \in DOMAIN requests, requests[i].status = "pending", Approve(i)
      PROVE  FailedInv'
    <2>1. PICK v : v = requests[i].node
        OBVIOUS
    <2>2. /\ phase = "idle" /\ UNCHANGED <<phase, result, mark>>
          /\ statuses' = [statuses EXCEPT ![v] = "pending"]
          /\ requests[i].status = "pending" /\ requests' = Decided(i, "approved")
        BY <1>6, <2>1 DEF Approve, Decides
    <2>3. \A k \in Nodes : Open(k)' => Open(k)
        BY <2>1, <2>2, DecidedCloses
    <2>4. QED
        BY <2>2, <2>3, FailedFrame
<1>6a. ASSUME NEW i \in DOMAIN requests, DecisionRaises(i, "approved") PROVE FailedInv'
    <2>1. \A k \in Nodes : Open(k)' => Open(k)
        BY <1>6a, DecisionRaisesOpen
    <2>2. UNCHANGED <<phase, result, statuses, mark>>
        BY <1>6a DEF DecisionRaises
    <2>3. QED
        BY <2>1, <2>2, FailedFrame
<1>7. ASSUME result = "completed", NEW f \in ReplanRoots, Amend(f) PROVE FailedInv'
    <2>1. /\ phase = "idle" /\ UNCHANGED <<phase, result, mark, requests>>
          /\ \A k \in Nodes : statuses'[k] \in {statuses[k], "stale"}
        BY <1>7 DEF Amend, AmendSpec, Invalidated
    <2>2. QED
        BY <2>1, FailedFrame DEF Open
<1>8. ASSUME NEW n \in Nodes, Execute(n) PROVE FailedInv'
    <2>1. CASE Start(n)
        <3>1. phase' = "idle" /\ result' = "completed" => phase = "idle" /\ result = "completed"
            BY <2>1 DEF Start, ThreadInv
        <3>2. \A k \in Nodes : statuses'[k] = "failed" =>
                  /\ statuses[k] = "failed" /\ (Open(k)' => Open(k))
                  /\ \A j \in Nodes : k \in mark'[j] => k \in mark[j]
            BY <2>1 DEF Start, Open
        <3>3. QED
            BY <3>1, <3>2, FailedFrame
    <2>2. CASE GateFails(n)
        <3>1. /\ phase = "wave" /\ UNCHANGED <<phase, requests, mark>> /\ pc[n] # "out"
              /\ statuses' = [statuses EXCEPT ![n] = "failed"]
            BY <2>2 DEF GateFails, BeginFailure, ThreadInv
        <3>2. ~Open(n)
            BY <3>1 DEF OpenInv, Live
        <3>3. \A j \in Nodes : n \notin mark[j]
            BY <3>1 DEF LoopInv, CalmInv, ReworkInv, Unsettled
        <3>4. \A k \in Nodes : statuses'[k] = "failed" => k = n \/ statuses[k] = "failed"
            BY <3>1
        <3>5. QED
            BY <3>1, <3>2, <3>3, <3>4, FailureNoted
    <2>3. CASE GateRaises(n)
        <3>1. phase' = "idle" /\ result' = "completed" => phase = "idle" /\ result = "completed"
            BY <2>3 DEF GateRaises, Raise, ThreadInv
        <3>2. \A k \in Nodes : statuses'[k] = "failed" =>
                  /\ statuses[k] = "failed" /\ (Open(k)' => Open(k))
                  /\ \A j \in Nodes : k \in mark'[j] => k \in mark[j]
            BY <2>3 DEF GateRaises, Raise, Open
        <3>3. QED
            BY <3>1, <3>2, FailedFrame
    <2>4. CASE RequestApproval(n)
        <3>1. /\ phase = "wave" /\ UNCHANGED <<phase, mark>> /\ statuses[n] # "failed"
              /\ \A k \in Nodes : k # n => statuses'[k] = statuses[k]
              /\ statuses'[n] # "failed"
              /\ requests \in Seq(ApprovalRequest)
            BY <2>4 DEF RequestApproval, ThreadInv, ExecInv
        <3>2. PICK v : requests' = Append(requests, Request(n, v))
            BY <2>4 DEF RequestApproval
        <3>3. \A k \in Nodes : Open(k)' => Open(k) \/ k = n
            BY <3>1, <3>2, OpenAppend
        <3>4. QED
            BY <3>1, <3>3, FailedFrame
    <2>5. CASE RequestRaises(n)
        <3>1. /\ phase = "wave" /\ UNCHANGED <<phase, mark>> /\ statuses[n] # "failed"
              /\ \A k \in Nodes : k # n => statuses'[k] = statuses[k]
              /\ statuses'[n] # "failed"
              /\ requests \in Seq(ApprovalRequest)
            BY <2>5 DEF RequestRaises, Raise, ThreadInv, ExecInv
        <3>2. PICK v : requests' = Append(requests, Request(n, v))
            BY <2>5 DEF RequestRaises, Raise
        <3>3. \A k \in Nodes : Open(k)' => Open(k) \/ k = n
            BY <3>1, <3>2, OpenAppend
        <3>4. QED
            BY <3>1, <3>3, FailedFrame
    <2>6. CASE AutoApprove(n)
        <3>1. /\ phase = "wave" /\ UNCHANGED <<phase, mark>> /\ statuses[n] # "failed"
              /\ \A k \in Nodes : k # n => statuses'[k] = statuses[k]
              /\ statuses'[n] # "failed"
              /\ requests \in Seq(ApprovalRequest)
            BY <2>6 DEF AutoApprove, ThreadInv, ExecInv
        <3>2. PICK v : requests' = Append(requests, Request(n, v))
            BY <2>6 DEF AutoApprove
        <3>3. \A k \in Nodes : Open(k)' => Open(k) \/ k = n
            BY <3>1, <3>2, OpenAppend
        <3>4. QED
            BY <3>1, <3>3, FailedFrame
    <2>7. CASE AutoReject(n)
        BY <2>7 DEF AutoReject
    <2>7a. CASE AutoRaises(n)
        <3>1. /\ phase = "wave" /\ UNCHANGED <<phase, mark>> /\ statuses[n] # "failed"
              /\ \A k \in Nodes : k # n => statuses'[k] = statuses[k]
              /\ statuses'[n] # "failed"
              /\ requests \in Seq(ApprovalRequest)
            BY <2>7a DEF AutoRaises, Raise, ThreadInv, ExecInv
        <3>2. PICK v : requests' = Append(requests, Request(n, v))
            BY <2>7a DEF AutoRaises, Raise
        <3>3. \A k \in Nodes : Open(k)' => Open(k) \/ k = n
            BY <3>1, <3>2, OpenAppend
        <3>4. QED
            BY <3>1, <3>3, FailedFrame
    <2>8. CASE Park(n)
        <3>1. phase' = "idle" /\ result' = "completed" => phase = "idle" /\ result = "completed"
            BY <2>8 DEF Park, ThreadInv
        <3>2. \A k \in Nodes : statuses'[k] = "failed" =>
                  /\ statuses[k] = "failed" /\ (Open(k)' => Open(k))
                  /\ \A j \in Nodes : k \in mark'[j] => k \in mark[j]
            BY <2>8 DEF Park, Open
        <3>3. QED
            BY <3>1, <3>2, FailedFrame
    <2>9. CASE BeginWork(n)
        <3>1. phase' = "idle" /\ result' = "completed" => phase = "idle" /\ result = "completed"
            BY <2>9 DEF BeginWork, MayBegin, ThreadInv
        <3>2. \A k \in Nodes : statuses'[k] = "failed" =>
                  /\ statuses[k] = "failed" /\ (Open(k)' => Open(k))
                  /\ \A j \in Nodes : k \in mark'[j] => k \in mark[j]
            BY <2>9 DEF BeginWork, MayBegin, Open
        <3>3. QED
            BY <3>1, <3>2, FailedFrame
    <2>10. CASE Complete(n)
        <3>1. phase' = "idle" /\ result' = "completed" => phase = "idle" /\ result = "completed"
            BY <2>10 DEF Complete, Put, ThreadInv
        <3>2. \A k \in Nodes : statuses'[k] = "failed" =>
                  /\ statuses[k] = "failed" /\ (Open(k)' => Open(k))
                  /\ \A j \in Nodes : k \in mark'[j] => k \in mark[j]
            BY <2>10 DEF Complete, Put, Open
        <3>3. QED
            BY <3>1, <3>2, FailedFrame
    <2>11. CASE HandlerFails(n)
        <3>1. /\ phase = "wave" /\ UNCHANGED <<phase, requests, mark>> /\ pc[n] # "out"
              /\ statuses' = [statuses EXCEPT ![n] = "failed"]
            BY <2>11 DEF HandlerFails, BeginFailure, ThreadInv
        <3>2. ~Open(n)
            BY <3>1 DEF OpenInv, Live
        <3>3. \A j \in Nodes : n \notin mark[j]
            BY <3>1 DEF LoopInv, CalmInv, ReworkInv, Unsettled
        <3>4. \A k \in Nodes : statuses'[k] = "failed" => k = n \/ statuses[k] = "failed"
            BY <3>1
        <3>5. QED
            BY <3>1, <3>2, <3>3, <3>4, FailureNoted
    <2>12. CASE Undo(n)
        <3>1. UNCHANGED <<statuses, requests, mark, phase, result>>
            BY <2>12 DEF Undo
        <3>2. QED
            BY <3>1, FailedFrame DEF Open
    <2>13. CASE UndoRaises(n)
        <3>1. phase' = "idle" /\ result' = "completed" => phase = "idle" /\ result = "completed"
            BY <2>13 DEF UndoRaises, Raise, ThreadInv
        <3>2. \A k \in Nodes : statuses'[k] = "failed" =>
                  /\ statuses[k] = "failed" /\ (Open(k)' => Open(k))
                  /\ \A j \in Nodes : k \in mark'[j] => k \in mark[j]
            BY <2>13 DEF UndoRaises, Raise, Open
        <3>3. QED
            BY <3>1, <3>2, FailedFrame
    <2>14. CASE EndFailure(n)
        <3>1. phase' = "idle" /\ result' = "completed" => phase = "idle" /\ result = "completed"
            BY <2>14 DEF EndFailure, ThreadInv
        <3>2. \A k \in Nodes : statuses'[k] = "failed" =>
                  /\ statuses[k] = "failed" /\ (Open(k)' => Open(k))
                  /\ \A j \in Nodes : k \in mark'[j] => k \in mark[j]
            BY <2>14 DEF EndFailure, Open
        <3>3. QED
            BY <3>1, <3>2, FailedFrame
    <2>15. ASSUME NEW m \in Nodes, CascadeCheck(n, m) PROVE FailedInv'
        <3>1. phase' = "idle" /\ result' = "completed" => phase = "idle" /\ result = "completed"
            BY <2>15 DEF CascadeCheck, ThreadInv
        <3>2. \A k \in Nodes : statuses'[k] = "failed" =>
                  /\ statuses[k] = "failed" /\ (Open(k)' => Open(k))
                  /\ \A j \in Nodes : k \in mark'[j] => k \in mark[j]
            BY <2>15 DEF CascadeCheck, Open, Terminal
        <3>3. QED
            BY <3>1, <3>2, FailedFrame
    <2>16. ASSUME NEW m \in Nodes, CascadeSkip(n, m) PROVE FailedInv'
        <3>1. phase' = "idle" /\ result' = "completed" => phase = "idle" /\ result = "completed"
            BY <2>16 DEF CascadeSkip, ThreadInv
        <3>2. \A k \in Nodes : statuses'[k] = "failed" =>
                  /\ statuses[k] = "failed" /\ (Open(k)' => Open(k))
                  /\ \A j \in Nodes : k \in mark'[j] => k \in mark[j]
            BY <2>16 DEF CascadeSkip, Open
        <3>3. QED
            BY <3>1, <3>2, FailedFrame
    <2>17. QED
        BY <1>8, <2>1, <2>2, <2>3, <2>4, <2>5, <2>6, <2>7, <2>7a, <2>8,
           <2>9, <2>10, <2>11, <2>12, <2>13, <2>14, <2>15, <2>16 DEF Execute
<1>9. CASE UNCHANGED vars
    <2>1. phase' = "idle" /\ result' = "completed" => phase = "idle" /\ result = "completed"
        BY <1>9 DEF vars, ThreadInv
    <2>2. \A k \in Nodes : statuses'[k] = "failed" =>
              /\ statuses[k] = "failed" /\ (Open(k)' => Open(k))
              /\ \A j \in Nodes : k \in mark'[j] => k \in mark[j]
        BY <1>9 DEF vars, Open
    <2>3. QED
        BY <2>1, <2>2, FailedFrame
<1>10. QED
    BY <1>1, <1>2, <1>3, <1>4, <1>5, <1>6, <1>6a, <1>7, <1>8, <1>9 DEF Scripted, Run

(* No node has FAILED yet.                                                 *)
LEMMA FailedInit == Init => FailedInv
BY DEF Init, FailedInv

-----------------------------------------------------------------------------
(* What a thread's step does to the attempts, the log and the reports.     *)

(* Of the reports only the notification's thread changes any.              *)
LEMMA DriverCases ==
    ASSUME NEW n \in Nodes, DriverExecute(n)
    PROVE  /\ UNCHANGED scriptVars
           /\ UNCHANGED releaseVars \/ (n = "release_notification" /\ Notify(n))
           /\ \/ Emit(n)
              \/ InTurn(n) /\ FirstAttempt(n)
              \/ InTurn(n) /\ Retry(n)
              \/ InTurn(n) /\ (AttemptSucceeds(n) \/ FallbackSucceeds(n))
              \/ InTurn(n) /\ GiveUp(n)
              \/ InTurn(n) /\ Checks(n) /\ UNCHANGED attempt
              \/ InTurn(n) /\ Cascades(n) /\ UNCHANGED attempt
BY DEF DriverExecute, Notify, Calls, Others

(* The attempts of n are counted while its handler works, and only then.   *)
AttemptMove(n) ==
    \/ attempt' = attempt /\ \A k \in Nodes : pc'[k] = "working" <=> pc[k] = "working"
    \/ /\ pc'[n] = "working" /\ attempt' = [attempt EXCEPT ![n] = 1]
       /\ \A k \in Nodes : k # n => pc'[k] = pc[k]
    \/ /\ pc[n] = "working" /\ pc' = pc
       /\ attempt[n] # MaxAttempts[n] /\ attempt' = [attempt EXCEPT ![n] = attempt[n] + 1]
    \/ /\ pc'[n] # "working" /\ attempt' = [attempt EXCEPT ![n] = 0]
       /\ \A k \in Nodes : k # n => pc'[k] = pc[k]

(* A thread changes the attempt of its own node only.                      *)
LEMMA AttemptMoves ==
    ASSUME TypeOK, NEW n \in Nodes, DriverExecute(n)
    PROVE  AttemptMove(n)
<1> USE DEF AttemptMove, TypeOK
<1>1. CASE Emit(n)
    BY <1>1 DEF Emit, vars
<1>2. CASE FirstAttempt(n)
    BY <1>2 DEF FirstAttempt, BeginWork
<1>3. CASE Retry(n)
    BY <1>3 DEF Retry, vars
<1>4. CASE AttemptSucceeds(n) \/ FallbackSucceeds(n)
    <2>1. pc' = [pc EXCEPT ![n] = "out"] /\ attempt' = [attempt EXCEPT ![n] = 0]
        BY <1>4 DEF AttemptSucceeds, FallbackSucceeds, Complete
    <2>2. QED
        BY <2>1
<1>5. CASE GiveUp(n)
    BY <1>5 DEF GiveUp, HandlerFails, BeginFailure
<1>6. CASE Checks(n) /\ UNCHANGED attempt
    <2>1. pc[n] # "working" /\ \E v \in PCs \ {"working"} : pc' = [pc EXCEPT ![n] = v]
        BY <1>6 DEF Checks, Start, GateFails, BeginFailure, AutoReject, GateRaises, Raise,
           RequestApproval, RequestRaises, AutoApprove, AutoRaises, Park, PCs
    <2>2. QED
        BY <1>6, <2>1
<1>7. CASE Cascades(n) /\ UNCHANGED attempt
    <2>1. pc' = pc \/ (pc[n] = "failing" /\ pc' = [pc EXCEPT ![n] = "out"])
        BY <1>7 DEF Cascades, CascadeSkip, CascadeCheck, Undo, UndoRaises, EndFailure, Raise
    <2>2. QED
        BY <1>7, <2>1
<1>8. QED
    BY <1>1, <1>2, <1>3, <1>4, <1>5, <1>6, <1>7, DriverCases

(* A thread emits its event, or leaves one to be emitted, or neither.      *)
LEMMA EventMoves ==
    ASSUME TypeOK, NEW n \in Nodes, DriverExecute(n)
    PROVE  \/ Emit(n)
           \/ UNCHANGED <<latest, failureOpen, unsaid>>
           \/ /\ UNCHANGED <<latest, failureOpen>>
              /\ \E e \in Event : unsaid' = [unsaid EXCEPT ![n] = {e}]
<1>1. ASSUME NEW m \in Nodes, NEW o \in Terminal, Says(n, m, o)
      PROVE  \E e \in Event : unsaid' = [unsaid EXCEPT ![n] = {e}]
    BY <1>1 DEF Says, Event
<1>2. {"completed", "failed", "skipped", "rolled_back"} \subseteq Terminal
    BY DEF Terminal
<1>3. CASE InTurn(n) /\ (FirstAttempt(n) \/ Retry(n))
    BY <1>3 DEF FirstAttempt, Retry, Silent, InTurn
<1>4. CASE InTurn(n) /\ (AttemptSucceeds(n) \/ FallbackSucceeds(n) \/ GiveUp(n))
    BY <1>1, <1>2, <1>4 DEF AttemptSucceeds, FallbackSucceeds, GiveUp, InTurn
<1>5. CASE InTurn(n) /\ Checks(n)
    BY <1>1, <1>2, <1>5 DEF Checks, Silent, InTurn
<1>6. CASE InTurn(n) /\ Cascades(n)
    <2>1. CASE Undo(n) /\ Head(undo[n]) \in registered /\ Says(n, Head(undo[n]), "rolled_back")
        <3>1. Head(undo[n]) \in Nodes
            BY <2>1, HeadTail DEF Undo, TypeOK
        <3>2. QED
            BY <1>1, <1>2, <1>6, <2>1, <3>1 DEF InTurn
    <2>2. QED
        BY <1>1, <1>2, <1>6, <2>1 DEF Cascades, Silent, InTurn
<1>7. QED
    BY <1>3, <1>4, <1>5, <1>6, DriverCases

-----------------------------------------------------------------------------
(* The types hold at first.                                                *)
LEMMA ScriptTypeInit == ScriptInit => ScriptTypeOK
<1> SUFFICES ASSUME ScriptInit PROVE ScriptTypeOK
    OBVIOUS
<1>1. \A n \in Nodes : MaxAttempts[n] \in Nat
    BY AttemptsAssumption
<1>2. QED
    BY <1>1, RoundsAssumption
       DEF ScriptInit, AuditedInit, Init, ScriptTypeOK, Event, Outcomes, Terminal

AttemptsOK ==
    /\ attempt \in [Nodes -> Nat]
    /\ \A n \in Nodes : attempt[n] <= MaxAttempts[n] /\ (attempt[n] > 0 <=> pc[n] = "working")

EventsOK ==
    /\ unsaid \in [Nodes -> SUBSET Event] /\ \A n \in Nodes : \A e, f \in unsaid[n] : e = f
    /\ latest \in [Nodes -> Outcomes]
    /\ failureOpen \subseteq Nodes

(* A thread that sets its attempt within the policy keeps the attempts.    *)
LEMMA AttemptSet ==
    ASSUME AttemptsOK, NEW n \in Nodes, NEW v \in Nat, v <= MaxAttempts[n],
           attempt' = [attempt EXCEPT ![n] = v], v > 0 <=> pc'[n] = "working",
           \A k \in Nodes : k # n => pc'[k] = pc[k]
    PROVE  AttemptsOK'
<1>1. attempt' \in [Nodes -> Nat] /\ attempt'[n] = v
    BY DEF AttemptsOK
<1>2. ASSUME NEW k \in Nodes, k # n PROVE attempt'[k] = attempt[k] /\ pc'[k] = pc[k]
    BY <1>2 DEF AttemptsOK
<1>3. ASSUME NEW k \in Nodes
      PROVE  attempt'[k] <= MaxAttempts[k] /\ (attempt'[k] > 0 <=> pc'[k] = "working")
    <2>1. CASE k = n
        BY <1>1, <2>1
    <2>2. CASE k # n
        BY <1>2, <2>2 DEF AttemptsOK
    <2>3. QED
        BY <2>1, <2>2
<1>4. QED
    BY <1>1, <1>3 DEF AttemptsOK

(* No step makes an attempt too many.                                      *)
LEMMA AttemptsStep ==
    TypeOK /\ ThreadInv /\ AttemptsOK /\ [ScriptNext]_allVars => AttemptsOK'
<1> SUFFICES ASSUME TypeOK, ThreadInv, AttemptsOK, [ScriptNext]_allVars PROVE AttemptsOK'
    OBVIOUS
<1>1. CASE Loop \/ Script \/ UNCHANGED allVars
    <2>1. UNCHANGED attempt
        BY <1>1 DEF Loop, AuditedRunLoop, Script, allVars, auditedVars, auditVars
    <2>2. \A n \in Nodes : pc'[n] = "working" <=> pc[n] = "working"
        <3>1. CASE StartWave
            BY <3>1 DEF StartWave, ThreadInv, TypeOK
        <3>2. pc' = pc \/ StartWave
            BY <1>1 DEF Loop, AuditedRunLoop, Script, Run, EndWave, RunRaises, Return,
               Asks, Approves, FailsToApprove, Resumes, Amends, Ends, CallRun, Approve,
               DecisionRaises, Amend, loopVars, allVars, auditedVars, vars
        <3>3. QED
            BY <3>1, <3>2
    <2>3. QED
        BY <2>1, <2>2 DEF AttemptsOK
<1>2. ASSUME NEW n \in Nodes, DriverExecute(n) PROVE AttemptsOK'
    <2>1. AttemptMove(n)
        BY <1>2, AttemptMoves
    <2>2. \A k \in Nodes : MaxAttempts[k] \in Nat \ {0}
        BY AttemptsAssumption
    <2>3. CASE /\ attempt' = attempt
               /\ \A k \in Nodes : pc'[k] = "working" <=> pc[k] = "working"
        BY <2>3 DEF AttemptsOK
    <2>4. CASE /\ pc'[n] = "working" /\ attempt' = [attempt EXCEPT ![n] = 1]
               /\ \A k \in Nodes : k # n => pc'[k] = pc[k]
        <3>1. 1 \in Nat /\ 1 <= MaxAttempts[n] /\ 1 > 0
            BY <2>2
        <3>2. QED
            BY <2>4, <3>1, AttemptSet
    <2>5. CASE /\ pc[n] = "working" /\ pc' = pc
               /\ attempt[n] # MaxAttempts[n] /\ attempt' = [attempt EXCEPT ![n] = attempt[n] + 1]
        <3>1. attempt[n] + 1 \in Nat /\ attempt[n] + 1 <= MaxAttempts[n] /\ attempt[n] + 1 > 0
            BY <2>2, <2>5 DEF AttemptsOK
        <3>2. QED
            BY <2>5, <3>1, AttemptSet
    <2>6. CASE /\ pc'[n] # "working" /\ attempt' = [attempt EXCEPT ![n] = 0]
               /\ \A k \in Nodes : k # n => pc'[k] = pc[k]
        <3>1. 0 \in Nat /\ 0 <= MaxAttempts[n] /\ ~(0 > 0)
            BY <2>2
        <3>2. QED
            BY <2>6, <3>1, AttemptSet
    <2>7. QED
        BY <2>1, <2>3, <2>4, <2>5, <2>6 DEF AttemptMove
<1>3. QED
    BY <1>1, <1>2 DEF ScriptNext

(* A thread owes the log one event at a time.                              *)
LEMMA EventsStep == TypeOK /\ EventsOK /\ [ScriptNext]_allVars => EventsOK'
<1> SUFFICES ASSUME TypeOK, EventsOK, [ScriptNext]_allVars PROVE EventsOK'
    OBVIOUS
<1>1. CASE Loop \/ Script
    <2>1. UNCHANGED <<unsaid, failureOpen>> /\ LoggedAtOnce
        BY <1>1 DEF Loop, AuditedRunLoop, Script
    <2>2. latest' \in [Nodes -> Outcomes]
        BY <2>1 DEF LoggedAtOnce, EventsOK, Outcomes
    <2>3. QED
        BY <2>1, <2>2 DEF EventsOK
<1>2. ASSUME NEW n \in Nodes, DriverExecute(n) PROVE EventsOK'
    <2>1. CASE Emit(n)
        <3>1. PICK e \in unsaid[n] :
                  /\ unsaid' = [unsaid EXCEPT ![n] = {}]
                  /\ latest' = [latest EXCEPT ![e.node] = e.outcome]
                  /\ failureOpen' = OpenAfter(e)
            BY <2>1 DEF Emit
        <3>2. e.node \in Nodes /\ e.outcome \in Outcomes
            BY DEF EventsOK, Event, Outcomes
        <3>3. failureOpen' \subseteq Nodes
            BY <3>1, <3>2 DEF OpenAfter, EventsOK
        <3>4. QED
            BY <3>1, <3>2, <3>3 DEF EventsOK
    <2>2. CASE UNCHANGED <<latest, failureOpen, unsaid>>
        BY <2>2 DEF EventsOK
    <2>3. ASSUME UNCHANGED <<latest, failureOpen>>, NEW e \in Event,
                 unsaid' = [unsaid EXCEPT ![n] = {e}]
          PROVE  EventsOK'
        BY <2>3 DEF EventsOK
    <2>4. QED
        BY <1>2, <2>1, <2>2, <2>3, EventMoves
<1>3. CASE UNCHANGED allVars
    BY <1>3 DEF allVars, auditedVars, auditVars, EventsOK
<1>4. QED
    BY <1>1, <1>2, <1>3 DEF ScriptNext

(* Every step of a script keeps the types.                                 *)
LEMMA ScriptTypeStep ==
    TypeOK /\ ThreadInv /\ ScriptTypeOK /\ [ScriptNext]_allVars => ScriptTypeOK'
<1> SUFFICES ASSUME TypeOK, ThreadInv, ScriptTypeOK, [ScriptNext]_allVars PROVE ScriptTypeOK'
    OBVIOUS
<1>1. AttemptsOK' /\ EventsOK'
    BY AttemptsStep, EventsStep DEF ScriptTypeOK, AttemptsOK, EventsOK
<1>2. round' \in 1..Rounds
    BY RoundStep DEF ScriptTypeOK, RoundInv
<1>3. script' \in {"call", "look", "end"}
    BY DEF ScriptTypeOK, ScriptNext, Loop, DriverExecute, Script, Asks, Approves,
       FailsToApprove, Resumes, Amends, Ends, allVars, scriptVars
<1>4. posted' \in Nat /\ written' \in Nat
    <2>1. Report \in Nat
        BY ScenarioAssumption DEF Report, TypeOK
    <2>2. posted' \in {posted, Report} /\ written' \in {written, Report}
        BY DEF ScriptNext, Loop, DriverExecute, Notify, MayHavePosted, Script, allVars, releaseVars
    <2>3. QED
        BY <2>1, <2>2 DEF ScriptTypeOK
<1>5. QED
    BY <1>1, <1>2, <1>3, <1>4 DEF ScriptTypeOK, AttemptsOK, EventsOK

(* In every scenario attempts are counted while a handler works and never  *)
(* exceed what the retry policy allows, a thread has one event at a time   *)
(* on its way to the log, and the script keeps to its rounds               *)
(* (reliability.py:51-65, audit.py:58-71).                                 *)
THEOREM ScriptTypeCorrect == ScriptSpec => []ScriptTypeOK
<1> DEFINE I == TypeOK /\ ThreadInv /\ ScriptTypeOK
<1>1. ScriptInit => I
    BY TypeInit, ThreadInit, ScriptTypeInit DEF ScriptInit, AuditedInit
<1>2. I /\ [ScriptNext]_allVars => I'
    <2> SUFFICES ASSUME I, [ScriptNext]_allVars PROVE I'
        OBVIOUS
    <2>1. [Next]_vars
        BY ScriptSteps, ScriptedIsNext DEF ScriptTypeOK, RoundInv
    <2>2. QED
        BY <2>1, TypeStep, ThreadStep, ScriptTypeStep
<1>3. QED
    BY <1>1, <1>2, PTL DEF ScriptSpec

-----------------------------------------------------------------------------
(* The metrics and the statuses.                                           *)

(* While events are on their way, no step changes what they tell of: it    *)
(* changes nothing, moves a node that executes and has not ended, or ends  *)
(* one the way the event it leaves behind says.                            *)
Settled(m) == pc[m] \in {"out", "failing"}

Quietly ==
    /\ UNCHANGED <<unsaid, latest, phase>>
    /\ \A m \in Nodes :
        /\ statuses'[m] = statuses[m] \/ (~Settled(m) /\ statuses'[m] \notin Terminal)
        /\ Settled(m) => Settled(m)'

Outspoken(n) ==
    \E m \in Nodes : \E o \in Terminal :
        /\ Says(n, m, o) /\ unsaid[n] = {} /\ UNCHANGED <<latest, phase>> /\ phase = "wave"
        /\ statuses' = [statuses EXCEPT ![m] = o]
        /\ ~Settled(m) \/ statuses[m] \notin Terminal \ {o}
        /\ Settled(m)' /\ \A k \in Nodes : Settled(k) => Settled(k)'

(* A thread's step logs an event, ends no node, or ends one and owes its   *)
(* event.                                                                  *)
LEMMA AgreeMoves ==
    ASSUME Undoable = {}, FALSE \notin AutoDecisions, TypeOK, ThreadInv, ReworkInv, LoopInv,
           CalmInv, FailedInv, NEW n \in Nodes, DriverExecute(n)
    PROVE  Emit(n) \/ Quietly \/ Outspoken(n)
<1> USE DEF TypeOK, InTurn, Settled
<1>1. {"completed", "failed", "skipped", "rolled_back"} \subseteq Terminal
    BY DEF Terminal
<1>2. \A k \in Nodes : pc[k] # "out" => phase = "wave"
    BY DEF ThreadInv
<1>3. CASE InTurn(n) /\ FirstAttempt(n)
    BY <1>3 DEF FirstAttempt, BeginWork, Silent, Quietly, orchVars, runVars, MayBegin
<1>4. CASE InTurn(n) /\ Retry(n)
    BY <1>4 DEF Retry, Silent, Quietly, vars, orchVars, runVars
<1>5. CASE InTurn(n) /\ (AttemptSucceeds(n) \/ FallbackSucceeds(n))
    <2>1. /\ pc[n] = "working" /\ pc' = [pc EXCEPT ![n] = "out"] /\ UNCHANGED <<latest, phase>>
          /\ statuses' = [statuses EXCEPT ![n] = "completed"]
          /\ Says(n, n, "completed") /\ unsaid[n] = {}
        BY <1>5 DEF AttemptSucceeds, FallbackSucceeds, Complete, runVars
    <2>2. QED
        BY <1>1, <1>2, <2>1 DEF Outspoken
<1>6. CASE InTurn(n) /\ GiveUp(n)
    BY <1>1, <1>2, <1>6 DEF GiveUp, HandlerFails, BeginFailure, Outspoken, runVars
<1>7. CASE InTurn(n) /\ Checks(n)
    <2>1. CASE Start(n) /\ Silent
        BY <1>7, <2>1 DEF Start, Silent, Quietly, runVars, Terminal
    <2>2. CASE GateFails(n) /\ Says(n, n, "failed")
        BY <1>1, <1>2, <1>7, <2>2 DEF GateFails, BeginFailure, Outspoken, runVars
    <2>3. CASE (GateRaises(n) \/ RequestRaises(n) \/ AutoRaises(n)) /\ Silent
        BY <1>7, <2>3 DEF GateRaises, RequestRaises, AutoRaises, Raise, Silent, Quietly, orchVars
    <2>4. CASE (RequestApproval(n) \/ AutoApprove(n)) /\ Silent
        <3>1. PICK p \in {"out", "cleared"}, v \in {"awaiting_approval", "pending"} :
                  /\ pc[n] = "started" /\ UNCHANGED <<unsaid, latest, phase>>
                  /\ pc' = [pc EXCEPT ![n] = p]
                  /\ statuses' = [statuses EXCEPT ![n] = v]
            BY <1>7, <2>4 DEF RequestApproval, AutoApprove, Silent, runVars
        <3>2. \A k \in Nodes : k # n => statuses'[k] = statuses[k] /\ pc'[k] = pc[k]
            BY <3>1
        <3>3. statuses'[n] \notin Terminal
            BY <3>1 DEF Terminal
        <3>4. QED
            BY <3>1, <3>2, <3>3 DEF Quietly
    <2>5. CASE AutoReject(n) \/ Park(n)
        BY <2>5 DEF AutoReject, Park, CalmInv
    <2>6. QED
        BY <1>7, <2>1, <2>2, <2>3, <2>4, <2>5 DEF Checks
<1>8. CASE InTurn(n) /\ Cascades(n)
    <2>1. ASSUME NEW m \in Nodes, CascadeSkip(n, m), Says(n, m, "skipped") PROVE Outspoken(n)
        <3>1. /\ m \in mark[n] /\ UNCHANGED <<pc, phase>>
              /\ statuses' = [statuses EXCEPT ![m] = "skipped"]
            BY <2>1 DEF CascadeSkip, runVars
        <3>2. pc[n] # "out" /\ m \in Downstream(n)
            BY <3>1 DEF LoopInv, CalmInv
        <3>3. pc[m] = "out" /\ statuses[m] \notin {"completed", "failed", "rolled_back"}
            BY <3>1, <3>2 DEF ReworkInv, Unsettled, CalmInv, FailedInv
        <3>4. QED
            BY <1>1, <1>2, <1>8, <2>1, <3>1, <3>2, <3>3 DEF Outspoken, Terminal
    <2>2. ASSUME NEW m \in Nodes, CascadeCheck(n, m), Silent PROVE Quietly
        BY <1>8, <2>2 DEF CascadeCheck, Silent, Quietly, orchVars, runVars
    <2>3. CASE Undo(n) /\ (IF Head(undo[n]) \in registered
                           THEN Says(n, Head(undo[n]), "rolled_back") ELSE Silent)
        BY <1>8, <2>3 DEF Undo, Silent, Quietly, runVars
    <2>4. CASE (UndoRaises(n) \/ EndFailure(n)) /\ Silent
        BY <1>8, <2>4 DEF UndoRaises, EndFailure, Raise, Silent, Quietly, orchVars
    <2>5. QED
        BY <1>8, <2>1, <2>2, <2>3, <2>4 DEF Cascades
<1>9. QED
    BY <1>3, <1>4, <1>5, <1>6, <1>7, <1>8, DriverCases

(* Nothing has ended and nothing is owed yet.                              *)
LEMMA AgreeInit == ScriptInit => AgreeInv
BY DEF ScriptInit, AuditedInit, Init, AgreeInv, Terminal

(* In the caller's thread every event is logged with its status.           *)
LEMMA AgreeAlone ==
    ASSUME ScriptTypeOK, AgreeInv, LoggedAtOnce, UNCHANGED unsaid,
           \A n \in Nodes : unsaid[n] = {}
    PROVE  AgreeInv'
<1>1. \A m \in Nodes : statuses'[m] \in Terminal => latest'[m] = statuses'[m]
    BY DEF LoggedAtOnce, AgreeInv
<1>2. QED
    BY <1>1 DEF AgreeInv

(* Each of these keeps the events and the statuses in step.                *)
LEMMA AgreeStep ==
    /\ Undoable = {} /\ FALSE \notin AutoDecisions
    /\ TypeOK /\ ThreadInv /\ ReworkInv /\ LoopInv /\ CalmInv /\ FailedInv
    /\ ScriptTypeOK /\ AgreeInv /\ [ScriptNext]_allVars
    => AgreeInv'
<1> SUFFICES ASSUME Undoable = {}, FALSE \notin AutoDecisions, TypeOK, ThreadInv, ReworkInv,
                    LoopInv, CalmInv, FailedInv, ScriptTypeOK, AgreeInv, [ScriptNext]_allVars
             PROVE  AgreeInv'
    OBVIOUS
<1>1. CASE Loop
    BY <1>1, AgreeAlone DEF Loop, AuditedRunLoop, auditVars
<1>2. CASE Script
    <2>1. phase = "idle"
        BY <1>2 DEF Script, Asks, CallRun, Approves, Approve, FailsToApprove, DecisionRaises,
           Decides, Resumes, Amends, Amend, Ends
    <2>2. QED
        BY <1>2, <2>1, AgreeAlone DEF Script, AgreeInv
<1>3. ASSUME NEW n \in Nodes, DriverExecute(n) PROVE AgreeInv'
    <2>1. CASE Emit(n)
        <3>1. PICK e \in unsaid[n] :
                  /\ unsaid' = [unsaid EXCEPT ![n] = {}]
                  /\ latest' = [latest EXCEPT ![e.node] = e.outcome]
                  /\ UNCHANGED <<statuses, pc, phase>>
            BY <2>1 DEF Emit, vars, orchVars, runVars
        <3>2. e.node \in Nodes /\ e.outcome = statuses[e.node] /\ \A f \in unsaid[n] : f = e
            BY DEF ScriptTypeOK, Event, AgreeInv
        <3>3. /\ unsaid'[n] = {} /\ \A k \in Nodes : k # n => unsaid'[k] = unsaid[k]
              /\ latest'[e.node] = statuses[e.node]
              /\ \A m \in Nodes : m # e.node => latest'[m] = latest[m]
            BY <3>1, <3>2 DEF ScriptTypeOK
        <3>4. ASSUME NEW m \in Nodes, statuses[m] \in Terminal, latest'[m] # statuses[m]
              PROVE  \E k \in Nodes : \E f \in unsaid'[k] : f.node = m
            <4>1. m # e.node /\ latest[m] # statuses[m]
                BY <3>3, <3>4
            <4>2. PICK k \in Nodes : \E f \in unsaid[k] : f.node = m
                BY <3>4, <4>1 DEF AgreeInv
            <4>3. k # n
                BY <3>2, <4>1, <4>2
            <4>4. QED
                BY <3>3, <4>2, <4>3
        <3>5. QED
            BY <3>1, <3>3, <3>4 DEF AgreeInv
    <2>2. CASE Quietly
        <3>1. \A k \in Nodes : \A e \in unsaid[k] : e.node \in Nodes
            BY DEF ScriptTypeOK, Event
        <3>2. QED
            BY <2>2, <3>1 DEF Quietly, AgreeInv, Settled
    <2>3. ASSUME Outspoken(n) PROVE AgreeInv'
        <3>1. PICK m \in Nodes, o \in Terminal :
                  /\ Says(n, m, o) /\ unsaid[n] = {} /\ UNCHANGED <<latest, phase>> /\ phase = "wave"
                  /\ statuses' = [statuses EXCEPT ![m] = o]
                  /\ ~Settled(m) \/ statuses[m] \notin Terminal \ {o}
                  /\ Settled(m)' /\ \A k \in Nodes : Settled(k) => Settled(k)'
            BY <2>3 DEF Outspoken
        <3>2. DEFINE v == [node |-> m, outcome |-> o]
        <3>3. /\ unsaid'[n] = {v} /\ \A k \in Nodes : k # n => unsaid'[k] = unsaid[k]
              /\ statuses'[m] = o /\ \A k \in Nodes : k # m => statuses'[k] = statuses[k]
            BY <3>1 DEF ScriptTypeOK, TypeOK, Says
        <3>4. \A k \in Nodes : \A e \in unsaid[k] :
                  /\ e.node \in Nodes /\ e.outcome \in Terminal
                  /\ statuses[e.node] = e.outcome /\ Settled(e.node)
            BY DEF ScriptTypeOK, Event, AgreeInv, Settled
        <3>5. v.node = m /\ v.outcome = o
            OBVIOUS
        <3> HIDE DEF v
        <3>6. ASSUME NEW k \in Nodes, NEW e \in unsaid'[k]
              PROVE  statuses'[e.node] = e.outcome /\ Settled(e.node)'
            <4>1. CASE k = n
                BY <3>1, <3>3, <3>5, <3>6, <4>1
            <4>2. CASE k # n
                BY <3>1, <3>3, <3>4, <3>6, <4>2
            <4>3. QED
                BY <4>1, <4>2
        <3>7. ASSUME NEW k \in Nodes, statuses'[k] \in Terminal, latest'[k] # statuses'[k]
              PROVE  \E j \in Nodes : \E e \in unsaid'[j] : e.node = k
            <4>1. CASE k = m
                BY <3>3, <3>5, <4>1
            <4>2. CASE k # m
                <5>1. PICK j \in Nodes : \E e \in unsaid[j] : e.node = k
                    BY <3>1, <3>3, <3>7, <4>2 DEF AgreeInv
                <5>2. j # n
                    BY <3>1, <5>1
                <5>3. QED
                    BY <3>3, <5>1, <5>2
            <4>3. QED
                BY <4>1, <4>2
        <3>8. QED
            BY <3>1, <3>6, <3>7 DEF AgreeInv, Settled
    <2>4. QED
        BY <1>3, <2>1, <2>2, <2>3, AgreeMoves
<1>4. CASE UNCHANGED allVars
    BY <1>4 DEF allVars, auditedVars, auditVars, vars, orchVars, runVars, AgreeInv
<1>5. QED
    BY <1>1, <1>2, <1>3, <1>4 DEF ScriptNext

(* Between runs only the caller takes steps.                               *)
LEMMA IdleSteps ==
    ASSUME ThreadInv, LoopInv, Scripted, phase = "idle"
    PROVE  \/ UNCHANGED vars \/ CallRun
           \/ \E i \in DOMAIN requests :
               requests[i].status = "pending" /\ (Approve(i) \/ DecisionRaises(i, "approved"))
           \/ result = "completed" /\ \E f \in ReplanRoots : Amend(f)
<1>1. ~Run
    BY DEF Run, StartWave, EndWave, RunRaises, Return
<1>2. ASSUME NEW n \in Nodes, Execute(n) PROVE FALSE
    <2>1. pc[n] = "out" /\ todo[n] = {} /\ mark[n] = {}
        BY DEF ThreadInv, LoopInv
    <2>2. QED
        BY <1>2, <2>1 DEF Execute, Start, GateFails, GateRaises, RequestApproval, RequestRaises,
           AutoApprove, AutoReject, AutoRaises, Park, BeginWork, MayBegin, Complete,
           HandlerFails, CascadeCheck, CascadeSkip, Undo, UndoRaises, EndFailure
<1>3. QED
    BY <1>1, <1>2 DEF Scripted

(* A node that FAILED stays so until a completed release is re-planned.    *)
LEMMA FailedStays ==
    ASSUME TypeOK, ThreadInv, OpenInv, LoopInv, ExecInv, BrokenInv, FailedInv, Scripted,
           NEW n \in Nodes, statuses[n] = "failed"
    PROVE  statuses'[n] = "failed"
<1>1. CASE phase # "idle"
    <2>1. Safe(n)
        BY DEF Safe, FailedInv
    <2>2. QED
        BY <1>1, <2>1, ScriptedIsNext, SafeStep DEF SafeStays, Safe
<1>2. CASE phase = "idle"
    <2>1. ASSUME NEW i \in DOMAIN requests, requests[i].status = "pending", Approve(i)
          PROVE  statuses'[n] = "failed"
        <3>1. PICK v : v = requests[i].node
            OBVIOUS
        <3>2. /\ statuses' = [statuses EXCEPT ![v] = "pending"]
              /\ requests[i].status = "pending" /\ requests' = Decided(i, "approved")
            BY <2>1, <3>1 DEF Approve, Decides
        <3>3. Open(v)
            BY <3>1, <3>2, DecidedCloses
        <3>4. QED
            BY <3>2, <3>3 DEF FailedInv, TypeOK
    <2>2. CASE result = "completed"
        BY <1>2, <2>2 DEF FailedInv
    <2>3. QED
        BY <1>2, <2>1, <2>2, IdleSteps DEF CallRun, DecisionRaises, vars, orchVars
<1>3. QED
    BY <1>1, <1>2

(* No recovery is open yet.                                                *)
LEMMA RecoveryInit == ScriptInit => RecoveryInv
BY DEF ScriptInit, AuditedInit, RecoveryInv

(* A recovery is opened by the event of a FAILED node and closed by no     *)
(* other.                                                                  *)
LEMMA RecoveryStep ==
    /\ TypeOK /\ ThreadInv /\ OpenInv /\ LoopInv /\ ExecInv /\ BrokenInv /\ FailedInv
    /\ ScriptTypeOK /\ AgreeInv /\ RecoveryInv /\ [ScriptNext]_allVars
    => RecoveryInv'
<1> SUFFICES ASSUME TypeOK, ThreadInv, OpenInv, LoopInv, ExecInv, BrokenInv, FailedInv,
                    ScriptTypeOK, AgreeInv, RecoveryInv, [ScriptNext]_allVars
             PROVE  RecoveryInv'
    OBVIOUS
<1>1. Scripted
    BY ScriptSteps DEF ScriptTypeOK, RoundInv
<1>2. CASE UNCHANGED failureOpen
    BY <1>1, <1>2, FailedStays DEF RecoveryInv
<1>3. ASSUME NEW n \in Nodes, Emit(n) PROVE RecoveryInv'
    <2>1. PICK e \in unsaid[n] : failureOpen' = OpenAfter(e) /\ UNCHANGED statuses
        BY <1>3 DEF Emit, vars, orchVars
    <2>2. e.node \in Nodes /\ statuses[e.node] = e.outcome
        BY DEF ScriptTypeOK, Event, AgreeInv
    <2>3. QED
        BY <2>1, <2>2 DEF OpenAfter, RecoveryInv
<1>4. UNCHANGED failureOpen \/ \E n \in Nodes : Emit(n)
    BY EventMoves DEF ScriptNext, Loop, AuditedRunLoop, Script, allVars, auditedVars, auditVars
<1>5. QED
    BY <1>2, <1>3, <1>4

-----------------------------------------------------------------------------
(* All of this together.                                                   *)

ScriptBase ==
    /\ FailureBase /\ CalmInv /\ FailedInv
    /\ ScriptTypeOK /\ AgreeInv /\ RecoveryInv

(* The invariants of a plain scenario hold at first ...                    *)
LEMMA ScriptBaseInit == ScriptInit => ScriptBase
BY BaseInit, CalmInit, FailedInit, ScriptTypeInit, AgreeInit, RecoveryInit
   DEF ScriptBase, ScriptInit, AuditedInit

(* ... and every step of its script keeps them.                            *)
LEMMA ScriptBaseStep == Plain /\ ScriptBase /\ [ScriptNext]_allVars => ScriptBase'
<1> SUFFICES ASSUME Plain, ScriptBase, [ScriptNext]_allVars PROVE ScriptBase'
    OBVIOUS
<1> USE DEF Plain, ScriptBase, FailureBase
<1>1. Scripted /\ [Next]_vars
    BY ScriptSteps, ScriptedIsNext DEF ScriptTypeOK, RoundInv
<1>2. FailureBase'
    BY <1>1, BaseStep
<1>3. CalmInv' /\ FailedInv'
    BY <1>1, CalmStep, FailedStep
<1>4. ScriptTypeOK' /\ AgreeInv' /\ RecoveryInv'
    BY ScriptTypeStep, AgreeStep, RecoveryStep
<1>5. QED
    BY <1>2, <1>3, <1>4

(* In a scenario without undo actions and raising or rejecting callbacks,  *)
(* whatever order its threads write statuses and emit events in, the       *)
(* metrics of a run that completes or fails count every node under the     *)
(* status it has, and after a completed one no recovery is open            *)
(* (metrics.py:48, engine.py:118-119).                                     *)
THEOREM MetricsAgreeWithStatuses == Plain /\ ScriptSpec => MetricsAgree
<1> DEFINE Settle == phase # "idle" /\ phase' = "idle" /\ result' \in {"completed", "failed"}
                         => \A n \in Nodes : statuses'[n] \in Terminal
           Agree == phase # "idle" /\ phase' = "idle" /\ result' \in {"completed", "failed"}
                        => /\ latest' = statuses'
                           /\ result' = "completed" => failureOpen' = {}
<1>1. Plain /\ ScriptSpec => [][Settle]_vars
    BY ScriptsDriveTheEngine, RunsSettle DEF Plain, RunSettlesEveryNode
<1>2. ScriptBase' /\ [Settle]_vars => [Agree]_allVars
    <2> SUFFICES ASSUME ScriptBase', [Settle]_vars, phase # "idle", phase' = "idle",
                        result' \in {"completed", "failed"}
                 PROVE  Agree
        OBVIOUS
    <2>1. \A n \in Nodes : statuses'[n] \in Terminal
        BY DEF vars, runVars
    <2>2. \A n \in Nodes : latest'[n] = statuses'[n]
        BY <2>1 DEF ScriptBase, AgreeInv
    <2>3. latest' = statuses'
        BY <2>2 DEF ScriptBase, ScriptTypeOK, FailureBase, TypeOK
    <2>4. result' = "completed" => failureOpen' = {}
        BY DEF ScriptBase, RecoveryInv, FailedInv
    <2>5. QED
        BY <2>3, <2>4
<1>3. CASE Plain
    <2> HIDE DEF Settle, Agree
    <2>1. ScriptSpec => [][Agree]_allVars
        BY <1>1, <1>2, <1>3, ScriptBaseInit, ScriptBaseStep, PTL DEF ScriptSpec
    <2>2. QED
        BY <2>1 DEF Agree, MetricsAgree
<1>4. QED
    BY <1>3

-----------------------------------------------------------------------------
(* What is announced.                                                      *)

(* The notification is not COMPLETED yet.                                  *)
LEMMA AnnouncedInit == ScriptInit => AnnouncedInv
BY ScenarioAssumption DEF ScriptInit, AuditedInit, Init, AnnouncedInv

(* The notification completes only after its report was posted or written. *)
LEMMA AnnouncedStep ==
    TypeOK /\ BarrierInv /\ CalmInv /\ AnnouncedInv /\ [ScriptNext]_allVars => AnnouncedInv'
<1> SUFFICES ASSUME TypeOK, BarrierInv, CalmInv, AnnouncedInv, [ScriptNext]_allVars
             PROVE  AnnouncedInv'
    OBVIOUS
<1> DEFINE rn == "release_notification"
           rr == "release_readiness"
<1>1. rn \in Nodes /\ rr \in Nodes /\ rr \in DependsOn[rn]
    BY ScenarioAssumption
<1> HIDE DEF rn, rr
<1>2. AnnouncedInv <=> (statuses[rn] = "completed" => inputs[rn][rr] \in {posted, written})
    BY DEF AnnouncedInv, rn, rr
<1>3. AnnouncedInv' <=> (statuses'[rn] = "completed" => inputs'[rn][rr] \in {posted', written'})
    BY DEF AnnouncedInv, rn, rr
<1>4. CASE /\ UNCHANGED releaseVars
           /\ statuses'[rn] = "completed" => statuses[rn] = "completed" /\ inputs'[rn] = inputs[rn]
    BY <1>2, <1>3, <1>4 DEF releaseVars
<1>5. CASE Loop
    <2>1. UNCHANGED releaseVars /\ inputs' = inputs
        BY <1>5 DEF Loop, AuditedRunLoop, Run, StartWave, EndWave, RunRaises, Return, storeVars
    <2>2. statuses'[rn] \in {statuses[rn], "skipped"}
        BY <1>1, <1>5, ReturnSkips
        DEF Loop, AuditedRunLoop, Run, StartWave, EndWave, RunRaises, orchVars
    <2>3. QED
        BY <1>4, <2>1, <2>2
<1>6. CASE Script
    <2>1. UNCHANGED releaseVars /\ inputs' = inputs
        BY <1>6 DEF Script, Asks, Approves, FailsToApprove, Resumes, Amends, Ends, CallRun,
           Approve, DecisionRaises, Amend, storeVars, vars
    <2>2. statuses'[rn] \in {statuses[rn], "pending", "stale"}
        <3>1. CASE Asks \/ FailsToApprove \/ Resumes \/ Ends
            BY <3>1 DEF Asks, FailsToApprove, DecisionRaises, Resumes, Ends, CallRun, vars,
               orchVars
        <3>2. CASE Approves
            <4>1. PICK k : statuses' = [statuses EXCEPT ![k] = "pending"]
                BY <3>2 DEF Approves, Approve
            <4>2. QED
                BY <1>1, <4>1 DEF TypeOK
        <3>3. CASE Amends
            BY <1>1, <3>3 DEF Amends, Amend
        <3>4. QED
            BY <1>6, <3>1, <3>2, <3>3 DEF Script
    <2>3. QED
        BY <1>4, <2>1, <2>2
<1>7. CASE UNCHANGED allVars
    BY <1>4, <1>7 DEF allVars, auditedVars, vars, orchVars, storeVars
<1>8. ASSUME NEW n \in Nodes, n # rn, Calls(n), UNCHANGED releaseVars PROVE AnnouncedInv'
    <2>1. statuses'[rn] = statuses[rn] /\ inputs'[rn] = inputs[rn]
        BY <1>1, <1>8 DEF Calls, Retry, AttemptSucceeds, FallbackSucceeds, GiveUp, Complete, Put,
           HandlerFails, BeginFailure, vars, orchVars, storeVars, TypeOK
    <2>2. QED
        BY <1>4, <1>8, <2>1
<1>9. ASSUME NEW n \in Nodes, Others(n), UNCHANGED releaseVars PROVE AnnouncedInv'
    <2>1. inputs' = inputs
        BY <1>9 DEF Others, Emit, FirstAttempt, BeginWork, Checks, Cascades, Start, GateFails,
           BeginFailure, AutoReject, GateRaises, RequestApproval, RequestRaises, AutoApprove,
           AutoRaises, Park, CascadeSkip, CascadeCheck, Undo, UndoRaises, EndFailure, vars, storeVars
    <2>2. statuses'[rn] = "completed" => statuses[rn] = "completed"
        <3>1. CASE Emit(n) \/ FirstAttempt(n)
            BY <3>1 DEF Emit, FirstAttempt, BeginWork, vars, orchVars
        <3>2. ASSUME NEW k, NEW v, v # "completed", statuses' = [statuses EXCEPT ![k] = v]
              PROVE  statuses'[rn] = "completed" => statuses[rn] = "completed"
            BY <1>1, <3>2 DEF TypeOK
        <3>3. CASE Checks(n)
            <4>1. \/ statuses' = statuses
                  \/ \E v \in {"running", "failed", "rolled_back", "awaiting_approval", "pending"} :
                         statuses' = [statuses EXCEPT ![n] = v]
                BY <3>3 DEF Checks, Start, GateFails, BeginFailure, AutoReject, GateRaises,
                   RequestApproval, RequestRaises, AutoApprove, AutoRaises, Park, orchVars
            <4>2. QED
                BY <3>2, <4>1
        <3>4. CASE Cascades(n)
            <4>1. \/ statuses' = statuses
                  \/ \E m \in Nodes : statuses' = [statuses EXCEPT ![m] = "skipped"]
                  \/ statuses' = [statuses EXCEPT ![Head(undo[n])] = "rolled_back"]
                BY <3>4 DEF Cascades, CascadeSkip, CascadeCheck, Undo, UndoRaises, EndFailure,
                   orchVars
            <4>2. QED
                BY <3>2, <4>1
        <3>5. QED
            BY <1>9, <3>1, <3>3, <3>4 DEF Others
    <2>3. QED
        BY <1>4, <1>9, <2>1, <2>2
<1>10. CASE Notify(rn)
    <2>1. Report = version[rr]
        BY DEF Report, rr
    <2>2. ASSUME pc[rn] = "working" PROVE read[rn][rr] = version[rr] /\ statuses[rn] # "completed"
        BY <1>1, <2>2 DEF BarrierInv, CalmInv
    <2>3. CASE AttemptSucceeds(rn) /\ posted' = Report
        BY <1>1, <1>3, <2>1, <2>2, <2>3 DEF AttemptSucceeds, Complete, Put, TypeOK
    <2>4. CASE FallbackSucceeds(rn) /\ written' = Outbox
        BY <1>1, <1>3, <2>1, <2>2, <2>4 DEF FallbackSucceeds, Complete, Put, TypeOK
    <2>5. CASE Retry(rn)
        BY <1>3, <2>2, <2>5 DEF Retry, vars, orchVars
    <2>6. CASE GiveUp(rn)
        BY <1>1, <1>3, <2>6 DEF GiveUp, HandlerFails, BeginFailure, TypeOK
    <2>7. QED
        BY <1>10, <2>3, <2>4, <2>5, <2>6 DEF Notify
<1>11. ASSUME NEW n \in Nodes, DriverExecute(n) PROVE AnnouncedInv'
    BY <1>8, <1>9, <1>10, <1>11 DEF DriverExecute, rn
<1>12. QED
    BY <1>5, <1>6, <1>7, <1>11 DEF ScriptNext

(* A script re-plans only after a completed release, in which no node      *)
(* failed or was rolled back.                                              *)
LEMMA ScriptsRetryNothing ==
    ASSUME ScriptBase, [ScriptNext]_allVars
    PROVE  NoRetry
<1> USE DEF ScriptBase, FailureBase
<1> SUFFICES ASSUME NEW f \in ReplanRoots, Amend(f) PROVE ~Bad(f)
    BY DEF NoRetry
<1>1. phase = "idle" /\ specVersion' = specVersion + 1 /\ specVersion \in Nat
    BY DEF Amend, AmendSpec, TypeOK
<1>2. specVersion' # specVersion
    BY <1>1
<1>3. result = "completed"
    BY <1>1, <1>2, ScriptSteps, IdleSteps
    DEF ScriptTypeOK, RoundInv, CallRun, Approve, DecisionRaises, vars, runVars
<1>4. QED
    BY <1>1, <1>3 DEF FailedInv, CalmInv, Bad

(* No run has returned yet.                                                *)
LEMMA AllDoneInit == ScriptInit => AllDoneInv
BY DEF ScriptInit, AuditedInit, Init, AllDoneInv

(* A completed run has settled every node, none failed, so none is skipped.*)
LEMMA AllDoneStep ==
    ASSUME ScriptBase, ScriptBase', SkippedHasCause', AllDoneInv, [ScriptNext]_allVars,
           phase # "idle" /\ phase' = "idle" /\ result' = "completed"
               => \A n \in Nodes : statuses'[n] \in Terminal
    PROVE  AllDoneInv'
<1> USE DEF ScriptBase, FailureBase
<1> SUFFICES ASSUME phase' = "idle", result' = "completed", script' = "look",
                    NEW n \in Nodes
             PROVE  statuses'[n] = "completed"
    BY DEF AllDoneInv
<1>1. CASE phase # "idle"
    <2>1. statuses'[n] \in Terminal
        BY <1>1
    <2>2. \A k \in Nodes : statuses'[k] \notin {"failed", "rolled_back"}
        BY DEF FailedInv, CalmInv
    <2>3. statuses'[n] # "skipped"
        BY <2>2 DEF SkippedHasCause
    <2>4. QED
        BY <2>1, <2>2, <2>3 DEF Terminal
<1>2. CASE phase = "idle"
    <2>1. CASE UNCHANGED <<vars, script>>
        BY <1>2, <2>1 DEF AllDoneInv, vars, orchVars, runVars
    <2>2. CASE Script
        BY <2>1, <2>2 DEF Script, Asks, CallRun, Approves, Approve, FailsToApprove, Resumes,
           Amends, Ends, runVars
    <2>3. CASE Loop
        BY <1>2, <2>3 DEF Loop, AuditedRunLoop, Run, StartWave, EndWave, RunRaises, Return
    <2>4. ASSUME NEW k \in Nodes, DriverExecute(k) PROVE UNCHANGED <<vars, script>>
        <3>1. pc[k] = "out" /\ todo[k] = {} /\ mark[k] = {}
            BY <1>2 DEF ThreadInv, LoopInv
        <3>2. UNCHANGED script
            BY <2>4 DEF DriverExecute, scriptVars
        <3>3. Emit(k)
            BY <2>4, <3>1, DriverCases DEF FirstAttempt, BeginWork, MayBegin, Retry,
               AttemptSucceeds, FallbackSucceeds, GiveUp, Complete, HandlerFails, Checks, Start,
               GateFails, AutoReject, GateRaises, RequestApproval, RequestRaises, AutoApprove,
               AutoRaises, Park, Cascades, CascadeSkip, CascadeCheck, Undo, UndoRaises, EndFailure
        <3>4. QED
            BY <3>2, <3>3 DEF Emit
    <2>5. QED
        BY <2>1, <2>2, <2>3, <2>4 DEF ScriptNext, allVars, auditedVars, scriptVars
<1>3. QED
    BY <1>1, <1>2

(* In such a scenario a release that is reported completed was announced   *)
(* with the report of this release: the webhook or the outbox holds it,    *)
(* however often the release was amended, retried or re-planned            *)
(* (agents.py:489-508).                                                    *)
THEOREM NotificationsAreCurrent == Plain /\ ScriptSpec => []NotificationCurrent
<1> DEFINE Settle == phase # "idle" /\ phase' = "idle" /\ result' \in {"completed", "failed"}
                         => \A n \in Nodes : statuses'[n] \in Terminal
           I == ScriptBase /\ BarrierInv /\ AnnouncedInv
           A == AllDoneInv
           S == SkippedHasCause
<1>1. Plain /\ ScriptSpec => [][Settle]_vars
    BY ScriptsDriveTheEngine, RunsSettle DEF Plain, RunSettlesEveryNode
<1>2. Plain /\ ScriptSpec => []LineageFresh
    BY ScriptsDriveTheEngine, LineageCorrect DEF Plain
<1>3. ScriptInit => I /\ A
    BY ScriptBaseInit, BarrierInit, AnnouncedInit, AllDoneInit DEF ScriptInit, AuditedInit
<1>4. Plain /\ I /\ [ScriptNext]_allVars => I'
    <2> SUFFICES ASSUME Plain, I, [ScriptNext]_allVars PROVE I'
        OBVIOUS
    <2>1. [Next]_vars
        BY ScriptSteps, ScriptedIsNext DEF ScriptBase, ScriptTypeOK, RoundInv
    <2>2. BarrierInv'
        BY <2>1, BarrierStep DEF ScriptBase, FailureBase
    <2>3. QED
        BY <2>2, ScriptBaseStep, AnnouncedStep DEF ScriptBase, FailureBase
<1>5. I /\ [ScriptNext]_allVars => [NoRetry]_vars
    BY ScriptsRetryNothing
<1>6. CASE Plain
    <2>1. PlainCaller /\ FALSE \notin AutoDecisions
        BY <1>6 DEF Plain
    <2>2. Spec /\ [][NoRetry]_vars => []S
        BY <2>1, SkippedNodesHaveCause
    <2>3. I /\ I' /\ S' /\ A /\ [Settle]_vars /\ [ScriptNext]_allVars => A'
        <3> SUFFICES ASSUME I, I', S', A, [Settle]_vars, [ScriptNext]_allVars PROVE A'
            OBVIOUS
        <3>1. phase # "idle" /\ phase' = "idle" /\ result' = "completed"
                  => \A n \in Nodes : statuses'[n] \in Terminal
            BY DEF vars, runVars
        <3>2. QED
            BY <3>1, AllDoneStep
    <2>4. I /\ A /\ LineageFresh => NotificationCurrent
        <3> SUFFICES ASSUME I, A, LineageFresh, phase = "idle", result = "completed", script = "look"
                     PROVE  version["release_readiness"] \in {posted, written} \ {0}
            BY DEF NotificationCurrent
        <3>1. /\ statuses["release_notification"] = "completed"
              /\ statuses["release_readiness"] = "completed"
            BY ScenarioAssumption DEF AllDoneInv
        <3>2. inputs["release_notification"]["release_readiness"] = version["release_readiness"]
            BY <3>1, ScenarioAssumption DEF LineageFresh
        <3>3. version["release_readiness"] >= 1
            BY <3>1, ScenarioAssumption DEF BarrierInv
        <3>4. QED
            BY <3>1, <3>2, <3>3 DEF AnnouncedInv
    <2> HIDE DEF Settle, I, A, S
    <2>5. QED
        BY <1>1, <1>2, <1>3, <1>4, <1>5, <1>6, <2>2, <2>3, <2>4, ScriptsDriveTheEngine, PTL
           DEF ScriptSpec
<1>7. QED
    BY <1>6

=============================================================================

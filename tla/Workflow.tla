------------------------------ MODULE Workflow ------------------------------
(***************************************************************************)
(* What an orchestrator run promises, without its statuses, waves, threads *)
(* and approval requests: executions of nodes that begin and end.  One     *)
(* begins only on finished outputs nobody is replacing, and only while     *)
(* nobody is working with the output it will replace; what it produces was *)
(* computed from the outputs that are current when it is stored; and where *)
(* a human must agree, every execution uses up one agreement.              *)
(***************************************************************************)
EXTENDS DepGraph

CONSTANT RequiresApproval  \* nodes that need an agreement for each execution

VARIABLES
    working,  \* the nodes that are executing
    version,  \* the version of each node's output, 0 while there is none
    inputs,   \* for each output the versions it was computed from
    granted   \* the agreements no execution has used

vars == <<working, version, inputs, granted>>

Init ==
    /\ working = {}
    /\ version = [n \in Nodes |-> 0]
    /\ inputs = [n \in Nodes |-> [d \in DependsOn[n] |-> 0]]
    /\ granted = [n \in RequiresApproval |-> 0]

Agree(n) ==
    /\ granted' = [granted EXCEPT ![n] = @ + 1]
    /\ UNCHANGED <<working, version, inputs>>

UseAgreement(n) ==
    IF n \in RequiresApproval
    THEN granted[n] > 0 /\ granted' = [granted EXCEPT ![n] = @ - 1]
    ELSE granted' = granted

Begin(n) ==
    /\ n \notin working
    /\ \A d \in DependsOn[n] : d \notin working /\ version[d] > 0
    /\ Dependents(n) \intersect working = {}
    /\ UseAgreement(n)
    /\ working' = working \union {n}
    /\ UNCHANGED <<version, inputs>>

Finish(n) ==
    /\ n \in working
    /\ version' = [version EXCEPT ![n] = @ + 1]
    /\ inputs' = [inputs EXCEPT ![n] = [d \in DependsOn[n] |-> version[d]]]
    /\ working' = working \ {n}
    /\ UNCHANGED granted

Abandon(n) ==
    /\ n \in working
    /\ working' = working \ {n}
    /\ UNCHANGED <<version, inputs, granted>>

Next ==
    \/ \E n \in RequiresApproval : Agree(n)
    \/ \E n \in Nodes : Begin(n) \/ Finish(n) \/ Abandon(n)

Spec == Init /\ [][Next]_vars

(* What begins ends. *)
FairSpec == Spec /\ \A n \in Nodes : WF_vars(Finish(n) \/ Abandon(n))

=============================================================================

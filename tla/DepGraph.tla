------------------------------ MODULE DepGraph ------------------------------
(***************************************************************************)
(* The dependency graph an orchestrator run is driven by                   *)
(* (orchestrator/graph.py, class Graph): the nodes, in the order they were *)
(* declared, and what each depends on.  The graph never changes during a   *)
(* run, so everything here is constant.  How reachable_from computes its   *)
(* answer with a stack is a matter of its own; this module says which set  *)
(* it returns.                                                             *)
(***************************************************************************)
EXTENDS Integers, FiniteSets

CONSTANTS
    Nodes,      \* the node ids
    DependsOn,  \* Node.depends_on, per node
    Position    \* the place of each node in the dict Graph.nodes

ASSUME DepGraphAssumption ==
    /\ IsFiniteSet(Nodes)
    /\ DependsOn \in [Nodes -> SUBSET Nodes]
    /\ Position \in [Nodes -> Nat]
    /\ \A m, n \in Nodes : Position[m] = Position[n] => m = n

(* _dependents_map inverts depends_on. *)
Dependents(n) == {m \in Nodes : n \in DependsOn[m]}

ClosedUnderDependents(S) == \A n \in S : Dependents(n) \subseteq S

(* reachable_from: n and everything that transitively depends on it, the   *)
(* least set that contains n and is closed under dependents.               *)
ReachableFrom ==
    [n \in Nodes |->
        {m \in Nodes : \A S \in SUBSET Nodes :
                           n \in S /\ ClosedUnderDependents(S) => m \in S}]

Downstream(n) == ReachableFrom[n] \ {n}

(* Graph._validate refuses a graph with a cycle: no dependency of a node   *)
(* is downstream of it.                                                    *)
ASSUME Acyclic ==
    \A n \in Nodes : \A d \in DependsOn[n] : d \notin ReachableFrom[n]

=============================================================================

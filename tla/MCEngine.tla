------------------------------ MODULE MCEngine ------------------------------
(***************************************************************************)
(* Small graphs for the engine, besides those of module Scenarios.  The    *)
(* nodes keep the names they have in orchestrator/graphs.py.               *)
(***************************************************************************)
EXTENDS EngineProperties, Scenarios

(* implementation, the two verification nodes that run in parallel, and    *)
(* the release they gate: the tail of every scenario graph.  Here the      *)
(* implementation has a rollback callable, as in test_engine_core.py.      *)
VNodes == {"implementation", "testing", "policy_scan", "release_readiness"}
VDependsOn ==
    [n \in VNodes |->
        CASE n = "implementation" -> {}
          [] n \in {"testing", "policy_scan"} -> {"implementation"}
          [] n = "release_readiness" -> {"testing", "policy_scan"}]
VPosition ==
    [n \in VNodes |->
        CASE n = "implementation" -> 1 [] n = "testing" -> 2
          [] n = "policy_scan" -> 3    [] n = "release_readiness" -> 4]
VRollback ==
    [n \in VNodes |-> IF n = "testing" THEN <<"implementation">> ELSE <<>>]

(* A chain and three nodes in one wave, two of which undo parts of the     *)
(* chain when they fail.                                                   *)
WNodes == {"design", "implementation", "unit", "load", "scan", "release"}
WDependsOn ==
    [n \in WNodes |->
        CASE n = "design" -> {}
          [] n = "implementation" -> {"design"}
          [] n \in {"unit", "load", "scan"} -> {"implementation"}
          [] n = "release" -> {"unit", "load", "scan"}]
WPosition ==
    [n \in WNodes |->
        CASE n = "design" -> 1 [] n = "implementation" -> 2 [] n = "unit" -> 3
          [] n = "load" -> 4   [] n = "scan" -> 5           [] n = "release" -> 6]
WRollback ==
    [n \in WNodes |->
        CASE n = "unit" -> <<"implementation", "design">>
          [] n = "load" -> <<"implementation">>
          [] OTHER -> <<>>]
=============================================================================

----------------------------- MODULE Scenarios -----------------------------
(***************************************************************************)
(* The workflow graphs of the three scenarios (orchestrator/graphs.py), one *)
(* of which an orchestrator run is made for.  They share a tail: what is    *)
(* agreed is designed and implemented, verified twice in parallel,          *)
(* documented, reviewed and announced.                                      *)
(***************************************************************************)
EXTENDS Integers, SequencesExt

Tail3 == <<"documentation", "release_readiness", "release_notification">>

Work == <<"design", "implementation", "testing", "policy_scan">> \o Tail3

(* The nodes in declared order.                                            *)
GreenfieldOrder == <<"requirements">> \o Work

BrownfieldOrder ==
    <<"requirements", "change_control_review", "dependency_health_check">> \o Work

AmbiguousOrder == <<"requirements", "scope_confirmation">> \o Work

PositionIn(order) ==
    [n \in Range(order) |-> CHOOSE i \in DOMAIN order : order[i] = n]

(* A node depends on the one before it; the two verification nodes on the  *)
(* implementation, and the documentation waits for both.                   *)
ChainOf(order) ==
    [n \in Range(order) |->
        CASE n = "requirements" -> {}
          [] n \in {"testing", "policy_scan"} -> {"implementation"}
          [] n = "documentation" -> {"testing", "policy_scan"}
          [] OTHER -> {order[PositionIn(order)[n] - 1]}]

GreenfieldDependsOn == ChainOf(GreenfieldOrder)
BrownfieldDependsOn == ChainOf(BrownfieldOrder)

-----------------------------------------------------------------------------
(* build_ambiguous_graph: a scope confirmation before any work and a       *)
(* release review.                                                         *)
AmbiguousNodes == Range(AmbiguousOrder)

AmbiguousPosition == PositionIn(AmbiguousOrder)

AmbiguousDependsOn == ChainOf(AmbiguousOrder)

AmbiguousRollback ==
    [n \in AmbiguousNodes |-> IF n = "testing" THEN <<"implementation">> ELSE <<>>]

AmbiguousApprovals == {"scope_confirmation", "release_readiness"}

(* No node of a scenario has a rollback callable. *)
AmbiguousUndoable == {}

AmbiguousGated == {"implementation"}

AmbiguousSafeStops == {"requirements"}

=============================================================================

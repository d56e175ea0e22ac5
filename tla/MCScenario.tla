----------------------------- MODULE MCScenario -----------------------------
(***************************************************************************)
(* The script of run_ambiguous.py on the graph of its scenario.  How often *)
(* a node is tried is set in orchestrator/graphs.py.                       *)
(***************************************************************************)
EXTENDS ScenarioDriver, MCEngine

Attempts ==
    [n \in Nodes |->
        CASE n \in {"testing", "release_notification"} -> 1
          [] n = "implementation" -> 2
          [] OTHER -> 3]

(* What the theorems about scripts assume of a graph is so in all three    *)
(* scenarios: nodes are declared after what they depend on, and what is    *)
(* announced is the report of the node before.                             *)
ASSUME ScenarioGraphs ==
    \A order \in {GreenfieldOrder, BrownfieldOrder, AmbiguousOrder} :
        /\ \A n \in Range(order) : \A d \in ChainOf(order)[n] :
               PositionIn(order)[d] < PositionIn(order)[n]
        /\ "release_readiness" \in ChainOf(order)["release_notification"]

=============================================================================

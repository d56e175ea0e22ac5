------------------------- MODULE MCGraphAlgorithms -------------------------
(***************************************************************************)
(* Every graph on three nodes whose lists have up to two entries, an       *)
(* unknown name and repetitions included, and the graphs of the scenarios. *)
(***************************************************************************)
EXTENDS GraphAlgorithms, Scenarios

Letters == {"a", "b", "c"}

Lists == UNION {[1..k -> Letters \union {"ghost"}] : k \in 0..2}

ScenarioGraphs ==
    {[n \in DOMAIN deps |-> SetToSeq(deps[n])] :
        deps \in {GreenfieldDependsOn, BrownfieldDependsOn, AmbiguousDependsOn}}

AllNames == Letters \union {"ghost"} \union Range(BrownfieldOrder \o AmbiguousOrder)

AllGraphs == [Letters -> Lists] \union ScenarioGraphs
=============================================================================

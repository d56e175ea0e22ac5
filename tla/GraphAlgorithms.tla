-------------------------- MODULE GraphAlgorithms --------------------------
(***************************************************************************)
(* How class Graph (orchestrator/graph.py) computes what module DepGraph   *)
(* takes for granted: _validate, which refuses a graph with a cycle, and,  *)
(* on a graph it has accepted, reachable_from and topological_waves.       *)
(*                                                                         *)
(* A behaviour builds one of Graphs and calls one of the two methods; an   *)
(* iteration of a loop is a step.  The stack of reachable_from is the list *)
(* it is, repetitions included; the queue of _validate never holds a node  *)
(* twice and is a set of which any element may be popped next.  In which   *)
(* order a node's dependents are pushed is left open: no answer may depend *)
(* on it.                                                                  *)
(***************************************************************************)
EXTENDS Integers, FiniteSets, Sequences, Functions, SequencesExt

CONSTANTS
    Names,  \* what a depends_on list may name
    Graphs  \* the graphs: for every node its depends_on list

ASSUME GraphsAssumption ==
    \A g \in Graphs : IsFiniteSet(DOMAIN g) /\ g \in [DOMAIN g -> Seq(Names)]

VARIABLES
    dependsOn,  \* Graph.nodes, with depends_on of each
    phase,      \* the loop that runs, or how the last one ended
    inDegree,   \* in_degree in _validate
    queue,      \* queue in _validate
    visited,    \* visited in _validate
    taken,      \* the nodes that were popped from queue
    origin,     \* the argument of reachable_from, in a set
    stack,      \* stack in reachable_from
    seen,       \* seen in reachable_from
    waves,      \* waves in topological_waves, each as a set
    remaining   \* remaining in topological_waves

kahnVars == <<inDegree, queue, visited, taken>>
reachVars == <<origin, stack, seen>>
waveVars == <<waves, remaining>>
vars == <<dependsOn, phase, kahnVars, reachVars, waveVars>>

Phases == {"new", "kahn", "refused", "accepted", "reach", "reached", "wave",
           "layered", "raised"}

Nodes == DOMAIN dependsOn

(* Where d stands in the list of m: _dependents_map adds m to the          *)
(* dependents of d once for each.                                          *)
Entries(m, d) == {i \in DOMAIN dependsOn[m] : dependsOn[m][i] = d}

Dependents(n) == {m \in Nodes : Entries(m, n) # {}}

-----------------------------------------------------------------------------
Init ==
    /\ dependsOn \in Graphs
    /\ phase = "new"
    /\ inDegree = [n \in Nodes |-> 0]
    /\ queue = {} /\ visited = 0 /\ taken = {}
    /\ origin = {} /\ stack = <<>> /\ seen = {}
    /\ waves = <<>> /\ remaining = {}

(* A name that is no node: ValueError. *)
UnknownDependency ==
    \E n \in Nodes : \E i \in DOMAIN dependsOn[n] : dependsOn[n][i] \notin Nodes

RefuseUnknown ==
    /\ phase = "new"
    /\ UnknownDependency
    /\ phase' = "refused"
    /\ UNCHANGED <<dependsOn, kahnVars, reachVars, waveVars>>

(* A mistake: a dependency listed twice is counted once.                   *)
NamesListed(n) == Cardinality({dependsOn[n][i] : i \in DOMAIN dependsOn[n]})

InDegree(n) == Len(dependsOn[n])

StartKahn ==
    /\ phase = "new"
    /\ ~UnknownDependency
    /\ inDegree' = [n \in Nodes |-> InDegree(n)]
    /\ queue' = {n \in Nodes : inDegree'[n] = 0}
    /\ phase' = "kahn"
    /\ UNCHANGED <<dependsOn, visited, taken, reachVars, waveVars>>

(* n is popped, and every dependent whose last open entry it was follows.  *)
Pop(n) ==
    /\ phase = "kahn"
    /\ n \in queue
    /\ visited' = visited + 1
    /\ taken' = taken \union {n}
    /\ inDegree' = [m \in Nodes |-> inDegree[m] - Cardinality(Entries(m, n))]
    /\ queue' = (queue \ {n}) \union {m \in Dependents(n) : inDegree'[m] = 0}
    /\ UNCHANGED <<dependsOn, phase, reachVars, waveVars>>

VisitedSome == visited # 0  \* a mistake: to be content with a part of the graph

VisitedAll == visited = Cardinality(Nodes)

EndKahn ==
    /\ phase = "kahn"
    /\ queue = {}
    /\ phase' = IF VisitedAll THEN "accepted" ELSE "refused"
    /\ UNCHANGED <<dependsOn, kahnVars, reachVars, waveVars>>

-----------------------------------------------------------------------------
(* reachable_from(n) *)
CallReachable(n) ==
    /\ phase = "accepted"
    /\ phase' = "reach"
    /\ origin' = {n}
    /\ stack' = <<n>>
    /\ UNCHANGED <<dependsOn, kahnVars, seen, waveVars>>

Peeked == stack  \* a mistake: to look at the top and leave it there

Popped == Front(stack)

(* _dependents_map lists a dependent once for each entry it has for n.     *)
Listed(n) == UNION {{m} \X Entries(m, n) : m \in Nodes}

Orders(S) == {[k \in DOMAIN o |-> o[k][1]] : o \in Bijection(1..Cardinality(S), S)}

DirectOnly(n) ==  \* a mistake: to stop at the direct dependents
    IF n \in origin THEN Orders(Listed(n)) ELSE {<<>>}

Pushed(n) == Orders(Listed(n))

Visit ==
    /\ phase = "reach"
    /\ stack # <<>>
    /\ IF Last(stack) \in seen
       THEN stack' = Popped /\ seen' = seen
       ELSE /\ \E more \in Pushed(Last(stack)) : stack' = Popped \o more
            /\ seen' = seen \union {Last(stack)}
    /\ UNCHANGED <<dependsOn, phase, kahnVars, origin, waveVars>>

EndReachable ==
    /\ phase = "reach"
    /\ stack = <<>>
    /\ phase' = "reached"
    /\ UNCHANGED <<dependsOn, kahnVars, reachVars, waveVars>>

-----------------------------------------------------------------------------
(* topological_waves() *)
CallWaves ==
    /\ phase = "accepted"
    /\ phase' = "wave"
    /\ remaining' = Nodes
    /\ UNCHANGED <<dependsOn, kahnVars, reachVars, waves>>

(* ready_nodes with every node COMPLETED that is in an earlier wave. *)
ReadyByOne ==  \* a mistake: one finished dependency is enough
    {n \in remaining :
        \/ dependsOn[n] = <<>>
        \/ \E i \in DOMAIN dependsOn[n] : dependsOn[n][i] \notin remaining}

Ready ==
    {n \in remaining : \A i \in DOMAIN dependsOn[n] : dependsOn[n][i] \notin remaining}

NextWave ==
    /\ phase = "wave"
    /\ Ready # {}
    /\ waves' = Append(waves, Ready)
    /\ remaining' = remaining \ Ready
    /\ UNCHANGED <<dependsOn, phase, kahnVars, reachVars>>

EndWaves ==
    /\ phase = "wave"
    /\ Ready = {}
    /\ phase' = IF remaining = {} THEN "layered" ELSE "raised"
    /\ UNCHANGED <<dependsOn, kahnVars, reachVars, waveVars>>

-----------------------------------------------------------------------------
Validate == RefuseUnknown \/ StartKahn \/ (\E n \in Nodes : Pop(n)) \/ EndKahn

Reachable == Visit \/ EndReachable

Waves == NextWave \/ EndWaves

Next ==
    \/ Validate
    \/ \E n \in Nodes : CallReachable(n)
    \/ Reachable
    \/ CallWaves
    \/ Waves

Spec == Init /\ [][Next]_vars

(* A loop that has begun is carried on. *)
FairSpec == Spec /\ WF_vars(Validate) /\ WF_vars(Reachable) /\ WF_vars(Waves)

-----------------------------------------------------------------------------
(* What DepGraph says of a graph, here of the one that is built.           *)

Closed(S) == \A n \in S : Dependents(n) \subseteq S

ReachableFrom(n) ==
    {m \in Nodes : \A S \in SUBSET Nodes : n \in S /\ Closed(S) => m \in S}

Cyclic ==
    \E n \in Nodes : \E i \in DOMAIN dependsOn[n] : dependsOn[n][i] \in ReachableFrom(n)

(* The loops keep their types: every popped node is counted once and only  *)
(* nodes are pushed (graph.py:79-91, 120-127).                             *)
TypeOK ==
    /\ dependsOn \in Graphs
    /\ phase \in Phases
    /\ inDegree \in [Nodes -> Nat]
    /\ queue \subseteq Nodes
    /\ visited \in Nat
    /\ taken \subseteq Nodes
    /\ origin \subseteq Nodes
    /\ stack \in Seq(Nodes)
    /\ seen \subseteq Nodes
    /\ waves \in Seq(SUBSET Nodes)
    /\ remaining \subseteq Nodes

AcceptedIsAcyclic == phase = "accepted" => ~UnknownDependency /\ ~Cyclic

RefusedHasReason == phase = "refused" => UnknownDependency \/ Cyclic

(* A graph that is accepted has no unknown dependency and no cycle, and    *)
(* none is refused for another reason, also when a node lists a dependency *)
(* more than once (graph.py:73-91).                                        *)
ValidateExact == AcceptedIsAcyclic /\ RefusedHasReason

(* reachable_from returns what a re-plan must invalidate and a failure     *)
(* must skip: the least set that holds the node and all dependents of what *)
(* it holds (graph.py:114-127).                                            *)
ReachableExact ==
    phase = "reached" => \A n \in origin : seen = ReachableFrom(n)

(* topological_waves never finds itself stuck on an accepted graph, puts   *)
(* every node into one wave, and each as early as its dependencies allow   *)
(* (graph.py:129-145).                                                     *)
WaveOf(n) == {k \in DOMAIN waves : n \in waves[k]}

WavesAreLayers ==
    /\ phase # "raised"
    /\ phase = "layered" =>
        \A n \in Nodes : \E k \in DOMAIN waves :
            /\ WaveOf(n) = {k}
            /\ \A i \in DOMAIN dependsOn[n] : \E j \in WaveOf(dependsOn[n][i]) : j < k
            /\ k > 1 => \E i \in DOMAIN dependsOn[n] : k - 1 \in WaveOf(dependsOn[n][i])

(* No loop of the three runs for ever. *)
EveryLoopEnds == phase \in {"new", "kahn", "reach", "wave"} ~>
                     phase \in {"refused", "accepted", "reached", "layered", "raised"}

=============================================================================

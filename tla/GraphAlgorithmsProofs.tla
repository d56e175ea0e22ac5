----------------------- MODULE GraphAlgorithmsProofs -----------------------
(***************************************************************************)
(* What the loops of class Graph compute, for every graph: _validate       *)
(* accepts none with a cycle, which is what module DepGraph assumes, and   *)
(* reachable_from returns the set that module defines.                     *)
(***************************************************************************)
EXTENDS GraphAlgorithms, FiniteSetTheorems, TLAPS

(* The entries of n that _validate has not ticked off.                     *)
Open(n) == {i \in DOMAIN dependsOn[n] : dependsOn[n][i] \notin taken}

(* in_degree counts the open entries, what is in the queue or popped has   *)
(* none, and nothing popped so far lies on a cycle.                        *)
KahnInv ==
    /\ visited = Cardinality(taken)
    /\ queue \intersect taken = {}
    /\ phase = "new" => taken = {} /\ queue = {}
    /\ phase \notin {"new", "refused"} => ~UnknownDependency
    /\ phase = "kahn" => \A n \in Nodes : inDegree[n] = Cardinality(Open(n))
    /\ \A n \in queue \union taken : Open(n) = {}
    /\ phase = "kahn" => \A n \in Nodes : Open(n) = {} => n \in queue \union taken
    /\ \A n \in taken : \A i \in DOMAIN dependsOn[n] :
           dependsOn[n][i] \notin ReachableFrom(n)
    /\ phase \notin {"new", "kahn", "refused"} => taken = Nodes
    /\ phase = "refused" => UnknownDependency \/ Cyclic

Stacked == {stack[k] : k \in 1..Len(stack)}

(* Everything found is reachable, and what has been visited has its        *)
(* dependents among what was visited or will be.                           *)
ReachInv ==
    /\ phase \notin {"reach", "reached"} => origin = {} /\ stack = <<>> /\ seen = {}
    /\ \A n \in origin :
           n \in seen \union Stacked /\ seen \union Stacked \subseteq ReachableFrom(n)
    /\ \A m \in seen : Dependents(m) \subseteq seen \union Stacked
    /\ phase = "reached" => stack = <<>>

Layering == phase \in {"wave", "layered", "raised"}

(* A node is in one wave once it is no longer in `remaining`, after what   *)
(* it depends on; and one that remains could not be in the last wave.      *)
Placed(n) ==
    \E k \in DOMAIN waves :
        /\ WaveOf(n) = {k}
        /\ \A i \in DOMAIN dependsOn[n] : \E j \in WaveOf(dependsOn[n][i]) : j < k
        /\ k > 1 => \E i \in DOMAIN dependsOn[n] : k - 1 \in WaveOf(dependsOn[n][i])

Behind(n) ==
    Len(waves) >= 1 =>
        \E i \in DOMAIN dependsOn[n] :
            dependsOn[n][i] \in remaining \union waves[Len(waves)]

LayerInv ==
    /\ ~Layering => waves = <<>>
    /\ Layering =>
        /\ \A n \in remaining : WaveOf(n) = {} /\ Behind(n)
        /\ \A n \in Nodes \ remaining : Placed(n)
    /\ phase = "layered" => remaining = {}
    /\ phase # "raised"

GraphType ==
    /\ TypeOK
    /\ IsFiniteSet(Nodes)
    /\ \A n \in Nodes : dependsOn[n] \in Seq(Names)

-----------------------------------------------------------------------------
(* The lists of a graph are sequences, so their entries can be counted.    *)
LEMMA EntriesFinite ==
    ASSUME GraphType, NEW m \in Nodes
    PROVE  /\ IsFiniteSet(DOMAIN dependsOn[m])
           /\ Cardinality(DOMAIN dependsOn[m]) = Len(dependsOn[m])
           /\ IsFiniteSet(Open(m))
           /\ \A n : IsFiniteSet(Entries(m, n))
<1>1. Len(dependsOn[m]) \in Nat /\ DOMAIN dependsOn[m] = 1..Len(dependsOn[m])
    BY DEF GraphType
<1>2. IsFiniteSet(DOMAIN dependsOn[m]) /\ Cardinality(DOMAIN dependsOn[m]) = Len(dependsOn[m])
    BY <1>1, FS_Interval
<1>3. Open(m) \in SUBSET DOMAIN dependsOn[m]
    BY DEF Open
<1>4. \A n : Entries(m, n) \in SUBSET DOMAIN dependsOn[m]
    BY DEF Entries
<1>5. QED
    BY <1>2, <1>3, <1>4, FS_Subset

LEMMA ReachableClosed ==
    ASSUME NEW n \in Nodes
    PROVE  /\ ReachableFrom(n) \in SUBSET Nodes
           /\ n \in ReachableFrom(n)
           /\ Closed(ReachableFrom(n))
BY DEF ReachableFrom, Closed, Dependents

LEMMA ReachableLeast ==
    ASSUME NEW n \in Nodes, NEW S \in SUBSET Nodes, n \in S, Closed(S)
    PROVE  ReachableFrom(n) \subseteq S
BY DEF ReachableFrom

(* Popping a node ticks its entries off: what stays open of a list is one  *)
(* entry less for each, and never less than nothing.                       *)
LEMMA PopTicksOff ==
    ASSUME GraphType, KahnInv, NEW n \in Nodes, Pop(n), NEW m \in Nodes
    PROVE  /\ Open(m)' = Open(m) \ Entries(m, n)
           /\ inDegree'[m] = Cardinality(Open(m)')
           /\ inDegree'[m] \in Nat
<1>1. phase = "kahn" /\ n \in queue /\ n \notin taken
    BY DEF Pop, KahnInv
<1>2. Open(m)' = Open(m) \ Entries(m, n)
    BY DEF Pop, Open, Entries
<1>3. Open(m) \cap Entries(m, n) = Entries(m, n)
    BY <1>1 DEF Open, Entries
<1>4. IsFiniteSet(Open(m))
    BY EntriesFinite
<1>5. Cardinality(Open(m)') = Cardinality(Open(m)) - Cardinality(Entries(m, n))
    BY <1>2, <1>3, <1>4, FS_Difference
<1>6. inDegree'[m] = inDegree[m] - Cardinality(Entries(m, n))
    BY DEF Pop
<1>7. inDegree[m] = Cardinality(Open(m))
    BY <1>1 DEF KahnInv
<1>8. inDegree'[m] = Cardinality(Open(m)')
    BY <1>5, <1>6, <1>7
<1>9. Cardinality(Open(m)') \in Nat
    BY <1>2, <1>4, FS_Difference, FS_CardinalityType
<1>10. QED
    BY <1>2, <1>8, <1>9

(* In a finite graph, a set of nodes each of which depends on a node of    *)
(* the set holds a cycle: take one of them that reaches as much as any.    *)
LEMMA StuckIsCyclic ==
    ASSUME GraphType, NEW U \in SUBSET Nodes, U # {},
           \A n \in U : \E i \in DOMAIN dependsOn[n] : dependsOn[n][i] \in U
    PROVE  Cyclic
<1> DEFINE Missed(n) == Nodes \ ReachableFrom(n)
           T == {Missed(n) : n \in U}
           R == StrictSubsetOrdering(Nodes)
<1>1. IsWellFoundedOn(R, SUBSET Nodes)
    BY FS_StrictSubsetOrderingWellFounded, FS_FiniteSubsetsOfFinite DEF GraphType
<1>2. T \subseteq SUBSET Nodes /\ T # {}
    OBVIOUS
<1>3. \E x \in T : \A y \in T : ~(<<y, x>> \in R)
    <2> HIDE DEF T, R
    <2> QED
        BY <1>1, <1>2, WFMin
<1>4. PICK n \in U : \A m \in U : ~(<<Missed(m), Missed(n)>> \in R)
    BY <1>3
<1>5. PICK i \in DOMAIN dependsOn[n] : dependsOn[n][i] \in U
    OBVIOUS
<1> DEFINE d == dependsOn[n][i]
<1>6. n \in ReachableFrom(d) /\ d \in ReachableFrom(d)
    BY <1>5, ReachableClosed DEF Closed, Dependents, Entries
<1>7. ReachableFrom(n) \subseteq ReachableFrom(d)
    BY <1>5, <1>6, ReachableClosed, ReachableLeast
<1>8. Missed(d) \subseteq Missed(n) /\ Missed(d) \in SUBSET Nodes /\ Missed(n) \in SUBSET Nodes
    BY <1>7
<1>9. Missed(d) = Missed(n)
    BY <1>4, <1>5, <1>8 DEF StrictSubsetOrdering
<1>10. d \in ReachableFrom(n)
    BY <1>5, <1>6, <1>9
<1>11. QED
    BY <1>10 DEF Cyclic

(* Pushing the dependents of n adds them all, however often each is        *)
(* listed, and nothing else.                                               *)
LEMMA PushedAll ==
    ASSUME GraphType, NEW n \in Nodes, NEW more \in Pushed(n)
    PROVE  /\ more \in Seq(Nodes)
           /\ {more[k] : k \in 1..Len(more)} = Dependents(n)
<1> DEFINE S == Listed(n)
           C == Cardinality(S)
<1>1. IsFiniteSet(S)
    <2>1. \A m \in Nodes : IsFiniteSet({m} \X Entries(m, n))
        BY EntriesFinite, FS_Singleton, FS_Product
    <2>2. IsFiniteSet({{m} \X Entries(m, n) : m \in Nodes})
        <3> DEFINE T == {{m} \X Entries(m, n) : m \in Nodes}
                   f == [m \in Nodes |-> {m} \X Entries(m, n)]
        <3>1. f \in Surjection(Nodes, T)
            BY DEF Surjection
        <3>2. IsFiniteSet(Nodes)
            BY DEF GraphType
        <3>3. IsFiniteSet(T)
            <4> HIDE DEF f, T
            <4> QED
                BY <3>1, <3>2, FS_Surjection
        <3> QED
            BY <3>3
    <2> QED
        BY <2>1, <2>2, FS_UNION DEF Listed
<1>2. C \in Nat
    BY <1>1, FS_CardinalityType
<1>3. PICK o \in Bijection(1..C, S) : more = [k \in DOMAIN o |-> o[k][1]]
    BY DEF Pushed, Orders
<1>4. o \in [1..C -> S] /\ \A e \in S : \E k \in 1..C : o[k] = e
    BY <1>3 DEF Bijection, Injection, Surjection
<1>5. \A e : e \in S <=> \E m \in Nodes : \E i \in Entries(m, n) : e = <<m, i>>
    BY DEF Listed
<1>6. \A k \in 1..C : more[k] = o[k][1] /\ more[k] \in Dependents(n)
    BY <1>3, <1>4, <1>5 DEF Dependents
<1>7. DOMAIN more = 1..C
    BY <1>3, <1>4
<1>8. more \in Seq(Nodes) /\ Len(more) = C
    <2>1. \A k \in 1..C : more[k] \in Nodes
        BY <1>6 DEF Dependents
    <2>2. more = [k \in 1..C |-> more[k]]
        BY <1>3, <1>4
    <2>3. more \in [1..C -> Nodes]
        BY <2>1, <2>2
    <2> QED
        BY <1>2, <2>3
<1>9. ASSUME NEW m \in Dependents(n) PROVE \E k \in 1..C : more[k] = m
    <2>1. PICK i \in Entries(m, n) : <<m, i>> \in S
        BY <1>5 DEF Dependents
    <2>2. PICK k \in 1..C : o[k] = <<m, i>>
        BY <1>4, <2>1
    <2> QED
        BY <1>6, <2>2
<1> QED
    BY <1>6, <1>8, <1>9

LEMMA Appended ==
    ASSUME NEW S, NEW s \in Seq(S), NEW t \in Seq(S)
    PROVE  /\ s \o t \in Seq(S) /\ Len(s \o t) = Len(s) + Len(t)
           /\ \A k \in 1..Len(s) : (s \o t)[k] = s[k]
           /\ \A k \in 1..Len(t) : (s \o t)[Len(s) + k] = t[k]
OBVIOUS

(* What a visit does to the stack, seen as a set.                          *)
LEMMA VisitStacks ==
    ASSUME GraphType, Visit
    PROVE  LET n == Last(stack) IN
           /\ n \in Nodes /\ n \in Stacked
           /\ stack' \in Seq(Nodes)
           /\ Stacked \subseteq Stacked' \union {n}
           /\ Stacked' \subseteq Stacked \union (IF n \in seen THEN {} ELSE Dependents(n))
           /\ n \notin seen => Dependents(n) \subseteq Stacked'
<1> DEFINE n == Last(stack)
           L == Len(stack)
<1>1. stack \in Seq(Nodes) /\ stack # <<>>
    BY DEF GraphType, TypeOK, Visit
<1>2. L \in Nat /\ L >= 1 /\ n = stack[L] /\ n \in Nodes /\ n \in Stacked
    BY <1>1 DEF Last, Stacked
<1>3. /\ Popped \in Seq(Nodes) /\ Len(Popped) = L - 1
      /\ \A k \in 1..(L - 1) : Popped[k] = stack[k]
    BY <1>1, <1>2 DEF Popped, Front
<1>4. CASE n \in seen
    <2>1. stack' = Popped
        BY <1>4 DEF Visit
    <2>2. Stacked' \subseteq Stacked /\ Stacked \subseteq Stacked' \union {n}
        BY <1>2, <1>3, <2>1 DEF Stacked
    <2> QED
        BY <1>2, <1>3, <1>4, <2>1, <2>2
<1>5. CASE n \notin seen
    <2>1. PICK more \in Pushed(n) : stack' = Popped \o more
        BY <1>5 DEF Visit
    <2>2. more \in Seq(Nodes) /\ {more[k] : k \in 1..Len(more)} = Dependents(n)
        BY <1>2, <2>1, PushedAll
    <2>3. /\ stack' \in Seq(Nodes) /\ Len(stack') = L - 1 + Len(more)
          /\ \A k \in 1..(L - 1) : stack'[k] = stack[k]
          /\ \A k \in 1..Len(more) : stack'[L - 1 + k] = more[k]
        <3> DEFINE p == Popped
        <3>1. p \in Seq(Nodes) /\ Len(p) = L - 1 /\ stack' = p \o more
            BY <1>3, <2>1
        <3>2. /\ stack' \in Seq(Nodes) /\ Len(stack') = Len(p) + Len(more)
              /\ \A k \in 1..Len(p) : stack'[k] = p[k]
              /\ \A k \in 1..Len(more) : stack'[Len(p) + k] = more[k]
            <4> DEFINE q == p \o more
            <4>1. /\ q \in Seq(Nodes) /\ Len(q) = Len(p) + Len(more)
                  /\ \A k \in 1..Len(p) : q[k] = p[k]
                  /\ \A k \in 1..Len(more) : q[Len(p) + k] = more[k]
                <5> HIDE DEF p
                <5>1. more \in Seq(Nodes) /\ p \in Seq(Nodes)
                    BY <2>2, <3>1
                <5> QED
                    BY <5>1, Appended
            <4>2. stack' = q
                BY <3>1
            <4> HIDE DEF p, q
            <4> QED
                BY <4>1, <4>2
        <3> QED
            BY <1>2, <1>3, <3>1, <3>2
    <2>4. Stacked \subseteq Stacked' \union {n}
        <3> SUFFICES ASSUME NEW k \in 1..L, stack[k] # n PROVE stack[k] \in Stacked'
            BY DEF Stacked
        <3>1. k \in 1..(L - 1) /\ k \in 1..Len(stack')
            BY <1>2, <2>2, <2>3
        <3> QED
            BY <2>3, <3>1 DEF Stacked
    <2>5. Dependents(n) \subseteq Stacked'
        <3> SUFFICES ASSUME NEW k \in 1..Len(more) PROVE more[k] \in Stacked'
            BY <2>2
        <3>1. L - 1 + k \in 1..Len(stack')
            BY <1>2, <2>2, <2>3
        <3> QED
            BY <2>3, <3>1 DEF Stacked
    <2>6. Stacked' \subseteq Stacked \union Dependents(n)
        <3> SUFFICES ASSUME NEW k \in 1..Len(stack')
                     PROVE  stack'[k] \in Stacked \union Dependents(n)
            BY DEF Stacked
        <3>1. CASE k <= L - 1
            <4>1. k \in 1..(L - 1) /\ k \in 1..L
                BY <1>2, <2>2, <2>3, <3>1
            <4> QED
                BY <2>3, <4>1 DEF Stacked
        <3>2. CASE k > L - 1
            <4> DEFINE j == k - (L - 1)
            <4>1. j \in 1..Len(more) /\ k = L - 1 + j
                BY <1>2, <2>2, <2>3, <3>2
            <4> QED
                BY <2>2, <2>3, <4>1
        <3>3. k \in Nat
            BY <2>2, <2>3, <1>2
        <3> QED
            BY <1>2, <3>1, <3>2, <3>3
    <2> QED
        BY <1>2, <1>5, <2>3, <2>4, <2>5, <2>6
<1> QED
    BY <1>4, <1>5

-----------------------------------------------------------------------------
LEMMA InitType == Init => GraphType
<1> SUFFICES ASSUME Init PROVE GraphType
    OBVIOUS
<1>1. dependsOn \in Graphs /\ IsFiniteSet(Nodes) /\ dependsOn \in [Nodes -> Seq(Names)]
    BY GraphsAssumption DEF Init, Nodes
<1>2. inDegree \in [Nodes -> Nat] /\ visited \in Nat /\ phase \in Phases
    BY DEF Init, Phases
<1>3. waves \in Seq(SUBSET Nodes)
    BY DEF Init
<1>4. QED
    BY <1>1, <1>2, <1>3 DEF Init, GraphType, TypeOK

LEMMA NextType ==
    ASSUME GraphType, KahnInv, [Next]_vars
    PROVE  GraphType'
<1>1. dependsOn' = dependsOn
    BY DEF Next, vars, Validate, RefuseUnknown, StartKahn, Pop, EndKahn, CallReachable,
           Reachable, Visit, EndReachable, CallWaves, Waves, NextWave, EndWaves
<1>2. Nodes' = Nodes
    BY <1>1 DEF Nodes
<1>3. SUFFICES TypeOK'
    BY <1>1, <1>2 DEF GraphType
<1>4. CASE Validate
    <2>1. CASE RefuseUnknown
        BY <1>2, <2>1 DEF RefuseUnknown, kahnVars, reachVars, waveVars, GraphType, TypeOK, Phases
    <2>2. CASE StartKahn
        <3>1. \A n \in Nodes : InDegree(n) \in Nat
            BY <2>2 DEF GraphType, InDegree
        <3>2. inDegree' \in [Nodes -> Nat] /\ queue' \subseteq Nodes /\ phase' \in Phases
            BY <2>2, <3>1 DEF StartKahn, Phases
        <3>3. QED
            BY <1>2, <2>2, <3>2 DEF StartKahn, reachVars, waveVars, GraphType, TypeOK
    <2>3. CASE \E n \in Nodes : Pop(n)
        <3>1. PICK n \in Nodes : Pop(n)
            BY <2>3
        <3>2. \A m \in Nodes : inDegree'[m] \in Nat
            BY <3>1, PopTicksOff
        <3>3. inDegree' \in [Nodes -> Nat]
            BY <3>1, <3>2 DEF Pop
        <3>4. queue' \subseteq Nodes /\ taken' \subseteq Nodes /\ visited' \in Nat
            BY <3>1 DEF Pop, Dependents, GraphType, TypeOK
        <3>5. QED
            BY <1>2, <3>1, <3>3, <3>4 DEF Pop, reachVars, waveVars, GraphType, TypeOK
    <2>4. CASE EndKahn
        BY <1>2, <2>4 DEF EndKahn, kahnVars, reachVars, waveVars, GraphType, TypeOK, Phases
    <2>5. QED
        BY <1>4, <2>1, <2>2, <2>3, <2>4 DEF Validate
<1>5. CASE \E n \in Nodes : CallReachable(n)
    BY <1>2, <1>5 DEF CallReachable, kahnVars, waveVars, GraphType, TypeOK, Phases
<1>6. CASE Reachable
    <2>1. CASE Visit
        <3>1. stack' \in Seq(Nodes) /\ Last(stack) \in Nodes
            BY <2>1, VisitStacks
        <3>2. seen' \subseteq Nodes
            BY <2>1, <3>1 DEF Visit, GraphType, TypeOK
        <3>3. QED
            BY <1>2, <2>1, <3>1, <3>2 DEF Visit, kahnVars, waveVars, GraphType, TypeOK
    <2>2. CASE EndReachable
        BY <1>2, <2>2 DEF EndReachable, kahnVars, reachVars, waveVars, GraphType, TypeOK, Phases
    <2>3. QED
        BY <1>6, <2>1, <2>2 DEF Reachable
<1>7. CASE CallWaves
    BY <1>2, <1>7 DEF CallWaves, kahnVars, reachVars, GraphType, TypeOK, Phases
<1>8. CASE Waves
    <2>1. CASE NextWave
        <3>1. Ready \in SUBSET Nodes
            BY DEF Ready, GraphType, TypeOK
        <3>2. waves' \in Seq(SUBSET Nodes) /\ remaining' \subseteq Nodes
            BY <2>1, <3>1 DEF NextWave, GraphType, TypeOK
        <3>3. QED
            BY <1>2, <2>1, <3>2 DEF NextWave, kahnVars, reachVars, GraphType, TypeOK
    <2>2. CASE EndWaves
        BY <1>2, <2>2 DEF EndWaves, kahnVars, reachVars, waveVars, GraphType, TypeOK, Phases
    <2>3. QED
        BY <1>8, <2>1, <2>2 DEF Waves
<1>9. CASE UNCHANGED vars
    BY <1>2, <1>9 DEF vars, kahnVars, reachVars, waveVars, GraphType, TypeOK
<1>10. QED
    BY <1>4, <1>5, <1>6, <1>7, <1>8, <1>9 DEF Next

-----------------------------------------------------------------------------
(* A popped node depends on popped nodes only, so nothing it depends on    *)
(* can be reached from a node that is still to be popped.                  *)
LEMMA PoppedOffCycle ==
    ASSUME GraphType, KahnInv, NEW n \in queue, n \notin taken,
           NEW i \in DOMAIN dependsOn[n]
    PROVE  dependsOn[n][i] \notin ReachableFrom(n)
<1>1. n \in Nodes /\ taken \subseteq Nodes
    BY DEF GraphType, TypeOK
<1>2. dependsOn[n][i] \in taken
    BY DEF KahnInv, Open
<1>3. Closed(Nodes \ taken)
    <2> SUFFICES ASSUME NEW x \in Nodes \ taken, NEW y \in Dependents(x)
                 PROVE  y \in Nodes \ taken
        BY DEF Closed
    <2>1. y \in Nodes /\ \E j \in DOMAIN dependsOn[y] : dependsOn[y][j] = x
        BY DEF Dependents, Entries
    <2>2. QED
        BY <2>1 DEF KahnInv, Open
<1>4. ReachableFrom(n) \subseteq Nodes \ taken
    BY <1>1, <1>3, ReachableLeast
<1>5. QED
    BY <1>2, <1>4

LEMMA KahnPop ==
    ASSUME GraphType, KahnInv, NEW n \in Nodes, Pop(n)
    PROVE  KahnInv'
<1>1. phase = "kahn" /\ phase' = "kahn" /\ n \in queue /\ n \notin taken
    BY DEF Pop, KahnInv
<1>2. dependsOn' = dependsOn /\ Nodes' = Nodes /\ taken' = taken \union {n}
    BY DEF Pop, Nodes
<1>3. visited' = Cardinality(taken')
    <2>1. IsFiniteSet(taken)
        BY FS_Subset DEF GraphType, TypeOK
    <2>2. QED
        BY <1>1, <2>1, FS_AddElement DEF Pop, KahnInv
<1>4. \A m \in Nodes : inDegree'[m] = Cardinality(Open(m)')
    BY PopTicksOff
<1>5. \A m \in queue' \union taken' : Open(m)' = {}
    <2> SUFFICES ASSUME NEW m \in queue' \union taken' PROVE Open(m)' = {}
        OBVIOUS
    <2>1. CASE m \in queue \union taken
        BY <1>2, <2>1 DEF KahnInv, Open
    <2>2. CASE m \in Dependents(n) /\ inDegree'[m] = 0
        <3>1. m \in Nodes
            BY <2>2 DEF Dependents
        <3>2. Open(m)' = Open(m) \ Entries(m, n) /\ IsFiniteSet(Open(m))
            BY <3>1, PopTicksOff, EntriesFinite
        <3>3. IsFiniteSet(Open(m)')
            BY <3>2, FS_Difference
        <3>4. QED
            BY <1>4, <2>2, <3>1, <3>3, FS_EmptySet
    <2>3. QED
        BY <1>1, <2>1, <2>2 DEF Pop
<1>6. queue' \intersect taken' = {}
    <2> SUFFICES ASSUME NEW m \in queue', m \in taken' PROVE FALSE
        OBVIOUS
    <2>1. m # n \/ n \in Dependents(n)
        BY DEF Pop
    <2>2. CASE m = n
        <3>1. \E i \in DOMAIN dependsOn[n] : dependsOn[n][i] = n
            BY <2>1, <2>2 DEF Dependents, Entries
        <3>2. QED
            BY <1>1, <3>1 DEF KahnInv, Open
    <2>3. CASE m \in taken
        <3>1. m \in Dependents(n)
            BY <2>3 DEF Pop, KahnInv
        <3>2. \E i \in DOMAIN dependsOn[m] : dependsOn[m][i] = n
            BY <3>1 DEF Dependents, Entries
        <3>3. QED
            BY <1>1, <2>3, <3>2 DEF KahnInv, Open
    <2>4. QED
        BY <1>2, <2>2, <2>3
<1>7. ReachableFrom(n)' = ReachableFrom(n)
      /\ \A m : ReachableFrom(m)' = ReachableFrom(m)
    BY <1>2 DEF ReachableFrom, Closed, Dependents, Entries
<1>8. \A m \in taken' : \A i \in DOMAIN dependsOn'[m] :
          dependsOn'[m][i] \notin ReachableFrom(m)'
    BY <1>1, <1>2, <1>7, PoppedOffCycle DEF KahnInv
<1>9. ~UnknownDependency'
    BY <1>1, <1>2 DEF KahnInv, UnknownDependency
<1>10. \A m \in Nodes : Open(m)' = {} => m \in queue' \union taken'
    <2> SUFFICES ASSUME NEW m \in Nodes, Open(m)' = {} PROVE m \in queue' \union taken'
        OBVIOUS
    <2>1. CASE Open(m) = {}
        BY <1>1, <2>1 DEF KahnInv, Pop
    <2>2. CASE Open(m) # {}
        <3>1. m \in Dependents(n)
            BY <2>2, PopTicksOff DEF Dependents
        <3>2. inDegree'[m] = 0
            BY <1>4, FS_EmptySet
        <3>3. QED
            BY <3>1, <3>2 DEF Pop
    <2>3. QED
        BY <2>1, <2>2
<1>11. QED
    BY <1>1, <1>2, <1>3, <1>4, <1>5, <1>6, <1>8, <1>9, <1>10 DEF KahnInv

LEMMA KahnFrame ==
    ASSUME KahnInv, UNCHANGED <<dependsOn, kahnVars>>,
           \/ phase' = phase
           \/ phase' = "refused" /\ (UnknownDependency \/ Cyclic)
           \/ phase \notin {"new", "kahn", "refused"} /\ phase' \notin {"new", "kahn", "refused"}
    PROVE  KahnInv'
<1>1. Nodes' = Nodes /\ UnknownDependency' = UnknownDependency
    BY DEF Nodes, UnknownDependency
<1>2. \A n : Open(n)' = Open(n)
    BY DEF Open, kahnVars
<1>3. \A n : ReachableFrom(n)' = ReachableFrom(n)
    BY <1>1 DEF ReachableFrom, Closed, Dependents, Entries
<1>4. Cyclic' = Cyclic
    BY <1>1, <1>3 DEF Cyclic
<1>5. QED
    BY <1>1, <1>2, <1>3, <1>4 DEF KahnInv, kahnVars

LEMMA KahnNext ==
    ASSUME GraphType, KahnInv, [Next]_vars
    PROVE  KahnInv'
<1>1. CASE StartKahn
    <2>1. phase' = "kahn" /\ taken = {} /\ taken' = {} /\ visited' = visited
          /\ dependsOn' = dependsOn /\ ~UnknownDependency
        BY <1>1 DEF StartKahn, KahnInv
    <2>2. Nodes' = Nodes /\ ~UnknownDependency'
        BY <2>1 DEF Nodes, UnknownDependency
    <2>3. \A n \in Nodes : Open(n)' = DOMAIN dependsOn[n]
        BY <2>1 DEF Open
    <2>4. \A n \in Nodes : inDegree'[n] = Cardinality(Open(n)')
        BY <1>1, <2>3, EntriesFinite DEF StartKahn, InDegree
    <2>5. \A n \in queue' : Open(n)' = {}
        <3> SUFFICES ASSUME NEW n \in queue' PROVE Open(n)' = {}
            OBVIOUS
        <3>1. n \in Nodes /\ inDegree'[n] = 0
            BY <1>1 DEF StartKahn
        <3>2. QED
            BY <2>3, <2>4, <3>1, EntriesFinite, FS_EmptySet
    <2>6. \A n \in Nodes : Open(n)' = {} => n \in queue'
        BY <1>1, <2>4, FS_EmptySet DEF StartKahn
    <2>7. QED
        BY <2>1, <2>2, <2>4, <2>5, <2>6 DEF KahnInv
<1>2. CASE \E n \in Nodes : Pop(n)
    BY <1>2, KahnPop
<1>3. CASE EndKahn
    <2>1. phase = "kahn" /\ UNCHANGED <<dependsOn, kahnVars>>
        BY <1>3 DEF EndKahn
    <2>2. CASE ~VisitedAll
        <3>1. taken # Nodes /\ taken \subseteq Nodes /\ queue = {} /\ ~UnknownDependency
            BY <1>3, <2>1, <2>2 DEF EndKahn, VisitedAll, KahnInv, GraphType, TypeOK
        <3>2. ASSUME NEW n \in Nodes \ taken
              PROVE  \E i \in DOMAIN dependsOn[n] : dependsOn[n][i] \in Nodes \ taken
            <4>1. Open(n) # {}
                BY <2>1, <3>1 DEF KahnInv
            <4>2. QED
                BY <3>1, <4>1 DEF Open, UnknownDependency
        <3>3. Cyclic
            BY <3>1, <3>2, StuckIsCyclic
        <3>4. QED
            BY <1>3, <2>1, <2>2, <3>3, KahnFrame DEF EndKahn
    <2>3. CASE VisitedAll
        <3>1. Cardinality(taken) = Cardinality(Nodes)
            BY <2>3 DEF VisitedAll, KahnInv
        <3>2. taken = Nodes
            BY <3>1, FS_Subset DEF GraphType, TypeOK
        <3>3. Nodes' = Nodes /\ UnknownDependency' = UnknownDependency
            BY <2>1 DEF Nodes, UnknownDependency
        <3>4. \A n : Open(n)' = Open(n)
            BY <2>1 DEF Open, kahnVars
        <3>5. \A n : ReachableFrom(n)' = ReachableFrom(n)
            BY <2>1, <3>3 DEF ReachableFrom, Closed, Dependents, Entries
        <3>6. phase' = "accepted"
            BY <1>3, <2>3 DEF EndKahn
        <3>7. QED
            BY <2>1, <3>2, <3>3, <3>4, <3>5, <3>6 DEF KahnInv, kahnVars
    <2>4. QED
        BY <2>2, <2>3
<1>4. CASE RefuseUnknown \/ UNCHANGED vars
    BY <1>4, KahnFrame DEF RefuseUnknown, vars
<1>5. CASE (\E n \in Nodes : CallReachable(n)) \/ CallWaves
    BY <1>5, KahnFrame DEF CallReachable, CallWaves
<1>6. CASE Reachable \/ Waves
    BY <1>6, KahnFrame DEF Reachable, Visit, EndReachable, Waves, NextWave, EndWaves
<1>7. QED
    BY <1>1, <1>2, <1>3, <1>4, <1>5, <1>6 DEF Next, Validate

LEMMA KahnInit == Init => KahnInv
BY FS_EmptySet DEF Init, KahnInv

-----------------------------------------------------------------------------
LEMMA ReachFrame ==
    ASSUME ReachInv, UNCHANGED <<dependsOn, reachVars>>,
           phase' \in {"reach", "reached"} <=> phase \in {"reach", "reached"},
           phase' = "reached" => phase = "reached" \/ stack = <<>>
    PROVE  ReachInv'
<1>1. Nodes' = Nodes /\ (\A n : Dependents(n)' = Dependents(n))
    BY DEF Nodes, Dependents, Entries
<1>2. \A n : ReachableFrom(n)' = ReachableFrom(n)
    BY <1>1 DEF ReachableFrom, Closed
<1>3. Stacked' = Stacked
    BY DEF Stacked, reachVars
<1>4. QED
    BY <1>1, <1>2, <1>3 DEF ReachInv, reachVars

LEMMA ReachNext ==
    ASSUME GraphType, ReachInv, [Next]_vars
    PROVE  ReachInv'
<1>1. CASE \E n \in Nodes : CallReachable(n)
    <2>1. PICK n \in Nodes : CallReachable(n)
        BY <1>1
    <2>2. seen' = {} /\ origin' = {n} /\ stack' = <<n>> /\ phase' = "reach"
          /\ dependsOn' = dependsOn
        BY <2>1 DEF CallReachable, ReachInv
    <2>2a. Stacked' = {n}
        BY <2>2 DEF Stacked
    <2>3. Nodes' = Nodes /\ ReachableFrom(n)' = ReachableFrom(n)
        BY <2>2 DEF Nodes, ReachableFrom, Closed, Dependents, Entries
    <2>4. QED
        BY <2>2, <2>2a, <2>3, ReachableClosed DEF ReachInv
<1>2. CASE Visit
    <2>1. PICK n \in Nodes :
              /\ n = Last(stack) /\ n \in Stacked
              /\ Stacked \subseteq Stacked' \union {n}
              /\ Stacked' \subseteq Stacked \union (IF n \in seen THEN {} ELSE Dependents(n))
              /\ n \notin seen => Dependents(n) \subseteq Stacked'
        BY <1>2, VisitStacks
    <2>2. phase = "reach" /\ phase' = "reach" /\ origin' = origin /\ dependsOn' = dependsOn
          /\ seen' = seen \union {n}
        BY <1>2, <2>1 DEF Visit
    <2>3. Nodes' = Nodes /\ \A m : Dependents(m)' = Dependents(m)
        BY <2>2 DEF Nodes, Dependents, Entries
    <2>4. \A m : ReachableFrom(m)' = ReachableFrom(m)
        BY <2>3 DEF ReachableFrom, Closed
    <2>5. /\ seen \union Stacked \subseteq seen' \union Stacked'
          /\ seen' \union Stacked' \subseteq seen \union Stacked \union Dependents(n)
        BY <2>1, <2>2
    <2>6. \A o \in origin : Dependents(n) \subseteq ReachableFrom(o)
        <3> SUFFICES ASSUME NEW o \in origin PROVE Dependents(n) \subseteq ReachableFrom(o)
            OBVIOUS
        <3>1. o \in Nodes /\ n \in ReachableFrom(o)
            BY <2>1 DEF ReachInv, GraphType, TypeOK
        <3>2. QED
            BY <3>1, ReachableClosed DEF Closed
    <2>7. \A m \in seen' : Dependents(m) \subseteq seen' \union Stacked'
        BY <2>1, <2>2, <2>5 DEF ReachInv
    <2>8. QED
        BY <2>2, <2>3, <2>4, <2>5, <2>6, <2>7 DEF ReachInv
<1>3. CASE EndReachable
    BY <1>3, ReachFrame DEF EndReachable
<1>4. CASE Validate
    BY <1>4, ReachFrame DEF Validate, RefuseUnknown, StartKahn, Pop, EndKahn
<1>5. CASE CallWaves \/ Waves
    BY <1>5, ReachFrame DEF CallWaves, Waves, NextWave, EndWaves
<1>6. CASE UNCHANGED vars
    BY <1>6, ReachFrame DEF vars
<1>7. QED
    BY <1>1, <1>2, <1>3, <1>4, <1>5, <1>6 DEF Next, Reachable

LEMMA ReachInit == Init => ReachInv
BY DEF Init, ReachInv, Stacked

-----------------------------------------------------------------------------
LEMMA LayerFrame ==
    ASSUME LayerInv, UNCHANGED <<dependsOn, waveVars>>,
           Layering' <=> Layering, phase' # "raised",
           phase' = "layered" => phase = "layered" \/ remaining = {}
    PROVE  LayerInv'
<1>1. \A n : WaveOf(n)' = WaveOf(n)
    BY DEF WaveOf, waveVars
<1>2. Nodes' = Nodes /\ (\A n : Behind(n)' = Behind(n)) /\ (\A n : Placed(n)' = Placed(n))
    BY <1>1 DEF Nodes, Behind, Placed, waveVars
<1>3. QED
    BY <1>1, <1>2 DEF LayerInv, waveVars

(* The next wave takes the nodes whose dependencies are all placed; a node *)
(* that stays behind has a dependency in it or still remaining.            *)
LEMMA LayerStep ==
    ASSUME GraphType, KahnInv, LayerInv, NextWave
    PROVE  LayerInv'
<1> DEFINE L == Len(waves)
<1>1. phase = "wave" /\ phase' = "wave" /\ Layering /\ Layering' /\ dependsOn' = dependsOn
      /\ remaining' = remaining \ Ready /\ Ready \subseteq remaining
      /\ remaining \subseteq Nodes /\ Nodes' = Nodes /\ ~UnknownDependency
    BY DEF NextWave, Layering, Ready, Nodes, GraphType, TypeOK, KahnInv
<1>2. L \in Nat /\ DOMAIN waves = 1..L /\ DOMAIN waves' = 1..(L + 1)
      /\ waves'[L + 1] = Ready /\ (\A k \in 1..L : waves'[k] = waves[k])
      /\ Len(waves') = L + 1
    BY DEF NextWave, GraphType, TypeOK
<1>3. ASSUME NEW n PROVE WaveOf(n)' = WaveOf(n) \union (IF n \in Ready THEN {L + 1} ELSE {})
    BY <1>2 DEF WaveOf
<1>4. ASSUME NEW n \in remaining' PROVE WaveOf(n)' = {} /\ Behind(n)'
    <2>1. n \in remaining /\ n \notin Ready
        BY <1>1
    <2>2. PICK i \in DOMAIN dependsOn[n] : dependsOn[n][i] \in remaining
        BY <2>1 DEF Ready
    <2>3. dependsOn'[n][i] \in remaining' \union waves'[Len(waves')]
        BY <1>1, <1>2, <2>2
    <2>4. QED
        BY <1>1, <1>3, <2>1, <2>2, <2>3 DEF LayerInv, Behind
<1>5. ASSUME NEW n \in Nodes \ remaining PROVE Placed(n)'
    <2>1. PICK k \in DOMAIN waves :
              /\ WaveOf(n) = {k}
              /\ \A i \in DOMAIN dependsOn[n] : \E j \in WaveOf(dependsOn[n][i]) : j < k
              /\ k > 1 => \E i \in DOMAIN dependsOn[n] : k - 1 \in WaveOf(dependsOn[n][i])
        BY <1>1, <1>5 DEF LayerInv, Placed
    <2>2. WaveOf(n)' = {k} /\ k \in DOMAIN waves'
        BY <1>1, <1>2, <1>3, <1>5, <2>1
    <2>3. \A i \in DOMAIN dependsOn'[n] : \E j \in WaveOf(dependsOn[n][i])' : j < k
        BY <1>1, <1>3, <2>1
    <2>4. k > 1 => \E i \in DOMAIN dependsOn'[n] : k - 1 \in WaveOf(dependsOn[n][i])'
        BY <1>1, <1>3, <2>1
    <2>5. QED
        BY <1>1, <2>2, <2>3, <2>4 DEF Placed
<1>6. ASSUME NEW n \in Ready PROVE Placed(n)'
    <2>1. n \in Nodes /\ n \in remaining /\ WaveOf(n) = {} /\ Behind(n)
        BY <1>1, <1>6 DEF LayerInv
    <2>2. WaveOf(n)' = {L + 1} /\ L + 1 \in DOMAIN waves'
        BY <1>2, <1>3, <1>6, <2>1
    <2>3. ASSUME NEW i \in DOMAIN dependsOn[n]
          PROVE  \E j \in WaveOf(dependsOn[n][i])' : j < L + 1
        <3>1. dependsOn[n][i] \in Nodes \ remaining
            BY <1>1, <1>6, <2>1 DEF Ready, UnknownDependency
        <3>2. PICK j \in DOMAIN waves : WaveOf(dependsOn[n][i]) = {j}
            BY <1>1, <3>1 DEF LayerInv, Placed
        <3>3. j \in WaveOf(dependsOn[n][i])' /\ j < L + 1
            BY <1>1, <1>2, <3>2 DEF WaveOf
        <3>4. QED
            BY <3>3
    <2>4. ASSUME L + 1 > 1
          PROVE  \E i \in DOMAIN dependsOn[n] : L \in WaveOf(dependsOn[n][i])'
        <3>1. L >= 1
            BY <1>2, <2>4
        <3>2. PICK i \in DOMAIN dependsOn[n] : dependsOn[n][i] \in remaining \union waves[L]
            BY <2>1, <3>1 DEF Behind
        <3>3. dependsOn[n][i] \in waves[L]
            BY <1>6, <3>2 DEF Ready
        <3>4. L \in WaveOf(dependsOn[n][i])
            BY <1>2, <3>1, <3>3 DEF WaveOf
        <3>5. QED
            BY <1>1, <1>2, <3>1, <3>3 DEF WaveOf
    <2>5. L + 1 - 1 = L
        BY <1>2
    <2>6. QED
        BY <1>1, <2>2, <2>3, <2>4, <2>5 DEF Placed
<1>7. QED
    BY <1>1, <1>4, <1>5, <1>6 DEF LayerInv

LEMMA LayerNext ==
    ASSUME GraphType, KahnInv, LayerInv, [Next]_vars
    PROVE  LayerInv'
<1>1. CASE CallWaves
    <2>1. remaining' = Nodes' /\ waves' = <<>> /\ Layering' /\ phase' = "wave"
        BY <1>1 DEF CallWaves, Layering, LayerInv, Nodes
    <2>2. \A n : WaveOf(n)' = {} /\ Behind(n)'
        BY <2>1 DEF WaveOf, Behind
    <2>3. QED
        BY <2>1, <2>2 DEF LayerInv
<1>2. CASE NextWave
    BY <1>2, LayerStep
<1>3. CASE EndWaves
    <2>1. phase = "wave" /\ Ready = {} /\ ~UnknownDependency /\ taken = Nodes
          /\ remaining \subseteq Nodes
        BY <1>3 DEF EndWaves, KahnInv, GraphType, TypeOK
    <2>2. ~Cyclic
        BY <2>1 DEF KahnInv, Cyclic
    <2>3. \A n \in remaining : \E i \in DOMAIN dependsOn[n] : dependsOn[n][i] \in remaining
        BY <2>1 DEF Ready
    <2>4. remaining = {}
        BY <2>1, <2>2, <2>3, StuckIsCyclic
    <2>5. QED
        BY <1>3, <2>4, LayerFrame DEF EndWaves, Layering
<1>4. CASE Validate
    BY <1>4, LayerFrame DEF Validate, RefuseUnknown, StartKahn, Pop, EndKahn, Layering
<1>5. CASE \E n \in Nodes : CallReachable(n)
    BY <1>5, LayerFrame DEF CallReachable, Layering
<1>6. CASE Reachable
    BY <1>6, LayerFrame DEF Reachable, Visit, EndReachable, Layering
<1>7. CASE UNCHANGED vars
    BY <1>7, LayerFrame DEF vars, Layering, LayerInv
<1>8. QED
    BY <1>1, <1>2, <1>3, <1>4, <1>5, <1>6, <1>7 DEF Next, Waves

LEMMA LayerInit == Init => LayerInv
BY DEF Init, LayerInv, Layering

-----------------------------------------------------------------------------
LEMMA Invariants == Spec => [](GraphType /\ KahnInv /\ ReachInv /\ LayerInv)
<1>1. Init => GraphType /\ KahnInv /\ ReachInv /\ LayerInv
    BY InitType, KahnInit, ReachInit, LayerInit
<1>2. GraphType /\ KahnInv /\ ReachInv /\ LayerInv /\ [Next]_vars
          => (GraphType /\ KahnInv /\ ReachInv /\ LayerInv)'
    BY NextType, KahnNext, ReachNext, LayerNext
<1>3. QED
    BY <1>1, <1>2, PTL DEF Spec

(* The loops keep their types, whatever graph is built: no in-degree falls *)
(* below zero (graph.py:79-91).                                            *)
THEOREM LoopsTyped == Spec => []TypeOK
<1>1. GraphType => TypeOK
    BY DEF GraphType
<1>2. QED
    BY <1>1, Invariants, PTL

(* _validate accepts no graph with a cycle or an unknown dependency, which *)
(* is what the engine's model assumes of its graph, and refuses none       *)
(* without such a reason: when the queue runs dry early, the nodes left    *)
(* over hold a cycle (graph.py:73-91).                                     *)
THEOREM ValidateCorrect == Spec => []ValidateExact
<1>1. KahnInv => AcceptedIsAcyclic
    BY DEF KahnInv, AcceptedIsAcyclic, Cyclic
<1>2. KahnInv => RefusedHasReason
    BY DEF KahnInv, RefusedHasReason
<1>3. KahnInv => ValidateExact
    BY <1>1, <1>2 DEF ValidateExact
<1>4. QED
    BY <1>3, Invariants, PTL

(* reachable_from returns the least set that holds its argument and is     *)
(* closed under dependents, in whatever order they are pushed on the stack *)
(* (graph.py:114-127).                                                     *)
THEOREM ReachableCorrect == Spec => []ReachableExact
<1>1. GraphType /\ ReachInv => ReachableExact
    <2> SUFFICES ASSUME GraphType, ReachInv, phase = "reached", NEW n \in origin
                 PROVE  seen = ReachableFrom(n)
        BY DEF ReachableExact
    <2>1. Stacked = {} /\ n \in seen /\ seen \subseteq ReachableFrom(n)
        BY DEF ReachInv, Stacked
    <2>2. Closed(seen) /\ seen \in SUBSET Nodes /\ n \in Nodes
        BY <2>1 DEF ReachInv, Closed, GraphType, TypeOK
    <2>3. QED
        BY <2>1, <2>2, ReachableLeast
<1>2. QED
    BY <1>1, Invariants, PTL

(* topological_waves neither gets stuck nor misplaces a node: every node   *)
(* is in one wave, the first that follows all it depends on                *)
(* (graph.py:129-145).                                                     *)
THEOREM WavesCorrect == Spec => []WavesAreLayers
<1>1. LayerInv => WavesAreLayers
    <2> SUFFICES ASSUME LayerInv, phase = "layered", NEW n \in Nodes PROVE Placed(n)
        BY DEF LayerInv, WavesAreLayers, Placed
    <2> QED
        BY DEF LayerInv, Layering
<1>2. QED
    BY <1>1, Invariants, PTL

=============================================================================

------------------------ MODULE ImplementationProofs ------------------------
(***************************************************************************)
(* What retries and re-plans of the implementation node keep, for any task *)
(* lexicons, any seeded workspaces, any number of attempts and re-plans,   *)
(* and whichever of the steps may fail.                                    *)
(***************************************************************************)
EXTENDS Implementation, SequenceTheorems, TLAPS

Steps(c) == Registry[c].steps

Among(c, s) == \E i \in DOMAIN s : s[i] = c

NotBegun(c) == \A p \in StepsOf(c) : times[p] = 0

(* What is applied has been applied in full.                               *)
AppliedInv == \A c \in applied : \A p \in StepsOf(c) : times[p] >= 1

(* Between executions nothing else has been touched.                       *)
RestInv ==
    /\ status \in {"waiting", "pending", "completed"} =>
           \A c \in Capabilities \ applied : NotBegun(c)
    /\ status = "completed" => \A i \in DOMAIN tasks : tasks[i] \in applied

(* The capability under way has its steps from the k-th on still to come;  *)
(* an attempt does no step twice.                                          *)
AtStep(c, k) ==
    /\ Len(steps) = Len(Steps(c)) - k + 1
    /\ \A i \in 1..Len(steps) : steps[i] = Steps(c)[k + i - 1]
    /\ \A j \in 1..Len(Steps(c)) :
           IF j < k THEN times[Steps(c)[j]] \in 1..attempt
           ELSE times[Steps(c)[j]] <= attempt - 1

UnderWayInv ==
    status = "running" /\ steps # <<>> =>
        /\ left # <<>>
        /\ Head(left) \notin applied
        /\ \E k \in 1..Len(Steps(Head(left))) : AtStep(Head(left), k)

AttemptInv ==
    status = "running" =>
        /\ attempt >= 1
        /\ \A i \in DOMAIN tasks : tasks[i] \in applied \/ Among(tasks[i], left)
        /\ \A i \in DOMAIN left : Among(left[i], tasks)
        /\ attempt = 1 => collected = applied \ before
        /\ \A c \in Capabilities \ applied :
               /\ ~Among(c, tasks) => NotBegun(c)
               /\ steps = <<>> \/ c # Head(left) =>
                      \A p \in StepsOf(c) : times[p] <= attempt - 1

(* A scan is of a completed implementation.                                *)
ScanInv == scan = "completed" => status = "completed"

IInv == TypeOK /\ AppliedInv /\ RestInv /\ UnderWayInv /\ AttemptInv
        /\ VettedUnlessRetried /\ ScanInv /\ ReleaseHasNoSecret

-----------------------------------------------------------------------------
(* The registry: no step occurs twice, in one capability or in two.        *)

LEMMA CapabilitiesAre ==
    /\ Capabilities = {"scaffold_service", "fix_alias_race_condition",
                       "add_bulk_shorten_endpoint", "add_analytics_summary_endpoint",
                       "add_latency_percentile"}
    /\ Steps("scaffold_service") = <<"copytree">>
    /\ Steps("fix_alias_race_condition") =
           <<"fix:imports", "fix:create_short_link", "fix:test">>
    /\ Steps("add_bulk_shorten_endpoint") =
           <<"bulk:imports", "bulk:route", "bulk:config", "bulk:test">>
    /\ Steps("add_analytics_summary_endpoint") =
           <<"summary:analytics_module", "summary:route", "summary:test">>
    /\ Steps("add_latency_percentile") =
           <<"latency:module", "latency:import", "latency:after_request",
             "latency:summary_route", "latency:ops_summary_signature", "latency:test">>
    BY DEF Capabilities, Registry, Steps, ScaffoldService, FixAliasRaceCondition,
           AddBulkShortenEndpoint, AddAnalyticsSummaryEndpoint, AddLatencyPercentile

LEMMA StepSets ==
    /\ StepsOf("scaffold_service") = {"copytree"}
    /\ StepsOf("fix_alias_race_condition") =
           {"fix:imports", "fix:create_short_link", "fix:test"}
    /\ StepsOf("add_bulk_shorten_endpoint") =
           {"bulk:imports", "bulk:route", "bulk:config", "bulk:test"}
    /\ StepsOf("add_analytics_summary_endpoint") =
           {"summary:analytics_module", "summary:route", "summary:test"}
    /\ StepsOf("add_latency_percentile") =
           {"latency:module", "latency:import", "latency:after_request",
            "latency:summary_route", "latency:ops_summary_signature", "latency:test"}
<1>1. \A c \in Capabilities : StepsOf(c) = {Steps(c)[i] : i \in DOMAIN Steps(c)}
    BY DEF StepsOf, Steps
<1>2. StepsOf("scaffold_service") = {"copytree"}
    BY <1>1, CapabilitiesAre
<1>3. StepsOf("fix_alias_race_condition") =
           {"fix:imports", "fix:create_short_link", "fix:test"}
    BY <1>1, CapabilitiesAre
<1>4. StepsOf("add_bulk_shorten_endpoint") =
           {"bulk:imports", "bulk:route", "bulk:config", "bulk:test"}
    BY <1>1, CapabilitiesAre
<1>5. StepsOf("add_analytics_summary_endpoint") =
           {"summary:analytics_module", "summary:route", "summary:test"}
    BY <1>1, CapabilitiesAre
<1>6. StepsOf("add_latency_percentile") =
           {"latency:module", "latency:import", "latency:after_request",
            "latency:summary_route", "latency:ops_summary_signature", "latency:test"}
    BY <1>1, CapabilitiesAre
<1> QED
    BY <1>2, <1>3, <1>4, <1>5, <1>6

LEMMA StepsApart ==
    ASSUME NEW c \in Capabilities, NEW d \in Capabilities, c # d
    PROVE  StepsOf(c) \cap StepsOf(d) = {}
    BY CapabilitiesAre, StepSets

LEMMA StepsListed ==
    ASSUME NEW c \in Capabilities
    PROVE  /\ Steps(c) \in Seq(StepsOf(c))
           /\ Len(Steps(c)) \in Nat \ {0}
           /\ StepsOf(c) = {Steps(c)[i] : i \in 1..Len(Steps(c))}
           /\ \A i, j \in 1..Len(Steps(c)) : Steps(c)[i] = Steps(c)[j] => i = j
           /\ StepsOf(c) \subseteq AllSteps
<1>1. Steps(c) \in Seq(StepsOf(c)) /\ Len(Steps(c)) \in Nat \ {0}
      /\ \A i, j \in 1..Len(Steps(c)) : Steps(c)[i] = Steps(c)[j] => i = j
    <2>1. CASE c = "scaffold_service"
        <3> DEFINE s == <<"copytree">>
                   e == {"copytree"}
        <3>1. s \in Seq(e) /\ Len(s) = 1
            OBVIOUS
        <3>2. \A i, j \in 1..1 : s[i] = s[j] => i = j
            OBVIOUS
        <3>3. Steps(c) = s /\ StepsOf(c) = e
            BY <2>1, CapabilitiesAre, StepSets
        <3> HIDE DEF s, e
        <3>4. Steps(c) \in Seq(StepsOf(c))
            BY <3>1, <3>3
        <3>5. Len(Steps(c)) = 1
            BY <3>1, <3>3
        <3> QED
            BY <3>2, <3>3, <3>4, <3>5
    <2>2. CASE c = "fix_alias_race_condition"
        <3> DEFINE s == <<"fix:imports", "fix:create_short_link", "fix:test">>
                   e == {"fix:imports", "fix:create_short_link", "fix:test"}
        <3>1. s \in Seq(e) /\ Len(s) = 3
            OBVIOUS
        <3>2. \A i, j \in 1..3 : s[i] = s[j] => i = j
            OBVIOUS
        <3>3. Steps(c) = s /\ StepsOf(c) = e
            BY <2>2, CapabilitiesAre, StepSets
        <3> HIDE DEF s, e
        <3>4. Steps(c) \in Seq(StepsOf(c))
            BY <3>1, <3>3
        <3>5. Len(Steps(c)) = 3
            BY <3>1, <3>3
        <3> QED
            BY <3>2, <3>3, <3>4, <3>5
    <2>3. CASE c = "add_bulk_shorten_endpoint"
        <3> DEFINE s == <<"bulk:imports", "bulk:route", "bulk:config", "bulk:test">>
                   e == {"bulk:imports", "bulk:route", "bulk:config", "bulk:test"}
        <3>1. s \in Seq(e) /\ Len(s) = 4
            OBVIOUS
        <3>2. \A i, j \in 1..4 : s[i] = s[j] => i = j
            OBVIOUS
        <3>3. Steps(c) = s /\ StepsOf(c) = e
            BY <2>3, CapabilitiesAre, StepSets
        <3> HIDE DEF s, e
        <3>4. Steps(c) \in Seq(StepsOf(c))
            BY <3>1, <3>3
        <3>5. Len(Steps(c)) = 4
            BY <3>1, <3>3
        <3> QED
            BY <3>2, <3>3, <3>4, <3>5
    <2>4. CASE c = "add_analytics_summary_endpoint"
        <3> DEFINE s == <<"summary:analytics_module", "summary:route", "summary:test">>
                   e == {"summary:analytics_module", "summary:route", "summary:test"}
        <3>1. s \in Seq(e) /\ Len(s) = 3
            OBVIOUS
        <3>2. \A i, j \in 1..3 : s[i] = s[j] => i = j
            OBVIOUS
        <3>3. Steps(c) = s /\ StepsOf(c) = e
            BY <2>4, CapabilitiesAre, StepSets
        <3> HIDE DEF s, e
        <3>4. Steps(c) \in Seq(StepsOf(c))
            BY <3>1, <3>3
        <3>5. Len(Steps(c)) = 3
            BY <3>1, <3>3
        <3> QED
            BY <3>2, <3>3, <3>4, <3>5
    <2>5. CASE c = "add_latency_percentile"
        <3> DEFINE s == <<"latency:module", "latency:import", "latency:after_request",
                   "latency:summary_route", "latency:ops_summary_signature", "latency:test">>
                   e == {"latency:module", "latency:import", "latency:after_request",
                   "latency:summary_route", "latency:ops_summary_signature", "latency:test"}
        <3>1. s \in Seq(e) /\ Len(s) = 6
            OBVIOUS
        <3>2. \A i, j \in 1..6 : s[i] = s[j] => i = j
            OBVIOUS
        <3>3. Steps(c) = s /\ StepsOf(c) = e
            BY <2>5, CapabilitiesAre, StepSets
        <3> HIDE DEF s, e
        <3>4. Steps(c) \in Seq(StepsOf(c))
            BY <3>1, <3>3
        <3>5. Len(Steps(c)) = 6
            BY <3>1, <3>3
        <3> QED
            BY <3>2, <3>3, <3>4, <3>5
    <2> QED
        BY <2>1, <2>2, <2>3, <2>4, <2>5, CapabilitiesAre
<1>2. DOMAIN Steps(c) = 1..Len(Steps(c))
    BY <1>1
<1>3. StepsOf(c) = {Steps(c)[i] : i \in 1..Len(Steps(c))}
    BY <1>2 DEF StepsOf, Steps
<1> QED
    BY <1>1, <1>3 DEF AllSteps

LEMMA HeadAndTail ==
    ASSUME NEW S, NEW s \in Seq(S), s # <<>>
    PROVE  /\ Head(s) \in S /\ Tail(s) \in Seq(S)
           /\ Len(s) \in Nat \ {0} /\ Len(Tail(s)) = Len(s) - 1
           /\ Head(s) = s[1] /\ \A i \in 1..(Len(s) - 1) : Tail(s)[i] = s[i + 1]
           /\ \A c : Among(c, s) <=> c = Head(s) \/ Among(c, Tail(s))
<1> DEFINE n == Len(s)
           t == Tail(s)
<1>1. /\ Head(s) \in S /\ t \in Seq(S)
      /\ n \in Nat \ {0} /\ Len(t) = n - 1
      /\ Head(s) = s[1] /\ \A i \in 1..(n - 1) : t[i] = s[i + 1]
    OBVIOUS
<1>2. DOMAIN s = 1..n /\ DOMAIN t = 1..(n - 1)
    BY <1>1
<1> HIDE DEF n, t
<1>3. ASSUME NEW c, Among(c, s) PROVE c = Head(s) \/ Among(c, t)
    <2>1. PICK i \in 1..n : s[i] = c
        BY <1>2, <1>3 DEF Among
    <2>2. CASE i = 1
        BY <1>1, <2>1, <2>2
    <2>3. CASE i # 1
        <3>1. i - 1 \in 1..(n - 1) /\ i - 1 + 1 = i
            BY <1>1, <2>1, <2>3
        <3>2. t[i - 1] = c
            BY <1>1, <2>1, <3>1
        <3> QED
            BY <1>2, <3>1, <3>2 DEF Among
    <2> QED
        BY <2>2, <2>3
<1>4. ASSUME NEW c, Among(c, t) PROVE Among(c, s)
    <2>1. PICK i \in 1..(n - 1) : t[i] = c
        BY <1>2, <1>4 DEF Among
    <2>2. i + 1 \in 1..n /\ s[i + 1] = c
        BY <1>1, <2>1
    <2> QED
        BY <1>2, <2>2 DEF Among
<1>5. Among(Head(s), s)
    BY <1>1, <1>2 DEF Among
<1> QED
    BY <1>1, <1>3, <1>4, <1>5 DEF n, t

(* The assumption on the constants, for the prover.                        *)
LEMMA Bounds == MaxAttempts \in Nat \ {0} /\ MaxReplans \in Nat
    BY RetryAssumption DEF RetryAssumption

-----------------------------------------------------------------------------
(* The actions.  Those that touch neither the workspace nor the attempt.   *)

USE DEF workspace, attemptVars

LEMMA AnalyseStep == ASSUME IInv, Analyse PROVE IInv'
<1> USE DEF IInv
<1>1. tasks' \in Seq(Capabilities)
    <2>0. PICK n \in 0..Len(lexicon) :
              \E t \in Increasing(n, Len(lexicon)) : tasks' = [i \in 1..n |-> lexicon[t[i]]]
        BY DEF Analyse
    <2>1. PICK t \in Increasing(n, Len(lexicon)) : tasks' = [i \in 1..n |-> lexicon[t[i]]]
        BY <2>0
    <2>2. lexicon \in Seq(Capabilities)
        BY LexiconAssumption DEF LexiconAssumption, TypeOK
    <2>3. n \in Nat /\ t \in [1..n -> 1..Len(lexicon)]
        BY <2>1, <2>2 DEF Increasing
    <2>4. \A i \in 1..n : lexicon[t[i]] \in Capabilities
        BY <2>2, <2>3
    <2> QED
        BY <2>1, <2>3, <2>4
<1>2. TypeOK'
    BY <1>1 DEF TypeOK, Analyse
<1>3. AppliedInv' /\ RestInv'
    BY DEF Analyse, AppliedInv, RestInv, NotBegun
<1>4. UnderWayInv' /\ AttemptInv'
    BY DEF Analyse, UnderWayInv, AttemptInv
<1>5. VettedUnlessRetried' /\ ScanInv' /\ ReleaseHasNoSecret'
    BY DEF Analyse, ScanInv, VettedUnlessRetried, ReleaseHasNoSecret
<1> QED
    BY <1>2, <1>3, <1>4, <1>5

LEMMA PolicyScanStep == ASSUME IInv, PolicyScan PROVE IInv'
<1> USE DEF IInv
<1>1. TypeOK'
    BY DEF TypeOK, PolicyScan
<1>2. AppliedInv' /\ RestInv'
    BY DEF PolicyScan, AppliedInv, RestInv, NotBegun
<1>3. UnderWayInv' /\ AttemptInv'
    BY DEF PolicyScan, UnderWayInv, AttemptInv
<1>4. VettedUnlessRetried'
    BY DEF PolicyScan, VettedUnlessRetried, PassesExit, Passes, NoRawPII, NoSecrets,
           WritesLimited, Text
<1>5. ScanInv' /\ ReleaseHasNoSecret'
    <2> SUFFICES ASSUME scan' = "completed", NEW f \in Files PROVE "secret" \notin text[f]
        BY DEF ReleaseHasNoSecret, ScanInv, PolicyScan
    <2>1. NoSecrets(Text(Files))
        BY DEF PolicyScan, Passes, Scanned
    <2> QED
        BY <2>1 DEF NoSecrets, Text
<1> QED
    BY <1>1, <1>2, <1>3, <1>4, <1>5

LEMMA ReplanStep == ASSUME IInv, Replan PROVE IInv'
<1> USE DEF IInv
<1>1. TypeOK'
    BY Bounds DEF TypeOK, Replan
<1>2. AppliedInv' /\ RestInv'
    BY DEF Replan, AppliedInv, RestInv, NotBegun
<1>3. UnderWayInv' /\ AttemptInv'
    BY DEF Replan, UnderWayInv, AttemptInv
<1>4. VettedUnlessRetried' /\ ScanInv' /\ ReleaseHasNoSecret'
    BY DEF Replan, ScanInv, VettedUnlessRetried, ReleaseHasNoSecret
<1> QED
    BY <1>1, <1>2, <1>3, <1>4

LEMMA CompleteStep == ASSUME IInv, Complete PROVE IInv'
<1> USE DEF IInv
<1>1. TypeOK'
    BY DEF TypeOK, Complete
<1>2. AppliedInv'
    BY DEF Complete, AppliedInv
<1>3. \A i \in DOMAIN tasks : tasks[i] \in applied
    BY DEF Complete, Returned, AttemptInv, Among
<1>4. RestInv'
    <2>1. \A c \in Capabilities \ applied : NotBegun(c)
        BY <1>3 DEF Complete, Returned, AttemptInv, Among
    <2> QED
        BY <1>3, <2>1 DEF Complete, RestInv, NotBegun
<1>5. UnderWayInv' /\ AttemptInv'
    BY DEF Complete, UnderWayInv, AttemptInv
<1>6. VettedUnlessRetried'
    <2>1. attempt = 1 => PassesExit(applied \ before)
        BY DEF Complete, Returned, AttemptInv, ExitPassed
    <2> QED
        BY <2>1 DEF Complete, VettedUnlessRetried, PassesExit, Passes, NoRawPII, NoSecrets,
                    WritesLimited, Text
<1>7. ScanInv' /\ ReleaseHasNoSecret'
    BY DEF Complete, Returned, ScanInv, ReleaseHasNoSecret
<1> QED
    BY <1>1, <1>2, <1>4, <1>5, <1>6, <1>7

(* The actions of an attempt.                                              *)

LEMMA BeginStep == ASSUME IInv, Begin PROVE IInv'
<1> USE DEF IInv
<1>1. CASE tasks = <<>>
    <2>1. TypeOK'
        BY <1>1 DEF TypeOK, Begin
    <2>2. AppliedInv' /\ RestInv' /\ UnderWayInv' /\ AttemptInv'
        BY <1>1 DEF Begin, AppliedInv, RestInv, UnderWayInv, AttemptInv
    <2>3. VettedUnlessRetried' /\ ScanInv' /\ ReleaseHasNoSecret'
        BY <1>1 DEF Begin, VettedUnlessRetried, ScanInv, ReleaseHasNoSecret
    <2> QED
        BY <2>1, <2>2, <2>3
<1>2. CASE tasks # <<>>
    <2>0. /\ status' = "running" /\ attempt' = 1 /\ left' = tasks /\ steps' = <<>>
          /\ collected' = {} /\ before' = applied
          /\ UNCHANGED <<lexicon, lacking, text, times, tasks, applied, record, scan,
                         replans>>
        BY <1>2 DEF Begin, StartAttempt
    <2>1. TypeOK'
        BY <2>0, Bounds DEF TypeOK
    <2>2. AppliedInv' /\ RestInv' /\ UnderWayInv'
        BY <2>0 DEF AppliedInv, RestInv, UnderWayInv
    <2>3. \A c \in Capabilities \ applied : NotBegun(c)
        BY DEF Begin, RestInv
    <2>4. AttemptInv'
        <3>1. \A i \in DOMAIN tasks : Among(tasks[i], tasks)
            BY DEF Among
        <3>2. \A c \in Capabilities \ applied : \A p \in StepsOf(c) : times[p] <= 0
            BY <2>3 DEF NotBegun
        <3> QED
            BY <2>0, <2>3, <3>1, <3>2 DEF AttemptInv, Among, NotBegun
    <2>5. VettedUnlessRetried' /\ ScanInv' /\ ReleaseHasNoSecret'
        BY <2>0 DEF Begin, VettedUnlessRetried, ScanInv, ReleaseHasNoSecret
    <2> QED
        BY <2>1, <2>2, <2>4, <2>5
<1> QED
    BY <1>1, <1>2

LEMMA SkipTaskStep == ASSUME IInv, SkipTask PROVE IInv'
<1> USE DEF IInv
<1> DEFINE h == Head(left)
<1>0. /\ status = "running" /\ steps = <<>> /\ left # <<>> /\ h \in applied
      /\ left' = Tail(left)
      /\ UNCHANGED <<lexicon, lacking, text, times, tasks, applied, status, attempt,
                     steps, collected, record, scan, before, replans>>
    BY DEF SkipTask, AtTask, AlreadyApplied
<1>1. left \in Seq(Capabilities)
    BY DEF TypeOK
<1>2. /\ Tail(left) \in Seq(Capabilities)
      /\ \A c : Among(c, left) <=> c = h \/ Among(c, Tail(left))
    BY <1>0, <1>1, HeadAndTail
<1>3. TypeOK'
    BY <1>0, <1>2 DEF TypeOK
<1>4. AppliedInv' /\ RestInv' /\ UnderWayInv'
    BY <1>0 DEF AppliedInv, RestInv, UnderWayInv
<1>5. AttemptInv'
    <2>1. \A i \in DOMAIN tasks : tasks[i] \in applied \/ Among(tasks[i], Tail(left))
        BY <1>0, <1>2 DEF AttemptInv
    <2>2. \A i \in DOMAIN Tail(left) : Among(Tail(left)[i], tasks)
        <3> SUFFICES ASSUME NEW i \in DOMAIN Tail(left) PROVE Among(Tail(left)[i], tasks)
            OBVIOUS
        <3>1. Among(Tail(left)[i], left)
            BY <1>2 DEF Among
        <3> QED
            BY <1>0, <3>1 DEF AttemptInv, Among
    <2> HIDE DEF h
    <2> QED
        BY <1>0, <2>1, <2>2 DEF AttemptInv, Among, NotBegun
<1>6. VettedUnlessRetried' /\ ScanInv' /\ ReleaseHasNoSecret'
    BY <1>0 DEF VettedUnlessRetried, ScanInv, ReleaseHasNoSecret
<1> QED
    BY <1>3, <1>4, <1>5, <1>6

LEMMA DispatchStep == ASSUME IInv, Dispatch PROVE IInv'
<1> USE DEF IInv
<1> DEFINE h == Head(left)
<1>0. /\ status = "running" /\ steps = <<>> /\ left # <<>> /\ h \notin applied
      /\ steps' = Steps(h)
      /\ UNCHANGED <<lexicon, lacking, text, times, tasks, applied, status, attempt,
                     left, collected, record, scan, before, replans>>
    BY DEF Dispatch, AtTask, AlreadyApplied, Steps
<1>1. h \in Capabilities
    BY <1>0, HeadAndTail DEF TypeOK
<1>2. /\ Steps(h) \in Seq(AllSteps) /\ Len(Steps(h)) \in Nat \ {0}
      /\ \A i \in 1..Len(Steps(h)) : Steps(h)[i] \in StepsOf(h)
    BY <1>1, StepsListed
<1> HIDE DEF h
<1>3. TypeOK'
    BY <1>0, <1>2 DEF TypeOK
<1>4. AppliedInv' /\ RestInv'
    BY <1>0 DEF AppliedInv, RestInv
<1>5. AtStep(h, 1)'
    <2>1. \A p \in StepsOf(h) : times[p] <= attempt - 1
        BY <1>0, <1>1 DEF AttemptInv
    <2>2. h' = h
        BY <1>0 DEF h
    <2> SUFFICES /\ Len(Steps(h)) = Len(Steps(h)) - 1 + 1
                 /\ \A i \in 1..Len(Steps(h)) : Steps(h)[i] = Steps(h)[1 + i - 1]
                 /\ \A j \in 1..Len(Steps(h)) :
                        IF j < 1 THEN times[Steps(h)[j]] \in 1..attempt
                        ELSE times[Steps(h)[j]] <= attempt - 1
        BY <1>0, <2>2 DEF AtStep, Steps
    <2>3. \A i \in 1..Len(Steps(h)) : 1 + i - 1 = i /\ ~(i < 1)
        BY <1>2
    <2>4. Len(Steps(h)) = Len(Steps(h)) - 1 + 1
        BY <1>2
    <2> QED
        BY <1>2, <2>1, <2>3, <2>4
<1>6. UnderWayInv'
    <2>1. 1 \in 1..Len(Steps(h))
        BY <1>2
    <2> QED
        BY <1>0, <1>5, <2>1 DEF UnderWayInv, AtStep, Steps, h
<1>7. AttemptInv'
    BY <1>0 DEF AttemptInv, Among, NotBegun
<1>8. VettedUnlessRetried' /\ ScanInv' /\ ReleaseHasNoSecret'
    BY <1>0 DEF VettedUnlessRetried, ScanInv, ReleaseHasNoSecret
<1> QED
    BY <1>3, <1>4, <1>6, <1>7, <1>8

(* Whatever raised, the next attempt starts over on the same workspace.    *)
LEMMA RetryStep ==
    ASSUME IInv, status = "running", AttemptRaises,
           UNCHANGED <<lexicon, lacking, workspace, tasks, applied, record, scan, before,
                       replans>>
    PROVE  IInv'
<1> USE DEF IInv
<1>0. UNCHANGED <<lexicon, lacking, text, times, tasks, applied, record, scan, before,
                  replans>>
    OBVIOUS
<1>1. CASE ~(attempt < MaxAttempts)
    <2>0. status' = "failed" /\ UNCHANGED <<attempt, left, steps, collected>>
        BY <1>1 DEF AttemptRaises
    <2>1. TypeOK'
        BY <1>0, <2>0 DEF TypeOK
    <2>2. AppliedInv' /\ RestInv' /\ UnderWayInv' /\ AttemptInv'
        BY <1>0, <2>0 DEF AppliedInv, RestInv, UnderWayInv, AttemptInv
    <2>3. VettedUnlessRetried' /\ ScanInv' /\ ReleaseHasNoSecret'
        BY <1>0, <2>0 DEF VettedUnlessRetried, ScanInv, ReleaseHasNoSecret
    <2> QED
        BY <2>1, <2>2, <2>3
<1>2. CASE attempt < MaxAttempts
    <2>0. /\ status' = "running" /\ attempt' = attempt + 1 /\ left' = tasks
          /\ steps' = <<>> /\ collected' = {}
        BY <1>2 DEF AttemptRaises, StartAttempt
    <2>1. attempt \in Nat /\ attempt >= 1
        BY Bounds DEF TypeOK, AttemptInv
    <2>2. TypeOK'
        <3>1. attempt' \in 0..MaxAttempts
            BY <1>2, <2>0, <2>1, Bounds
        <3> QED
            BY <1>0, <2>0, <3>1 DEF TypeOK
    <2>3. AppliedInv' /\ RestInv' /\ UnderWayInv'
        BY <1>0, <2>0 DEF AppliedInv, RestInv, UnderWayInv
    <2>4. ASSUME NEW c \in Capabilities \ applied, NEW p \in StepsOf(c)
          PROVE  times[p] <= attempt
        <3>0. times[p] \in Nat
            BY StepsListed, Bounds DEF TypeOK
        <3>1. CASE steps = <<>> \/ c # Head(left)
            BY <2>1, <3>0, <3>1 DEF AttemptInv
        <3>2. CASE ~(steps = <<>> \/ c # Head(left))
            <4>1. PICK k \in 1..Len(Steps(c)) : AtStep(c, k)
                BY <3>2 DEF UnderWayInv
            <4>2. PICK j \in 1..Len(Steps(c)) : p = Steps(c)[j]
                BY StepsListed
            <4>3. times[p] \in 1..attempt \/ times[p] <= attempt - 1
                BY <4>1, <4>2 DEF AtStep
            <4> QED
                BY <2>1, <3>0, <4>3
        <3> QED
            BY <3>1, <3>2
    <2>5. AttemptInv'
        <3>1. attempt' >= 1 /\ attempt' # 1 /\ attempt' - 1 = attempt
            BY <2>0, <2>1
        <3>2. \A i \in DOMAIN tasks : Among(tasks[i], tasks)
            BY DEF Among
        <3>3. \A c \in Capabilities \ applied : ~Among(c, tasks) => NotBegun(c)
            BY DEF AttemptInv
        <3> QED
            BY <1>0, <2>0, <2>4, <3>1, <3>2, <3>3 DEF AttemptInv, Among, NotBegun
    <2>6. VettedUnlessRetried' /\ ScanInv' /\ ReleaseHasNoSecret'
        BY <1>0, <2>0 DEF VettedUnlessRetried, ScanInv, ReleaseHasNoSecret
    <2> QED
        BY <2>2, <2>3, <2>5, <2>6
<1> QED
    BY <1>1, <1>2

LEMMA HandlerRaisesStep == ASSUME IInv, HandlerRaises PROVE IInv'
    BY RetryStep DEF HandlerRaises

LEMMA PolicyViolationStep == ASSUME IInv, PolicyViolation PROVE IInv'
    BY RetryStep DEF PolicyViolation, Returned

LEMMA MarkedText ==
    ASSUME TypeOK, NEW p PROVE Marked(p) \in [Files -> SUBSET Marks]
<1>1. Baseline \in [Files -> SUBSET Marks]
    BY DEF Baseline, Files, Marks
<1>2. [text EXCEPT !["latency"] = {}] \in [Files -> SUBSET Marks]
    BY DEF TypeOK
<1>3. [text EXCEPT !["main"] = @ \union {"post", "limiting"}] \in [Files -> SUBSET Marks]
    BY DEF TypeOK, Files, Marks
<1>4. [text EXCEPT !["analytics"] = @ \union {"clicks"}] \in [Files -> SUBSET Marks]
    BY DEF TypeOK, Files, Marks
<1>5. text \in [Files -> SUBSET Marks]
    BY DEF TypeOK
<1> QED
    BY <1>1, <1>2, <1>3, <1>4, <1>5 DEF Marked

(* A step of the capability c, the k-th of its N, touches only its own     *)
(* count, and is the last one just when k is N.                            *)
LEMMA OneStep ==
    ASSUME IInv, Apply, NEW c, c = Head(left), NEW k \in 1..Len(Steps(c)), AtStep(c, k)
    PROVE  /\ c \in Capabilities /\ c \notin applied
           /\ Head(steps) = Steps(c)[k] /\ Steps(c)[k] \in StepsOf(c)
           /\ (Tail(steps) = <<>>) <=> (k = Len(Steps(c)))
           /\ Tail(steps) \in Seq(AllSteps) /\ Len(Tail(steps)) = Len(Steps(c)) - k
           /\ \A i \in 1..Len(Tail(steps)) : Tail(steps)[i] = Steps(c)[k + i]
           /\ applied' = IF k = Len(Steps(c)) THEN applied \union {c} ELSE applied
           /\ times'[Steps(c)[k]] \in 1..attempt
           /\ times' \in [AllSteps -> 0..MaxAttempts]
           /\ \A p \in AllSteps : p # Steps(c)[k] => times'[p] = times[p]
<1> USE DEF IInv
<1> DEFINE N == Len(Steps(c))
           p == Steps(c)[k]
<1>0. /\ status = "running" /\ steps # <<>>
      /\ times' = [times EXCEPT ![Head(steps)] =
                       IF Head(steps) \in Writes THEN 1 ELSE @ + 1]
      /\ applied' = IF Head(steps) = Last(Steps(c)) THEN applied \union {c} ELSE applied
    BY DEF Apply, AppliedAfter, Steps
<1>1. c \in Capabilities /\ c \notin applied
    BY <1>0, HeadAndTail DEF UnderWayInv, TypeOK
<1>2. /\ N \in Nat \ {0} /\ Steps(c) \in Seq(StepsOf(c)) /\ StepsOf(c) \subseteq AllSteps
      /\ \A i, j \in 1..N : Steps(c)[i] = Steps(c)[j] => i = j
      /\ \A i \in 1..N : Steps(c)[i] \in StepsOf(c)
    BY <1>1, StepsListed
<1>3. /\ Tail(steps) \in Seq(AllSteps)
      /\ Len(steps) \in Nat \ {0} /\ Len(Tail(steps)) = Len(steps) - 1
      /\ Head(steps) = steps[1]
      /\ \A i \in 1..(Len(steps) - 1) : Tail(steps)[i] = steps[i + 1]
    BY <1>0, HeadAndTail DEF TypeOK
<1>4. Len(steps) = N - k + 1 /\ \A i \in 1..Len(steps) : steps[i] = Steps(c)[k + i - 1]
    BY DEF AtStep
<1>5. Head(steps) = p
    <2>1. 1 \in 1..Len(steps) /\ k + 1 - 1 = k
        BY <1>3
    <2> QED
        BY <1>3, <1>4, <2>1
<1>6. Len(Tail(steps)) = N - k
    BY <1>2, <1>3, <1>4
<1>7. ASSUME NEW i \in 1..Len(Tail(steps)) PROVE Tail(steps)[i] = Steps(c)[k + i]
    <2>1. i \in 1..(Len(steps) - 1) /\ i + 1 \in 1..Len(steps) /\ k + (i + 1) - 1 = k + i
        BY <1>2, <1>3, <1>4
    <2> QED
        BY <1>3, <1>4, <2>1
<1>8. (Tail(steps) = <<>>) <=> (k = N)
    <2>1. (Tail(steps) = <<>>) <=> (Len(Tail(steps)) = 0)
        BY <1>3, EmptySeq
    <2>2. (N - k = 0) <=> (k = N)
        BY <1>2
    <2> HIDE DEF N
    <2> QED
        BY <1>6, <2>1, <2>2
<1>9. (p = Last(Steps(c))) <=> (k = N)
    <2>1. Last(Steps(c)) = Steps(c)[N] /\ N \in 1..N
        BY <1>2 DEF Last
    <2> QED
        BY <1>2, <2>1
<1>10. applied' = IF k = N THEN applied \union {c} ELSE applied
    BY <1>0, <1>5, <1>9
<1>11. attempt \in 1..MaxAttempts
    BY <1>0, Bounds DEF TypeOK, AttemptInv
<1>12. p \in AllSteps /\ times[p] \in Nat /\ times[p] <= attempt - 1
    <2>1. p \in AllSteps
        BY <1>2
    <2>2. times[p] \in 0..MaxAttempts
        BY <2>1 DEF TypeOK
    <2>3. ~(k < k)
        OBVIOUS
    <2> QED
        BY <2>1, <2>2, <2>3, Bounds DEF AtStep
<1> HIDE DEF p
<1>13. times' = [times EXCEPT ![p] = IF p \in Writes THEN 1 ELSE times[p] + 1]
    BY <1>0, <1>5
<1>14. times \in [AllSteps -> 0..MaxAttempts]
    BY DEF TypeOK
<1>15. (IF p \in Writes THEN 1 ELSE times[p] + 1) \in 1..attempt
    BY <1>11, <1>12
<1>16. times'[p] \in 1..attempt /\ \A q \in AllSteps : q # p => times'[q] = times[q]
    BY <1>12, <1>13, <1>14, <1>15
<1>17. times' \in [AllSteps -> 0..MaxAttempts]
    <2> DEFINE v == IF p \in Writes THEN 1 ELSE times[p] + 1
    <2>1. v \in 0..MaxAttempts
        BY <1>11, <1>15, Bounds
    <2> HIDE DEF v
    <2>2. [times EXCEPT ![p] = v] \in [AllSteps -> 0..MaxAttempts]
        BY <1>14, <2>1
    <2> QED
        BY <1>13, <2>2 DEF v
<1> QED
    BY <1>1, <1>2, <1>3, <1>5, <1>6, <1>7, <1>8, <1>10, <1>16, <1>17 DEF p

LEMMA ApplyStep == ASSUME IInv, Apply PROVE IInv'
<1> USE DEF IInv
<1> DEFINE c == Head(left)
           N == Len(Steps(c))
<1>0. /\ status = "running" /\ steps # <<>> /\ left # <<>>
      /\ text' = Marked(Head(steps))
      /\ collected' = IF Tail(steps) = <<>> THEN collected \union {c} ELSE collected
      /\ left' = IF Tail(steps) = <<>> THEN Tail(left) ELSE left
      /\ steps' = Tail(steps)
      /\ UNCHANGED <<lexicon, lacking, tasks, status, attempt, record, scan, before,
                     replans>>
    BY DEF Apply, UnderWayInv
<1>1. PICK k \in 1..N : AtStep(c, k)
    BY <1>0 DEF UnderWayInv
<1> DEFINE p == Steps(c)[k]
<1>2. /\ c \in Capabilities /\ c \notin applied
      /\ p \in StepsOf(c)
      /\ (Tail(steps) = <<>>) <=> (k = N)
      /\ Tail(steps) \in Seq(AllSteps) /\ Len(Tail(steps)) = N - k
      /\ \A i \in 1..Len(Tail(steps)) : Tail(steps)[i] = Steps(c)[k + i]
      /\ applied' = IF k = N THEN applied \union {c} ELSE applied
      /\ times'[p] \in 1..attempt
      /\ times' \in [AllSteps -> 0..MaxAttempts]
      /\ \A q \in AllSteps : q # p => times'[q] = times[q]
    BY <1>1, OneStep
<1>3. /\ N \in Nat \ {0} /\ StepsOf(c) \subseteq AllSteps
      /\ \A i, j \in 1..N : Steps(c)[i] = Steps(c)[j] => i = j
      /\ StepsOf(c) = {Steps(c)[i] : i \in 1..N}
    BY <1>2, StepsListed
<1>4. /\ left \in Seq(Capabilities) /\ Tail(left) \in Seq(Capabilities)
      /\ \A d : Among(d, left) <=> d = c \/ Among(d, Tail(left))
    <2>1. left \in Seq(Capabilities)
        BY DEF TypeOK
    <2> QED
        BY <1>0, <2>1, HeadAndTail
<1>5. attempt \in 1..MaxAttempts /\ MaxAttempts \in Nat
    BY <1>0, Bounds DEF TypeOK, AttemptInv
<1>6. ASSUME NEW d \in Capabilities, d # c, NEW q \in StepsOf(d)
      PROVE  times'[q] = times[q]
    <2>1. q \in AllSteps /\ q # p
        BY <1>2, <1>6, StepsListed, StepsApart
    <2> QED
        BY <1>2, <2>1
<1>7. ASSUME NEW j \in 1..N
      PROVE  IF j < k + 1 THEN times'[Steps(c)[j]] \in 1..attempt
             ELSE times'[Steps(c)[j]] <= attempt - 1
    <2>1. CASE j = k
        BY <1>2, <1>3, <2>1
    <2>2. CASE j # k
        <3>1. Steps(c)[j] # p /\ Steps(c)[j] \in AllSteps
            BY <1>1, <1>3, <2>2
        <3>2. times'[Steps(c)[j]] = times[Steps(c)[j]]
            BY <1>2, <3>1
        <3>3. IF j < k THEN times[Steps(c)[j]] \in 1..attempt
              ELSE times[Steps(c)[j]] <= attempt - 1
            BY <1>1 DEF AtStep
        <3>4. (j < k + 1) <=> (j < k)
            BY <1>1, <1>3, <2>2
        <3> QED
            BY <3>2, <3>3, <3>4
    <2> QED
        BY <2>1, <2>2
<1> HIDE DEF c, N, p
<1>8. TypeOK'
    <2>1. text' \in [Files -> SUBSET Marks]
        BY <1>0, MarkedText
    <2>2. applied' \in SUBSET Capabilities /\ before \in SUBSET applied'
          /\ collected' \in SUBSET Capabilities
        BY <1>0, <1>2 DEF TypeOK
    <2>3. left' \in Seq(Capabilities) /\ steps' \in Seq(AllSteps)
        BY <1>0, <1>2, <1>4
    <2> QED
        BY <1>0, <1>2, <2>1, <2>2, <2>3 DEF TypeOK
<1>9. AppliedInv'
    <2> SUFFICES ASSUME NEW d \in applied', NEW q \in StepsOf(d) PROVE times'[q] >= 1
        BY DEF AppliedInv, StepsOf
    <2>1. CASE d = c
        <3>1. k = N
            BY <1>2, <2>1
        <3>2. PICK j \in 1..N : q = Steps(c)[j]
            BY <1>3, <2>1
        <3>3. j < k + 1
            BY <1>3, <3>1
        <3> QED
            BY <1>5, <1>7, <3>2, <3>3
    <2>2. CASE d # c
        <3>1. d \in applied /\ d \in Capabilities
            BY <1>2, <2>2 DEF TypeOK
        <3> QED
            BY <1>6, <2>2, <3>1 DEF AppliedInv
    <2> QED
        BY <2>1, <2>2
<1>10. RestInv'
    BY <1>0 DEF RestInv
<1>11. UnderWayInv'
    <2> SUFFICES ASSUME Tail(steps) # <<>> PROVE UnderWayInv'
        BY <1>0 DEF UnderWayInv
    <2>1. k # N /\ left' = left /\ applied' = applied /\ k + 1 \in 1..N
        BY <1>0, <1>1, <1>2, <1>3
    <2>2. /\ Len(steps') = N - (k + 1) + 1
          /\ \A i \in 1..Len(steps') : steps'[i] = Steps(c)[(k + 1) + i - 1]
        <3>1. N - k = N - (k + 1) + 1
            BY <1>1, <1>3
        <3>2. \A i \in 1..(N - k) : k + i = (k + 1) + i - 1
            BY <1>1, <1>3
        <3> QED
            BY <1>0, <1>2, <3>1, <3>2
    <2>3. AtStep(c, k + 1)'
        <3>1. c' = c
            BY <2>1 DEF c
        <3> QED
            BY <1>0, <1>7, <2>2, <3>1 DEF AtStep, N, Steps
    <2>4. left' # <<>> /\ Head(left') = c /\ c \notin applied'
        BY <1>0, <1>2, <2>1 DEF c
    <2>5. \E m \in 1..Len(Steps(c)) : AtStep(c, m)'
        BY <2>1, <2>3 DEF N
    <2>6. c' = c
        BY <2>1 DEF c
    <2> QED
        BY <2>4, <2>5, <2>6 DEF UnderWayInv, Steps, AtStep
<1>12. AttemptInv'
    <2>1. \A i \in DOMAIN tasks : tasks[i] \in applied' \/ Among(tasks[i], left')
        BY <1>0, <1>2, <1>4 DEF AttemptInv
    <2>2. \A d : Among(d, left) => Among(d, tasks)
        BY <1>0 DEF AttemptInv, Among
    <2>3. \A i \in DOMAIN left' : Among(left'[i], tasks)
        <3>1. \A d : Among(d, left') => Among(d, left)
            BY <1>0, <1>4
        <3> QED
            BY <2>2, <3>1 DEF Among
    <2>4. attempt = 1 => collected' = applied' \ before
        <3>1. attempt = 1 => collected = applied \ before
            BY <1>0 DEF AttemptInv
        <3>2. before \subseteq applied
            BY DEF TypeOK
        <3> QED
            BY <1>0, <1>2, <3>1, <3>2
    <2>5. ASSUME NEW d \in Capabilities \ applied'
          PROVE  /\ ~Among(d, tasks) => \A q \in StepsOf(d) : times'[q] = 0
                 /\ steps' = <<>> \/ d # Head(left') =>
                        \A q \in StepsOf(d) : times'[q] <= attempt - 1
        <3>1. CASE d = c
            <4>1. k # N
                BY <1>2, <2>5, <3>1
            <4>2. steps' # <<>> /\ Head(left') = c
                BY <1>0, <1>2, <4>1 DEF c
            <4>3. Among(c, tasks)
                BY <1>4, <2>2
            <4> QED
                BY <3>1, <4>2, <4>3
        <3>2. CASE d # c
            <4>1. d \in Capabilities \ applied
                BY <1>2, <2>5
            <4>2. ~Among(d, tasks) => NotBegun(d)
                BY <1>0, <4>1 DEF AttemptInv
            <4>3. \A q \in StepsOf(d) : times[q] <= attempt - 1
                BY <1>0, <3>2, <4>1 DEF AttemptInv, c
            <4> QED
                BY <1>6, <3>2, <4>2, <4>3 DEF NotBegun
        <3> QED
            BY <3>1, <3>2
    <2>6. attempt' = attempt /\ tasks' = tasks /\ before' = before /\ attempt >= 1
        BY <1>0, <1>5
    <2>7. /\ \A i \in DOMAIN tasks : (tasks[i] \in applied \/ Among(tasks[i], left))'
          /\ \A i \in DOMAIN left' : Among(left'[i], tasks')
        BY <2>1, <2>3, <2>6 DEF Among
    <2>8. \A d \in Capabilities \ applied' :
              /\ ~Among(d, tasks') => NotBegun(d)'
              /\ steps' = <<>> \/ d # Head(left') =>
                     \A q \in StepsOf(d) : times'[q] <= attempt' - 1
        BY <2>5, <2>6 DEF NotBegun, StepsOf
    <2> QED
        BY <2>4, <2>6, <2>7, <2>8 DEF AttemptInv, Among, NotBegun, StepsOf
<1>13. VettedUnlessRetried' /\ ScanInv' /\ ReleaseHasNoSecret'
    BY <1>0 DEF VettedUnlessRetried, ScanInv, ReleaseHasNoSecret
<1> QED
    BY <1>8, <1>9, <1>10, <1>11, <1>12, <1>13

-----------------------------------------------------------------------------
(* The invariant, and what follows from it.                                *)

LEMMA InvInit == Init => IInv
<1> SUFFICES ASSUME Init PROVE IInv
    OBVIOUS
<1>1. text \in [Files -> SUBSET Marks]
    BY SeedAssumption DEF Init, Workspaces, Empty, SeedAssumption
<1>2. times \in [AllSteps -> 0..MaxAttempts]
    BY Bounds DEF Init
<1>3. TypeOK
    BY <1>1, <1>2, Bounds DEF Init, TypeOK
<1>4. \A c \in Capabilities : NotBegun(c)
    <2> SUFFICES ASSUME NEW c \in Capabilities, NEW p \in StepsOf(c) PROVE times[p] = 0
        BY DEF NotBegun
    <2>1. p \in AllSteps
        BY StepsListed
    <2> QED
        BY <2>1 DEF Init
<1>5. AppliedInv /\ RestInv
    BY <1>4 DEF Init, AppliedInv, RestInv
<1>6. UnderWayInv /\ AttemptInv /\ VettedUnlessRetried /\ ScanInv /\ ReleaseHasNoSecret
    BY DEF Init, UnderWayInv, AttemptInv, VettedUnlessRetried, ScanInv, ReleaseHasNoSecret
<1> QED
    BY <1>3, <1>5, <1>6 DEF IInv

LEMMA InvStutter == ASSUME IInv, UNCHANGED vars PROVE IInv'
<1> USE DEF IInv, vars
<1>1. TypeOK' /\ AppliedInv' /\ RestInv'
    BY DEF TypeOK, AppliedInv, RestInv, NotBegun
<1>2. UnderWayInv'
    BY DEF UnderWayInv, AtStep, Steps
<1>3. AttemptInv'
    BY DEF AttemptInv, NotBegun, Among
<1>4. VettedUnlessRetried' /\ ScanInv' /\ ReleaseHasNoSecret'
    BY DEF VettedUnlessRetried, ScanInv, ReleaseHasNoSecret, PassesExit, Passes, NoRawPII,
           NoSecrets, WritesLimited, Text
<1> QED
    BY <1>1, <1>2, <1>3, <1>4

LEMMA InvStep == IInv /\ [Next]_vars => IInv'
<1> SUFFICES ASSUME IInv, [Next]_vars PROVE IInv'
    OBVIOUS
<1> USE AnalyseStep, BeginStep, SkipTaskStep, DispatchStep, ApplyStep, HandlerRaisesStep,
        CompleteStep, PolicyViolationStep, PolicyScanStep, ReplanStep, InvStutter
<1> QED
    BY DEF Next

(* The inductive invariant: what is applied is applied in full, what is    *)
(* not has not been begun between executions, and the counts of the steps  *)
(* tell how far the capability under way has come.                         *)
THEOREM ImplementationInvariant == Spec => []IInv
<1>1. Init => IInv
    BY InvInit
<1>2. IInv /\ [Next]_vars => IInv'
    BY InvStep
<1> QED
    BY <1>1, <1>2, PTL DEF Spec

(* Every variable keeps its type; no step's text is in the workspace more  *)
(* often than there are attempts.                                          *)
THEOREM TypeCorrect == Spec => []TypeOK
<1>1. IInv => TypeOK
    BY DEF IInv
<1> QED
    BY <1>1, ImplementationInvariant, PTL

(* Whatever raised, was retried or was planned before, a completed         *)
(* implementation has its tasks applied in full and nothing else begun.    *)
THEOREM CompletedIsWhole == Spec => []NothingHalfApplied
<1>1. IInv => NothingHalfApplied
    <2> SUFFICES ASSUME IInv, status = "completed" PROVE NothingHalfApplied
        BY DEF NothingHalfApplied
    <2>1. \A i \in DOMAIN tasks : tasks[i] \in applied
        BY DEF IInv, RestInv
    <2>2. \A c \in applied : \A p \in StepsOf(c) : times[p] >= 1
        BY DEF IInv, AppliedInv
    <2>3. \A c \in Capabilities \ applied : \A p \in StepsOf(c) : times[p] = 0
        BY DEF IInv, RestInv, NotBegun
    <2> QED
        BY <2>1, <2>2, <2>3 DEF NothingHalfApplied
<1> QED
    BY <1>1, ImplementationInvariant, PTL

(* What completes at its first attempt has had all it applied vetted at    *)
(* the exit gate.                                                          *)
THEOREM FirstAttemptIsVetted == Spec => []VettedUnlessRetried
<1>1. IInv => VettedUnlessRetried
    BY DEF IInv
<1> QED
    BY <1>1, ImplementationInvariant, PTL

(* What the release waits for leaves no secret in a module, whatever an    *)
(* attempt that failed has left there.                                     *)
THEOREM ReleaseIsClean == Spec => []ReleaseHasNoSecret
<1>1. IInv => ReleaseHasNoSecret
    BY DEF IInv
<1> QED
    BY <1>1, ImplementationInvariant, PTL

(* Neither a retry nor a re-plan touches again what has been applied.      *)
THEOREM OnlyTheDelta == Spec => AppliedStaysUntouched
<1> DEFINE Untouched == \A c \in applied : \A p \in StepsOf(c) : times'[p] = times[p]
<1>1. ASSUME IInv, [Next]_vars PROVE [Untouched]_vars
    <2>1. CASE Apply
        <3> SUFFICES ASSUME NEW d \in applied, NEW q \in StepsOf(d)
                     PROVE  times'[q] = times[q]
            OBVIOUS
        <3>1. PICK k \in 1..Len(Steps(Head(left))) : AtStep(Head(left), k)
            BY <1>1, <2>1 DEF IInv, UnderWayInv, Apply
        <3>2. /\ Head(left) \in Capabilities /\ Head(left) \notin applied
              /\ Steps(Head(left))[k] \in StepsOf(Head(left))
              /\ \A p \in AllSteps : p # Steps(Head(left))[k] => times'[p] = times[p]
            BY <1>1, <2>1, <3>1, OneStep
        <3>3. d \in Capabilities
            BY <1>1 DEF IInv, TypeOK
        <3>4. q \in AllSteps
            BY <3>3, StepsListed
        <3>5. StepsOf(d) \cap StepsOf(Head(left)) = {}
            <4>1. d # Head(left)
                BY <3>2
            <4> QED
                BY <3>2, <3>3, <4>1, StepsApart
        <3>6. q # Steps(Head(left))[k]
            BY <3>2, <3>5
        <3> QED
            BY <3>2, <3>4, <3>6
    <2>2. CASE UNCHANGED times
        BY <2>2
    <2> QED
        BY <1>1, <2>1, <2>2 DEF Next, vars, Analyse, Begin, SkipTask, Dispatch,
           HandlerRaises, Complete, PolicyViolation, PolicyScan, Replan
<1>2. IInv /\ [Next]_vars => [Untouched]_vars
    BY <1>1
<1> QED
    BY <1>2, ImplementationInvariant, PTL DEF Spec, AppliedStaysUntouched

=============================================================================

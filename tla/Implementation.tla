--------------------------- MODULE Implementation ---------------------------
(***************************************************************************)
(* The implementation node of a scenario with what surrounds it: the       *)
(* requirements node that decides its tasks, the retries around it         *)
(* (orchestrator/reliability.py), the policy rules at its exit             *)
(* (governance.py), the capabilities that patch the workspace              *)
(* (capabilities.py), and the policy scan after it (agents.py).            *)
(*                                                                         *)
(* What a capability does to the workspace is a sequence of steps, each    *)
(* the patch of one file at an anchor or the writing of a whole one.       *)
(* What an attempt has done stays done when the attempt fails.             *)
(***************************************************************************)
EXTENDS Integers, Sequences, SequencesExt

CONSTANTS
    Lexicons,     \* the task lexicons of the scenarios, as capabilities
    Seeds,        \* what the seeded app modules may contain, as marks
    MayLack,      \* patches whose anchor a seed may lack
    Flaky,        \* steps whose reads and writes may raise OSError
    MaxAttempts,  \* retry_policy.max_attempts of the node
    MaxReplans    \* bound on the number of re-plans

(* The app modules that matter to the rules, and the marks the rules look  *)
(* for in their text: "clicks", "ip_hash" or "hashlib", a secret literal,  *)
(* "@app.post" and "rate_limit".                                           *)
Files == {"main", "analytics", "shortener", "latency", "db"}
Marks == {"clicks", "hashing", "secret", "post", "limiting"}

Baseline ==
    [main |-> {"hashing", "post", "limiting"}, analytics |-> {"clicks"},
     shortener |-> {"clicks", "hashing"}, latency |-> {}, db |-> {"clicks", "hashing"}]

Empty == [f \in Files |-> {}]

(* What each capability does, under the labels the code gives its steps,   *)
(* and what it returns: the modules whose text it quotes, its new and its  *)
(* tested endpoints.                                                       *)
ScaffoldService ==
    [steps |-> <<"copytree">>,
     sources |-> Files, new |-> {"shorten", "redirect"}, tested |-> {"shorten", "redirect"}]
FixAliasRaceCondition ==
    [steps |-> <<"fix:imports", "fix:create_short_link", "fix:test">>,
     sources |-> {"shortener"}, new |-> {}, tested |-> {}]
AddBulkShortenEndpoint ==
    [steps |-> <<"bulk:imports", "bulk:route", "bulk:config", "bulk:test">>,
     sources |-> {"main"}, new |-> {"bulk"}, tested |-> {"bulk"}]
AddAnalyticsSummaryEndpoint ==
    [steps |-> <<"summary:analytics_module", "summary:route", "summary:test">>,
     sources |-> {"main", "analytics"}, new |-> {"summary"}, tested |-> {"summary"}]
AddLatencyPercentile ==
    [steps |-> <<"latency:module", "latency:import", "latency:after_request",
                 "latency:summary_route", "latency:ops_summary_signature",
                 "latency:test">>,
     sources |-> {"main", "analytics", "latency"}, new |-> {}, tested |-> {"summary"}]

Registry ==
    [scaffold_service |-> ScaffoldService,
     fix_alias_race_condition |-> FixAliasRaceCondition,
     add_bulk_shorten_endpoint |-> AddBulkShortenEndpoint,
     add_analytics_summary_endpoint |-> AddAnalyticsSummaryEndpoint,
     add_latency_percentile |-> AddLatencyPercentile]

Capabilities == DOMAIN Registry
StepsOf(c) == {Registry[c].steps[i] : i \in DOMAIN Registry[c].steps}
AllSteps == UNION {StepsOf(c) : c \in Capabilities}

(* Every task of a lexicon names a registered capability.                  *)
ASSUME LexiconAssumption == Lexicons \subseteq Seq(Capabilities)

ASSUME RetryAssumption == MaxAttempts \in Nat \ {0} /\ MaxReplans \in Nat

ASSUME SeedAssumption == Seeds \subseteq [Files -> SUBSET Marks]

(* Steps that write a whole file.  The others replace the first occurrence *)
(* of their anchor, these by a text that does not hold the anchor again.   *)
Writes == {"copytree", "latency:module", "fix:test", "bulk:test", "summary:test",
           "latency:test"}
FixConsumes == {"fix:imports", "fix:create_short_link"}
BulkConsumes == {"bulk:imports"}
LatencyConsumes == {"latency:after_request", "latency:summary_route",
                    "latency:ops_summary_signature"}
Consuming == FixConsumes \union BulkConsumes \union LatencyConsumes

(* The patches whose anchor is text of another patch.                      *)
Provider == [p \in {"latency:summary_route", "latency:ops_summary_signature"} |->
                IF p = "latency:summary_route" THEN "summary:route"
                ELSE "summary:analytics_module"]

VARIABLES
    lexicon,    \* of the scenario
    lacking,    \* patches whose anchor the seed lacks
    text,       \* the marks in each app module of the workspace
    times,      \* how many times each step's text is in the workspace
    tasks,      \* spec["tasks"], as capabilities
    applied,    \* spec["applied_capabilities"]
    status,     \* of the implementation node; "waiting" for the requirements
    attempt,    \* the attempt under way, or the last
    left,       \* tasks this attempt has still to look at
    steps,      \* steps left of the capability being applied
    collected,  \* capabilities whose results this attempt holds
    record,     \* capabilities whose results the node's record holds
    scan,       \* status of policy_scan
    before,     \* what was applied when this execution began (observed only)
    replans     \* re-plans so far (for the bound)

workspace == <<text, times>>
attemptVars == <<attempt, left, steps, collected>>
vars == <<lexicon, lacking, workspace, tasks, applied, status, attemptVars, record,
          scan, before, replans>>

(* create_empty_workspace for what is built from scratch, else             *)
(* create_seeded_workspace.                                                *)
Workspaces(l) == IF l = <<"scaffold_service">> THEN {Empty} ELSE Seeds

Init ==
    /\ lexicon \in Lexicons
    /\ lacking \in SUBSET MayLack
    /\ text \in Workspaces(lexicon)
    /\ times = [p \in AllSteps |-> 0]
    /\ tasks = <<>> /\ applied = {}
    /\ status = "waiting" /\ scan = "pending"
    /\ attempt = 0 /\ left = <<>> /\ steps = <<>> /\ collected = {}
    /\ record = {} /\ before = {} /\ replans = 0

-----------------------------------------------------------------------------
(* The policy rules and the gate.                                          *)

Text(fs) == UNION {text[f] : f \in fs}

NoRawPII(src) == "clicks" \in src => "hashing" \in src
NoSecrets(src) == "secret" \notin src
WritesLimited(src) == "post" \in src => "limiting" \in src
EndpointsTested(cs) ==
    UNION {Registry[c].new : c \in cs} \subseteq UNION {Registry[c].tested : c \in cs}

(* PolicyEngine.evaluate does not raise.  Every rule is blocking.          *)
Passes(src, cs) ==
    /\ NoRawPII(src)
    /\ NoSecrets(src)
    /\ WritesLimited(src)
    /\ EndpointsTested(cs)

(* The payload of the implementation: what the capabilities cs returned.   *)
PassesExit(cs) == Passes(Text(UNION {Registry[c].sources : c \in cs}), cs)

-----------------------------------------------------------------------------
(* The requirements handler selects the tasks whose triggers the current   *)
(* text holds, in the order of the lexicon; any text is possible.          *)
Increasing(n, m) ==
    {t \in [1..n -> 1..m] : \A i, j \in 1..n : i < j => t[i] < t[j]}

Analyse ==
    /\ status = "waiting"
    /\ \E n \in 0..Len(lexicon) : \E t \in Increasing(n, Len(lexicon)) :
           tasks' = [i \in 1..n |-> lexicon[t[i]]]
    /\ status' = "pending"
    /\ UNCHANGED <<lexicon, lacking, workspace, applied, attemptVars, record, scan,
                   before, replans>>

(* An attempt starts from the tasks, with empty lists of results. *)
StartAttempt(n) ==
    /\ attempt' = n
    /\ left' = tasks
    /\ steps' = <<>>
    /\ collected' = {}

(* The entry gate, then the first attempt. *)
Begin ==
    /\ status = "pending"
    /\ IF tasks = <<>>
       THEN status' = "failed" /\ UNCHANGED attemptVars
       ELSE status' = "running" /\ StartAttempt(1)
    /\ before' = applied
    /\ UNCHANGED <<lexicon, lacking, workspace, tasks, applied, record, scan, replans>>

NeverSkip(c) == FALSE  \* a mistake: to replay what an earlier pass has applied

AlreadyApplied(c) == c \in applied

AtTask == status = "running" /\ steps = <<>> /\ left # <<>>

SkipTask ==
    /\ AtTask
    /\ AlreadyApplied(Head(left))
    /\ left' = Tail(left)
    /\ UNCHANGED <<lexicon, lacking, workspace, tasks, applied, status, attempt, steps,
                   collected, record, scan, before, replans>>

Dispatch ==
    /\ AtTask
    /\ ~AlreadyApplied(Head(left))
    /\ steps' = Registry[Head(left)].steps
    /\ UNCHANGED <<lexicon, lacking, workspace, tasks, applied, status, attempt, left,
                   collected, record, scan, before, replans>>

(* How often the anchor of a patch occurs in its file. *)
Anchors(p) ==
    LET found == IF p \in DOMAIN Provider THEN times[Provider[p]]
                 ELSE IF p \in lacking THEN 0 ELSE 1
    IN  IF p \in Consuming THEN found - times[p] ELSE found

CanApply(p) == p \in Writes \/ Anchors(p) > 0

(* The marks of the text a step brings in.                                 *)
Marked(p) ==
    CASE p = "copytree" -> Baseline
      [] p = "latency:module" -> [text EXCEPT !["latency"] = {}]
      [] p = "bulk:route" -> [text EXCEPT !["main"] = @ \union {"post", "limiting"}]
      [] p = "summary:analytics_module" -> [text EXCEPT !["analytics"] = @ \union {"clicks"}]
      [] OTHER -> text

AppliedAtOnce(c, p) ==  \* a mistake: to note the capability before it is done
    applied \union {c}

AppliedAfter(c, p) == IF p = Last(Registry[c].steps) THEN applied \union {c} ELSE applied

(* One step of the capability; after the last the handler appends its      *)
(* results to its lists and the capability to the applied ones.            *)
Apply ==
    /\ status = "running"
    /\ steps # <<>>
    /\ LET p == Head(steps)
           c == Head(left)
           last == Tail(steps) = <<>>
       IN  /\ CanApply(p)
           /\ text' = Marked(p)
           /\ times' = [times EXCEPT ![p] = IF p \in Writes THEN 1 ELSE @ + 1]
           /\ applied' = AppliedAfter(c, p)
           /\ collected' = IF last THEN collected \union {c} ELSE collected
           /\ left' = IF last THEN Tail(left) ELSE left
    /\ steps' = Tail(steps)
    /\ UNCHANGED <<lexicon, lacking, tasks, status, attempt, record, scan, before,
                   replans>>

(* run_with_retries catches whatever the attempt raises: all of it is      *)
(* retryable, and the node has no fallback.                                *)
AttemptRaises ==
    IF attempt < MaxAttempts
    THEN StartAttempt(attempt + 1) /\ status' = "running"
    ELSE status' = "failed" /\ UNCHANGED attemptVars

(* The handler raises: an anchor is not there, or a file cannot be read or *)
(* written.                                                                *)
HandlerRaises ==
    /\ status = "running"
    /\ steps # <<>>
    /\ ~CanApply(Head(steps)) \/ Head(steps) \in Flaky
    /\ AttemptRaises
    /\ UNCHANGED <<lexicon, lacking, workspace, tasks, applied, record, scan, before,
                   replans>>

Returned == status = "running" /\ steps = <<>> /\ left = <<>>

PassesWithoutLook(cs) == TRUE  \* a mistake: a violation only warns

ExitPassed(cs) == PassesExit(cs)

(* The policy gate at the exit, inside the attempt ...                     *)
Complete ==
    /\ Returned
    /\ ExitPassed(collected)
    /\ status' = "completed"
    /\ record' = collected
    /\ UNCHANGED <<lexicon, lacking, workspace, tasks, applied, attemptVars, scan,
                   before, replans>>

(* ... so that a violation, too, is retried. *)
PolicyViolation ==
    /\ Returned
    /\ ~ExitPassed(collected)
    /\ AttemptRaises
    /\ UNCHANGED <<lexicon, lacking, workspace, tasks, applied, record, scan, before,
                   replans>>

ScansRecord ==  \* a mistake: to scan again what the exit gate has seen
    UNION {Registry[c].sources : c \in record}

Scanned == Files

(* policy_scan: the rules on every module of the workspace, and on the     *)
(* endpoints in the record.  Its attempts all see the same.                *)
PolicyScan ==
    /\ status = "completed"
    /\ scan = "pending"
    /\ scan' = IF Passes(Text(Scanned), record) THEN "completed" ELSE "failed"
    /\ UNCHANGED <<lexicon, lacking, workspace, tasks, applied, status, attemptVars,
                   record, before, replans>>

(* A re-plan from requirements, between two runs: while the run waits for  *)
(* the confirmation of the tasks, or after the scan.  amend_spec updates   *)
(* some keys of the spec; the nodes that had completed run again, a failed *)
(* one does not: nothing here changes after the implementation has failed. *)
Replan ==
    /\ \/ status = "pending"
       \/ status = "completed" /\ scan # "pending"
    /\ replans < MaxReplans
    /\ replans' = replans + 1
    /\ status' = "waiting"
    /\ scan' = IF scan = "completed" THEN "pending" ELSE scan
    /\ UNCHANGED <<lexicon, lacking, workspace, tasks, applied, attemptVars, record,
                   before>>

Next ==
    \/ Analyse \/ Begin
    \/ SkipTask \/ Dispatch \/ Apply \/ HandlerRaises
    \/ Complete \/ PolicyViolation
    \/ PolicyScan \/ Replan

Spec == Init /\ [][Next]_vars

-----------------------------------------------------------------------------
(* The types of the variables; what is applied twice was retried.          *)
TypeOK ==
    /\ lexicon \in Lexicons /\ lacking \in SUBSET MayLack
    /\ text \in [Files -> SUBSET Marks]
    /\ times \in [AllSteps -> 0..MaxAttempts]
    /\ tasks \in Seq(Capabilities) /\ left \in Seq(Capabilities)
    /\ applied \in SUBSET Capabilities /\ before \in SUBSET applied
    /\ status \in {"waiting", "pending", "running", "completed", "failed"}
    /\ attempt \in 0..MaxAttempts
    /\ steps \in Seq(AllSteps)
    /\ collected \in SUBSET Capabilities /\ record \in SUBSET Capabilities
    /\ scan \in {"pending", "completed", "failed"}
    /\ replans \in 0..MaxReplans

(* A completed implementation has applied each of its tasks in full and    *)
(* left no other capability half applied, whatever raised in between and   *)
(* whatever the tasks of earlier plans were (agents.py:324-351).           *)
NothingHalfApplied ==
    status = "completed" =>
        /\ \A i \in DOMAIN tasks : tasks[i] \in applied
        /\ \A c \in Capabilities :
               \/ c \in applied /\ \A p \in StepsOf(c) : times[p] >= 1
               \/ \A p \in StepsOf(c) : times[p] = 0

(* Neither a retry nor a re-plan applies again what has been applied       *)
(* (agents.py:319-325, "applies only the delta").                          *)
AppliedStaysUntouched ==
    [][\A c \in applied : \A p \in StepsOf(c) : times'[p] = times[p]]_vars

(* An implementation that completes at its first attempt has been vetted:  *)
(* the code of all it applied passes the rules (governance.py:48-67).      *)
VettedUnlessRetried ==
    status = "completed" /\ attempt = 1 => PassesExit(applied \ before)

(* The scan makes up for it: when implementation and policy_scan have both *)
(* completed, which the release waits for, no module holds a secret.       *)
ReleaseHasNoSecret ==
    status = "completed" /\ scan = "completed" =>
        \A f \in Files : "secret" \notin text[f]

(* governance.py:5-8: the guardrails are "checks that block progress on    *)
(* violation", architecture.md:87: against the code a node produced.       *)
ViolationBlocks ==
    status = "completed" => PassesExit(applied \ before)

=============================================================================

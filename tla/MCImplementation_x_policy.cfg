CONSTANTS
    Lexicons <- MCLexicons
    Seeds <- MCSeeds
    MayLack = {"summary:route", "bulk:config"}
    Flaky = {"fix:test", "bulk:route", "summary:route", "latency:summary_route"}
    MaxAttempts = 2
    MaxReplans = 2
CHECK_DEADLOCK FALSE
SPECIFICATION Spec
INVARIANTS
    ViolationBlocks

CONSTANTS
    Nodes <- AmbiguousNodes
    DependsOn <- AmbiguousDependsOn
    Position <- AmbiguousPosition
    RollbackOnFailure <- AmbiguousRollback
    Undoable = {}
    RequiresApproval <- AmbiguousApprovals
    EntryGated = {"implementation"}
    SafeStopOnFailure = {"requirements"}
    AutoDecisions = {}
    MayRaise = {}
    Unwritable = {"release_readiness"}
    ReplanRoots = {"requirements"}
    MaxWorkers = 4
    MaxReplans = 1
    MaxRedecisions = 0
    MaxAttempts <- Attempts
    HasFallback = {"release_notification"}
    Flaky = {"requirements", "implementation", "testing", "policy_scan", "release_notification"}
    FlakyFallback = {"release_notification"}
    Rounds = 2
SPECIFICATION ScriptSpec
CHECK_DEADLOCK FALSE
INVARIANTS
    ScriptTypeOK
    NotificationCurrent
PROPERTIES
    MetricsAgree
    KeepsFairPromise
    ScriptTerminates

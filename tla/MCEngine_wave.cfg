CONSTANTS
    Nodes <- WNodes
    DependsOn <- WDependsOn
    Position <- WPosition
    RollbackOnFailure <- WRollback
    Undoable = {"design", "implementation"}
    RequiresApproval = {"release"}
    EntryGated = {"implementation"}
    SafeStopOnFailure = {"design"}
    AutoDecisions = {}
    MayRaise = {}
    Unwritable = {}
    ReplanRoots = {}
    MaxWorkers = 2
    MaxReplans = 0
    MaxRedecisions = 0
SPECIFICATION FairSpec
INVARIANTS
    SkippedHasCause
    FailureUndone
PROPERTIES
    RunReturns

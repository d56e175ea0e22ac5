CONSTANTS
    Nodes <- WNodes
    DependsOn <- WDependsOn
    Position <- WPosition
    RollbackOnFailure <- WRollback
    Undoable = {"design", "implementation"}
    RequiresApproval = {"scan", "release"}
    EntryGated = {"implementation"}
    SafeStopOnFailure = {}
    AutoDecisions = {TRUE, FALSE}
    MayRaise = {"implementation", "scan"}
    Unwritable = {"scan"}
    ReplanRoots = {"implementation"}
    MaxWorkers = 2
    MaxReplans = 1
    MaxRedecisions = 0
SPECIFICATION Spec
INVARIANTS
    LineageFresh
PROPERTIES
    FailureStaysVisible

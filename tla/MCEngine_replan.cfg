CONSTANTS
    Nodes <- VNodes
    DependsOn <- VDependsOn
    Position <- VPosition
    RollbackOnFailure <- VRollback
    Undoable = {"implementation"}
    RequiresApproval = {"implementation", "release_readiness"}
    EntryGated = {"implementation"}
    SafeStopOnFailure = {"implementation"}
    AutoDecisions = {}
    MayRaise = {}
    Unwritable = {"implementation"}
    ReplanRoots = {"implementation", "release_readiness"}
    MaxWorkers = 4
    MaxReplans = 2
    MaxRedecisions = 1
SPECIFICATION Spec
INVARIANTS
    TypeOK
    OneApprovalPerExecution
    DependencyBarrier
    PauseIsDecidable
PROPERTIES
    KeepsPromise
    RunSettlesEveryNode

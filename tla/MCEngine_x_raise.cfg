CONSTANTS
    Nodes <- VNodes
    DependsOn <- VDependsOn
    Position <- VPosition
    RollbackOnFailure <- VRollback
    Undoable = {"implementation"}
    RequiresApproval = {"release_readiness"}
    EntryGated = {"implementation"}
    SafeStopOnFailure = {}
    AutoDecisions = {}
    MayRaise = {"implementation"}
    Unwritable = {}
    ReplanRoots = {}
    MaxWorkers = 4
    MaxReplans = 0
    MaxRedecisions = 0
SPECIFICATION Spec
PROPERTIES
    RunSettlesEveryNode

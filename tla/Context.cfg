\* Eight workflows as three tasks, two faults.
CONSTANTS
    N = 4
    Programs <- Workflows
    Roots <- TaskIds
    Faults = {"lost", "panic"}
    MaxFaults = 2
SPECIFICATION FairSpec
INVARIANTS
    LineageHolds
    StructuredConcurrency
    WaitsForItsWork
    SuspensionHasCause
PROPERTIES
    WorkflowEnds
CHECK_DEADLOCK FALSE

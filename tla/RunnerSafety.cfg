SPECIFICATION Spec
CONSTANTS
    NumSteps = 2
    LocalSteps = {1}
    Environments = {e1, e2}
    MaxAttempts = 2
    MaxOutputs = 1
    NoFingerprint = NoFingerprint
    Processes = {p1, p2}
    NoProcess = NoProcess
    NoEnvironment = NoEnvironment
    MaxCrashes = 2
    MaxChanges = 1
    MaxFaults = 2
SYMMETRY Symmetry
INVARIANTS
    TypeOK
    LoadedPlanIsCurrent
    OnlyConsentedExecution
    ApprovalCoversInputs
    CommittedWorkIsKept
    StatusIsBacked
PROPERTIES
    CommitIsFinal
    ImplementsStepGate

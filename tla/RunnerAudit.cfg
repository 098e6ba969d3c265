SPECIFICATION Spec
CONSTANTS
    NumSteps = 2
    LocalSteps = {1}
    Environments = {e1}
    MaxAttempts = 1
    MaxOutputs = 1
    NoFingerprint = NoFingerprint
    Processes = {p1, p2}
    NoProcess = NoProcess
    NoEnvironment = NoEnvironment
    MaxCrashes = 1
    MaxChanges = 0
    MaxFaults = 1
SYMMETRY Symmetry
INVARIANT EveryExecutionAudited

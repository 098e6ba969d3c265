SPECIFICATION FairSpec
CONSTANTS
    NumSteps = 1
    LocalSteps = {}
    Environments = {e1}
    MaxAttempts = 2
    MaxOutputs = 1
    NoFingerprint = NoFingerprint
    Processes = {p1, p2}
    NoProcess = NoProcess
    NoEnvironment = NoEnvironment
    MaxCrashes = 2
    MaxChanges = 1
    MaxFaults = 3
INVARIANT RemoteAtMostOnce
PROPERTIES
    CommittedWorkIsRecorded
    InterruptionIsResolved

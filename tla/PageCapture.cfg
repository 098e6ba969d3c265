SPECIFICATION FairSpec
CONSTANTS
    NetworkSpecs = {items, prices}
    EmbeddedSpecs = {state}
    Required = {items, state}
    MaxPages = 2
    MaxResponses = 3
INVARIANTS
    TypeOK
    NothingSurvivesThePage
    ClaimedIsReadyOrRead
    FailsClosed
PROPERTIES
    CaptureWaitsEnd
CHECK_DEADLOCK FALSE

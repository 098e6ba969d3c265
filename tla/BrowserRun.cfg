SPECIFICATION FairSpec
CONSTANTS
    NumUrls = 2
    MaxRequests = 2
    MaxSeen = 4
INVARIANTS
    TypeOK
    NothingKeepsRunning
PROPERTIES
    PolicyIsEnforced
    DeadlineStopsTheCrawl
    RunEnds
CHECK_DEADLOCK FALSE

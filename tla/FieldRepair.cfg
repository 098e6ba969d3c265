SPECIFICATION Spec
CONSTANTS
    NumFields = 4
    Selectors = {1, 2}
    LegacySource = {3}
    DeclaredSource = {2, 4}
    PageScoped = {2}
    Lenient = {2}
    WithFallbacks = {1}
    NumFallbacks = 2
    Thresholds = {70, 73, 80}
    MaxItems = 2
    MaxPages = 2
INVARIANTS
    TypeOK
    BestAcceptedIsKept
    EvidenceIsOfThisPage
    WeakValuesAreRecorded
CHECK_DEADLOCK FALSE

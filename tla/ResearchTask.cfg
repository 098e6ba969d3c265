SPECIFICATION TaskSpec
CONSTANTS
    NumSteps = 7
    LocalSteps = {}
    Requests <- AllRequests
    MaxPlanSteps = 4
    MaxTouched = 1
INVARIANTS
    TaskTypeOK
    PlanIsLast
    SentOnRecord
    PlanShowsTheSnapshot
    ToolsFindTheirInputs
    ReportListsWhatItSays
CHECK_DEADLOCK FALSE

SPECIFICATION TaskSpec
CONSTANTS
    NumSteps = 5
    LocalSteps = {}
    Requests <- DraftRequests
    MaxPlanSteps = 5
    MaxTouched = 0
INVARIANT DraftIsValidated
CHECK_DEADLOCK FALSE

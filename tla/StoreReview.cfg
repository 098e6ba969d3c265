SPECIFICATION Spec
CONSTANTS
    Writers = {w1, w2}
    Categories = {"public"}
    Contents = {}
    Lines = 1
    Outcomes = {"accepted", "needs_review"}
    MaxEpisodes = 1
    MaxProposals = 1
    MaxValidations = 2
    MaxDecisions = 2
    MaxNotes = 0
    MaxEvents = 4
    MaxTime = 1
    MaxCrashes = 0
    MaxExports = 1
SYMMETRY Symmetry
CHECK_DEADLOCK FALSE
INVARIANTS
    AcceptanceIsProven
    StatusFollowsDecisions
    ExportIsSupported
PROPERTIES
    ImplementsLedger

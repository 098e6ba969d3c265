SPECIFICATION Spec
CONSTANTS
    Writers = {w1, w2}
    Categories = {"synthetic_local", "authorized"}
    Contents = {"plain", "secret", "broken", "binary"}
    Lines = 0
    Outcomes = {}
    MaxEpisodes = 2
    MaxProposals = 0
    MaxValidations = 0
    MaxDecisions = 0
    MaxNotes = 1
    MaxEvents = 1
    MaxTime = 0
    MaxCrashes = 1
    MaxExports = 0
SYMMETRY Symmetry
CHECK_DEADLOCK FALSE
INVARIANTS
    CapturesAreStored
    ContentIsPermitted

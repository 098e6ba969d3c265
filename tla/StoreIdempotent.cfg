SPECIFICATION Spec
CONSTANTS
    Writers = {w1}
    Categories = {"public"}
    Contents = {}
    Lines = 1
    Outcomes = {}
    MaxEpisodes = 2
    MaxProposals = 2
    MaxValidations = 2
    MaxDecisions = 2
    MaxNotes = 0
    MaxEvents = 8
    MaxTime = 0
    MaxCrashes = 1
    MaxExports = 0
SYMMETRY Symmetry
CHECK_DEADLOCK FALSE
INVARIANT ImportedOnce

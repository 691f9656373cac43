SPECIFICATION FairSpec
CHECK_DEADLOCK FALSE
CONSTANTS
    App = TRUE
    Previous = TRUE
    Cards = 2
    Steps = 2
    Calls = 1
    BackgroundAt = 2
    MaxErrors = 1
    MaxRewarms = 1
    Attempts = 2
    Picks = 2
    Cap = 1
INVARIANTS
    ReplaysWhatWasDone
    EvidenceIsEarned
PROPERTIES
    OutageIsNotBlamed
    NightEnds

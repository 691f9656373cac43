SPECIFICATION NightlyFairSpec

CONSTANTS
    collector = collector
    d1 = d1
    Child = {collector}
    Collector = collector
    GiveUpAfter = 1
    Last = 4
    Device = {d1}
    Horizon = 1
    Due = {1,3}
    Late = 1
    DayLength = 4
    DigestAt = 1
    Openings = 2
    None = None

INVARIANTS
    NothingTwice
    NobodyForgotten


    

CHECK_DEADLOCK FALSE

SPECIFICATION FairSpec

CONSTANTS
    c1 = c1
    c2 = c2
    j1 = j1
    j2 = j2
    runner = runner
    NoOne = NoOne
    NoJob = NoJob
    Nobody = Nobody
    Collectors = {c1, c2}
    Jobs = {j1, j2}
    Workers = {runner}
    Runner = runner
    Home <- MCHome
    Starts <- MCStarts

INVARIANTS
    OneRunAtATime
    NoClaimForgotten
    BouncesAreFree
    GoodRunsGoOn

PROPERTIES
    EveryJobCloses

SPECIFICATION FindingsSpec

CONSTANTS
    f1 = f1
    f2 = f2
    f3 = f3
    j1 = j1
    j2 = j2
    None = None
    Finding = {f1, f2, f3}
    Replayable = {f1, f2}
    Recorded = {f1}
    Job = {j1, j2}
    Cap = 1
    Day = 1
    Hops = 1

SYMMETRY JobSymmetry

INVARIANTS
    FixedOnlyAfterReal
    NightlyRunsWhatIsFixed
    IssueOnce
    CapHolds
    DuplicatesLeadSomewhere

PROPERTIES
    RejectedStaysRejected

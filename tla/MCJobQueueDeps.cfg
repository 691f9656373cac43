SPECIFICATION Spec

CONSTANTS
    d1 = d1
    h1 = h1
    NoJob = NoJob
    Nobody = Nobody
    Jobs = {1, 2, 3, 4}
    HostJobs = {1, 2, 3}
    Devices = {d1}
    Hosts = {h1}
    Suits <- DepsSuits
    Reporters <- DepsReporters
    MaxAttempts <- DepsMaxAttempts
    DependsOn <- DepsDependsOn
    LockSets <- DepsLockSets
    Priorities = {0}

INVARIANTS
    WaiterHasReason

PROPERTIES
    QueuedWhenReady
    ClosedStaysClosed

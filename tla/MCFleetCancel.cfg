SPECIFICATION FleetSpec

CONSTANTS
    d1 = d1
    h1 = h1
    h2 = h2
    NoJob = NoJob
    Nobody = Nobody
    Jobs = {1, 2}
    HostJobs = {1}
    Devices = {d1}
    Hosts = {h1, h2}
    Suits <- MCSuits
    Reporters <- MCReporters
    MaxAttempts <- MCMaxAttempts
    DependsOn <- MCDependsOn
    LockSets <- MCLockSets
    Priorities = {0}

PROPERTIES
    CancelledStaysCancelled

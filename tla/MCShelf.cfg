SPECIFICATION ShelfSpec

CONSTANTS
    phone = phone
    box = box
    boxIp = boxIp
    e1 = e1
    growth = growth
    test = test
    bench = bench
    None = None
    Another = Another
    Device = {phone, box, boxIp}
    Executor = {e1}
    Label = {growth}
    Family = {"android", "roku"}
    Workload = {test, bench}
    Os <- MCOs
    Agents = {phone}
    Runs <- MCRuns
    Cabled <- MCCabled
    Reports = {phone, box}
    Ephemeral = {phone}
    Simulator = {phone}
    IpName <- OneBox
    Post = {"own", "loose", "each"}
    Asks <- ShelfAsks
    Reservable = {phone}
    Edits <- MCEdits
    Silent = {phone}

INVARIANTS
    OneJobOnDevice

PROPERTIES
    ReservationHonoured
    ChildrenAreTaken
    NeverBeyondItsBuild

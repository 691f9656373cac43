SPECIFICATION ExecutorSpec

CONSTANTS
    p1 = p1
    t1 = t1
    locale = locale
    scale = scale
    NoEntry = NoEntry
    NoShape = NoShape
    Phones = {p1}
    Targets = {t1}
    Names = {locale, scale}
    Values = {"own", "wanted"}
    Own <- MCOwn
    Wanted <- MCWanted

INVARIANTS
    ChangesOnRecord
    RunsAsAsked
    OfflineUnderTest
    OwnersDataLeftAlone
    QuietPhonesOnline

PROPERTIES
    DroppedOnlyRestored

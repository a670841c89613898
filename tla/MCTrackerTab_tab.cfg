SPECIFICATION FairSpec
CONSTANTS
    a = a b = b t1 = t1
    Tabs = {t1}
    Ids = {a, b}
    Kept = {a}
    Maker <- ByTheFirst
    ClockRuns = TRUE
    MaxEdits = 3 MaxFaults = 2 MaxMoves = 3
INVARIANTS TypeOK ConfirmedIsTrue NoPhantomEdit LossIsShown
PROPERTIES NeverGoesBack UnseenEditsAreKept TabNeverStalls
CHECK_DEADLOCK FALSE

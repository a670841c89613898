SPECIFICATION FairSpec
CONSTANTS
    s1 = s1 t1 = t1 b1 = b1 r1 = r1 r2 = r2
    Original = Original Fresh = Fresh NoTree = NoTree
    Tabs = {t1}
    Savers = {s1}
    Lock <- OneTracker
    Backups = {b1}
    Restores = {r1}
    MaxFaults = 2 MaxFreezes = 1 MaxCrashes = 0
INVARIANTS TypeOK WholeWorkspaceAlone
PROPERTIES RestoreAnswersAreTrue EveryJobAnswered GateReopens
CHECK_DEADLOCK FALSE

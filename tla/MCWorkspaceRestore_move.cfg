SPECIFICATION Spec
CONSTANTS
    s1 = s1 t1 = t1 b1 = b1 r1 = r1 r2 = r2
    Original = Original Fresh = Fresh NoTree = NoTree
    Tabs = {t1}
    Savers = {s1}
    Lock <- OneResume
    Backups = {}
    Restores = {r1, r2}
    MaxFaults = 1 MaxFreezes = 0 MaxCrashes = 1
INVARIANTS WorkspaceNeverDeleted StaleSaveRefused
PROPERTIES WorkspaceIsAtomic
SYMMETRY EitherRestore
CHECK_DEADLOCK FALSE

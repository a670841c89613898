SPECIFICATION Spec
CONSTANTS
    a = a b = b pdf = pdf src = src cov = cov b1 = b1 b2 = b2 r1 = r1 r2 = r2 r3 = r3
    None = None Keep = Keep
    Ids = {a, b}
    Files = {src, cov}
    Slots <- TwoSources
    Sources = {src, cov}
    Rank <- SrcFirst
    Bytes = {b1, b2}
    Requests = {r1, r2}
    Kinds = {"submit", "update", "commit"}
    Similar <- SameJob
    MaxApplications = 2
    Starts <- StartAny
    EditForms = {}
    MaxEdits = 0 MaxFaults = 1 MaxCrashes = 1
SYMMETRY Symmetry
INVARIANTS TrackedFilesOnDisk
PROPERTIES FailureLeavesNoTrace
CHECK_DEADLOCK FALSE

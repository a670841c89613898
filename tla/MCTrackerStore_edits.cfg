SPECIFICATION Spec
CONSTANTS
    a = a b = b pdf = pdf src = src cov = cov b1 = b1 b2 = b2 r1 = r1 r2 = r2 r3 = r3
    None = None Keep = Keep
    Ids = {a, b}
    Files = {src}
    Slots <- SrcSlot
    Sources = {src}
    Rank <- SrcOnly
    Bytes = {b1}
    Requests = {r1, r2}
    Kinds = {"list", "save", "submit", "update"}
    Similar <- NoneSimilar
    MaxApplications = 2
    Starts <- StartHeld
    EditForms = {"touch", "revise", "damage", "corrupt", "remove", "repair"}
    MaxEdits = 2 MaxFaults = 0 MaxCrashes = 0
SYMMETRY Symmetry
INVARIANTS CacheTruth
PROPERTIES NoLostUpdate UnreadableKept NotModifiedIsTrue
CHECK_DEADLOCK FALSE

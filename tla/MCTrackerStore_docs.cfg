SPECIFICATION FairSpec
CONSTANTS
    a = a b = b pdf = pdf src = src cov = cov b1 = b1 b2 = b2 r1 = r1 r2 = r2 r3 = r3
    None = None Keep = Keep
    Ids = {a, b}
    Files = {pdf, src}
    Slots <- OneSlot
    Sources = {src}
    Rank <- PdfFirst
    Bytes = {b1, b2}
    Requests = {r1, r2}
    Kinds = {"list", "save", "document", "commit"}
    Similar <- NoneSimilar
    MaxApplications = 1
    Starts <- StartAlone
    EditForms = {}
    MaxEdits = 0 MaxFaults = 2 MaxCrashes = 1
INVARIANTS TypeOK TrackedFilesOnDisk
PROPERTIES FailureLeavesNoTrace EveryRequestAnswered TrackerIsAtomic
CHECK_DEADLOCK FALSE

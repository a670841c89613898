SPECIFICATION Spec
CONSTANTS
    a = a b = b pdf = pdf src = src cov = cov b1 = b1 b2 = b2 r1 = r1 r2 = r2 r3 = r3
    None = None Keep = Keep
    Ids = {a, b}
    Files = {pdf, src}
    Slots <- OneSlot
    Sources = {src}
    Rank <- PdfFirst
    Bytes = {b1, b2}
    Requests = {r1}
    Kinds = {"document"}
    Similar <- NoneSimilar
    MaxApplications = 2
    Starts <- StartFullSlot
    EditForms = {}
    MaxEdits = 0 MaxFaults = 1 MaxCrashes = 0
SYMMETRY Symmetry
PROPERTIES FailedDocumentSaveReplacesNothing
CHECK_DEADLOCK FALSE

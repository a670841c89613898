SPECIFICATION Spec
CONSTANTS
    t1 = t1 Gone = Gone
    Tabs = {t1}
    Statuses <- Kinds
    AnswerIds = {1}
    MaxHistory = 2
    MaxWrites = 2
INVARIANTS UnseenVersionsAreKept
CHECK_DEADLOCK FALSE

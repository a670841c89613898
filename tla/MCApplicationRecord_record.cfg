SPECIFICATION Spec
CONSTANTS
    t1 = t1 Gone = Gone
    Tabs = {t1}
    Statuses <- Kinds
    AnswerIds = {1}
    MaxHistory = 2
    MaxWrites = 3
INVARIANTS TypeOK FormsAgreeWithServer
PROPERTIES SubmissionIsHistory AnswersAreFixed
CHECK_DEADLOCK FALSE

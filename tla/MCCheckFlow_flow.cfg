CONSTANTS
    Requests = {r1, r2}
    InQuestions = {i1}
    OutQuestions = {o1}
    GraceDays = 1
    Days = {0}
    LastDay = 2
    None = None
SPECIFICATION Spec
SYMMETRY Symmetry
CONSTRAINT OnlyFormsOverlap
CHECK_DEADLOCK FALSE
INVARIANTS
    AnswersHaveQuestions
PROPERTIES
    FirstStays
    SubmissionIsComplete
    ClosedStaysClosed

\* Two requests and the command beside a run of two workers.
SPECIFICATION Spec
CONSTANTS
    score = score
    stage = stage
    FieldOrder <- ScoreAndStage
    Score = score
    ReviewTag = review
    Topics = {topic}
    WebRequests = {r1, r2}
    Cli = Cli
    Workers = {w1, w2}
    MaxTries = 2
    MaxStarts = 4
    MaxTroubles = 1
SYMMETRY Interchangeable
INVARIANTS NamesStayUnique AloneNoDocumentFails
PROPERTIES SetupOkIsHealthy SecondSetupIsNoop
CHECK_DEADLOCK FALSE

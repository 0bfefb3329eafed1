SPECIFICATION Spec
CONSTANTS
    Jobs = {j1}
    Agents = {a1, a2}
    Tokens = {t1, t2}
    NoResult = NoResult
    NoJob = NoJob
    NoAgent = NoAgent
    NoToken = NoToken
    MaxCred = 1
    MaxEnqueues = 1
    RepeatIds = FALSE
    MaxCrashes = 1
    MaxLosses = 1
INVARIANTS
    AckedHereIsAckedThere

SPECIFICATION FairSpec
CONSTANTS
    Jobs = {j1, j2}
    Agents = {a1}
    Tokens = {t1}
    NoResult = NoResult
    NoJob = NoJob
    NoAgent = NoAgent
    NoToken = NoToken
    MaxCred = 0
    MaxEnqueues = 2
    RepeatIds = FALSE
    MaxCrashes = 1
    MaxLosses = 1
INVARIANTS
    TypeOK
    NoJobLost
    RunsAreAccountedFor
PROPERTIES
    DeliversJobs
    EveryJobIsAcked

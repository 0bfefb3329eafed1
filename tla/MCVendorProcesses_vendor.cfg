\* A server with two threads, a direct run with one worker, operator commands.
SPECIFICATION Spec
CONSTANTS
    Tenants = {t1}
    MaxCap = 1
    Hosts = {h1}
    Jobs = {j1}
    Lists <- SomeLists
    ServerThreads = {s1, s2}
    RunWorkers = {d1}
    Operators = {o1, o2}
    NoCopy = NoCopy
    NoTarget = NoTarget
    Nobody = Nobody
    MaxCommands = 3
    MaxCalls = 2
    MaxStarts = 2
    MaxTroubles = 1
SYMMETRY Alike
INVARIANTS SpendBounded LedgerAddsUp LoneIsOnDisk RegistryIsWhatWasDone
CHECK_DEADLOCK FALSE

\* The scheduler's sweep with two workers beside a run with one: a nudge on
\* the same Sweep object, or a manual run on its own.
SPECIFICATION Spec
CONSTANTS
    a = a
    b = b
    w1 = w1
    w2 = w2
    Runs = {a, b}
    Workers <- TwoAndOne
    Scheduler = a
    MaxDocuments = 3
    PerRun = 1
    PerPeriod = 1
    MaxAttempts = 2
    MaxCalls = 5
    MaxStarts = 2
    MaxFaults = 1
INVARIANTS OvershootBounded LedgerWithinPaid AloneAddsUp
PROPERTY FatalStopsTheRun
CHECK_DEADLOCK FALSE

SPECIFICATION Spec
CONSTANTS
    NDocs = 3
    Runners = {r1, r2}
    Qualities = {10, 90}
    Enabled = {"triage", "reocr", "metadata"}
    EligibleRoles = {"", "triaged"}
    DryRun = "auto"
    Retriage = FALSE
    Limit = 0
    ScoreField = "float"
    NoCopy = NoCopy
    Torn = Torn
    MaxFailures = 0
    MaxEdits = 0
    MaxDryRuns = 0
SYMMETRY RunnerSymmetry
INVARIANTS
    SupersededHasReplacement
    SnapshotPredatesWrite
    OnlyGarbageIsReocred

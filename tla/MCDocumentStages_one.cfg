SPECIFICATION FairSpec
CONSTANTS
    NDocs = 2
    Runners = {r1}
    Qualities = {10, 90}
    Enabled = {"triage", "reocr", "metadata"}
    EligibleRoles = {"", "triaged"}
    DryRun = "auto"
    Retriage = FALSE
    Limit = 0
    ScoreField = "float"
    NoCopy = NoCopy
    Torn = Torn
    MaxFailures = 1
    MaxEdits = 1
    MaxDryRuns = 1
INVARIANTS
    TypeOK
    PaidWorkIsAccountedFor
    FirstSweepIsDry
PROPERTIES
    EveryDocumentSettles

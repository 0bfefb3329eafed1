SPECIFICATION FairSpec
CONSTANTS
    NDocs = 2
    Runners = {r1}
    Qualities = {10, 90}
    Enabled = {"triage"}
    EligibleRoles = {"", "triaged"}
    DryRun = "write"
    Retriage = FALSE
    Limit = 1
    ScoreField = "float"
    NoCopy = NoCopy
    Torn = Torn
    MaxFailures = 0
    MaxEdits = 0
    MaxDryRuns = 0
PROPERTIES
    EveryDocumentIsTriaged

\* dry_run, whose empty variable counts, a setting a run may limit, one whose
\* variable is not among the locks, one a run may switch on, and a key of a
\* block that a save drops.
SPECIFICATION Spec
CONSTANTS
    Keys = {dry_run, limit, port, reocr, debounce}
    WithVariable = {dry_run, limit, port}
    Listed = {dry_run, limit}
    EmptyCounts = {dry_run}
    Editable = {dry_run, limit, port, reocr}
    FormFields = {limit, reocr}
    Dropped = {debounce}
    Dry = dry_run
    Reocr = reocr
    RunLimits = {limit}
    Handlers = {h1, h2}
    MaxRequests = 2
    MaxTroubles = 1
SYMMETRY Threads
INVARIANTS LoneSavesKept SavedTakesEffect WritesOnlyIfAsked
PROPERTIES FreshFormChangesOneSetting RunUsesWhatIsShown
CHECK_DEADLOCK FALSE

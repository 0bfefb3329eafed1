\* The scheduler, a manual run and a nudge over one document.
SPECIFICATION Spec
CONSTANTS
    Docs = {d1}
    Sweepers = {tick, manual}
    Nudgers = {nudge}
    MaxRuns = 2
    MaxTroubles = 2
SYMMETRY Symmetry
INVARIANTS LogTellsWhatChanged ReportTellsWhatTheRunDid AloneTrackerIsExact FirstRunStaysDone
CHECK_DEADLOCK FALSE

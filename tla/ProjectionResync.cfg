SPECIFICATION Spec
CONSTANTS
    MaxVersions = 3
    MaxEvents = 2
    MaxLosses = 0
    MaxBreaks = 1
    MaxToggles = 3
INVARIANTS ResyncShowsLatest
\* Versions, events, losses and breaks are bounded.
CHECK_DEADLOCK FALSE

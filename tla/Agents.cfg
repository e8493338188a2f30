SPECIFICATION Spec
INVARIANTS RunsAreRecordedSafely NodeKeepsItsWork HostKeepsItsWord GameIsFair
\* Writes, dispatches, turns, receipts, revisions and generations are bounded.
CHECK_DEADLOCK FALSE

SPECIFICATION Spec
CONSTANTS
    Ids = {a}
    MaxActors = 3
    MaxSpawns = 1
    MaxCalls = 1
    MaxFaults = 0
    MaxRestarts = 1
    Paths = {"callback"}
INVARIANTS HostsObserve
\* Calls and spawns are bounded.
CHECK_DEADLOCK FALSE

SPECIFICATION AllSpec
CONSTANTS
    MaxMsgs = 4
    Loops = {l1, l2}
    Spawners = {c1}
    Stoppers = {c2}
    UserRespawns = FALSE
    Strategies = {"resume", "stop", "escalate"}
    Capacity = 2
    BatchLimit = 2
    MaxRestarts = 1
    MaxIncarnations = 1
    AsyncEvents = FALSE
    Ids = {"i", "j"}
    MaxActors = 3
    MaxSpawns = 2
    MaxCalls = 3
    MaxFaults = 1
    MaxRevivals = 1
    MaxHandled = 2
    Checked = {"g", "b"}
    Invalid = {"b"}
    MaxRetries = 2
    Threshold = 2
    MaxCopies = 1
    MaxSwitches = 1
INVARIANTS
    OneAtATime
    InitialisedFirst
    FifoPerActor
    ServicesKeepTheirWord
    ReferencesStayTrue
\* Users may stop calling and senders may stop sending.
CHECK_DEADLOCK FALSE

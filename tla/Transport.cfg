SPECIFICATION AllSpec
CONSTANTS
    Node = {"a", "b"}
    Sender = "a"
    Receiver = "b"
    MaxLinks = 2
    MaxFaults = 1
    MayStop = {}
    SlowAuth = FALSE
    Message = {"c1", "u1"}
    Control = {"c1"}
    QueueLimit = 1
    Window = 2
    MaxRetries = 1
    Providers = {FALSE, TRUE}
    Limit = 2
    MaxDials = 2
    MaxPosts = 3
    MaxIncs = 2
    MaxVersions = 3
    MaxEvents = 1
    MaxLosses = 1
    MaxCuts = 1
    MaxToggles = 2
    NearSubs = {"n1"}
    FarSubs = {"f1", "f2"}
    Unfiltered = {"f2"}
    Named = {"x"}
    Types = {"x", "y"}
    MaxEmits = 2
    MaxBreaks = 2
    MaxLives = 1
    Callers = {"a", "b"}
    MaxCalls = 3
    MaxThrows = 2
    MaxNews = 2
    MaxAsks = 3
INVARIANTS AtMostOnce SettledMeansDelivered UserFramesInOrder NoForgottenPromise
    LinksAreWhole NodesKeepTheirWord
\* Messages, links, calls and faults are bounded; the nodes may be at rest.
CHECK_DEADLOCK FALSE

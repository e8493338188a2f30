SPECIFICATION AllSpec
CONSTANTS
    Actor = {x, y}
    Own = {y1}
    MaxLinks = 2
    MaxIncarnations = 2
    MaxChanges = 2
    MaxSyncs = 3
    \* three letters, a queue of two, two callers of retry
    MaxLetters = 3
    MaxSize = 2
    Ttl = 1
    MaxTime = 1
    Retriers = {"r1", "r2"}
    MaxAttempts = 2
    Managed = TRUE
    \* two addresses and room for one of them in the cache
    Addresses = {"x", "y"}
    Places = {"here", "there"}
    Self = "here"
    CacheTtl = 2
    PeerTtls = {1, 2}
    MaxCacheSize = 1
    MaxNow = 3
    MaxCalls = 4
    \* two connections that send the same command
    FailureThreshold = 2
    Clients = {"c1", "c2"}
    Commands = {"k"}
    ClientQueue = 1
    ClientFrames = 3
    ClientSends = 0
    ClientFaults = 2
    \* one connection whose sends fail, without commands
    Viewers = {"c1"}
    Views = {}
    ViewerQueue = 2
    ViewerFrames = 5
    ViewerSends = 4
    ViewerFaults = 3
INVARIANTS ReadyAgreesUnreplaced DisconnectClears JoinedAttemptsLive
    TablesAreKept ClientsCatchUp GatewayServesConnections
PROPERTIES LateEndsChangeNothing
\* Connections, frames, changes and failures are bounded.
CHECK_DEADLOCK FALSE

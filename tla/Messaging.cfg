SPECIFICATION AllSpec
CONSTANTS
    Node = {"a", "b"}
    MaxLinks = 3
    MaxFaults = 1
    MayStop = {"a"}
    SlowAuth = TRUE
    LocalAsks = {"l1", "l2"}
    RemoteAsks = {"r1"}
    InitialCredit = 2
    MaxWrites = 3
    MaxFailures = 1
INVARIANTS NoLeakedLink NoOrphanEntry StreamKeepsOrder
PROPERTIES StaleCloseSparesPeer ViewsConverge FirstAnswerWins AskEnds StreamSettles
\* Every ask and every stream ends; links, failures and stops are bounded, and the nodes
\* may be at rest.
CHECK_DEADLOCK FALSE

SPECIFICATION Spec
CONSTANTS
    MaxMsgs = 3
    Loops = {l1, l2}
    Spawners = {c1}
    Stoppers = {c2}
    UserRespawns = TRUE
    Strategies = {"restart", "escalate"}
    Capacity = 2
    BatchLimit = 1
    MaxRestarts = 1
    MaxIncarnations = 3
    AsyncEvents = TRUE
INVARIANTS
    NoStrandedMessage
    AtMostOnce
\* Users may stop calling and senders may stop sending.
CHECK_DEADLOCK FALSE

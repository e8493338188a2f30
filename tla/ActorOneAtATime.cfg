SPECIFICATION Spec
CONSTANTS
    MaxMsgs = 3
    Loops = {l1, l2}
    Spawners = {c1}
    Stoppers = {}
    UserRespawns = FALSE
    Strategies = {"restart"}
    Capacity = 2
    BatchLimit = 2
    MaxRestarts = 1
    MaxIncarnations = 2
    AsyncEvents = FALSE
INVARIANTS
    OneAtATime
\* Users may stop calling and senders may stop sending.
CHECK_DEADLOCK FALSE

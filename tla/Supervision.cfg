SPECIFICATION AllSpec
CONSTANTS
    Msgs = {m1, m2, m3, m4, m5}
    Capacity = 2
    Size = 3
    GroupStrategies = {"one-for-all", "rest-for-one", "escalate"}
    Policies = {"restart", "stop", "resume"}
    MaxRestarts = 1
    MaxFailures = 2
    UserStops = {2}
    Paces = {TRUE, FALSE}
INVARIANTS NoLostWakeup ParkedPromisesHeld BudgetAndEvents
PROPERTIES QueuedIsServed ParkedSettles ImplementsFifo RestartsSpareTheStopped GroupActionEnds
\* Callers may stop calling, failures are bounded, and a group may be down for good.
CHECK_DEADLOCK FALSE

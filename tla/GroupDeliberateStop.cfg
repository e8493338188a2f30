SPECIFICATION Spec
CONSTANTS
    Size = 2
    Strategies = {"one-for-all"}
    Policies = {"restart"}
    MaxRestarts = 1
    MaxFailures = 1
    UserStops = {2}
    Paces = {TRUE}
PROPERTIES DeliberateStopWins
\* Failures and stops are bounded; the group may be down for good.
CHECK_DEADLOCK FALSE

SPECIFICATION Spec
CONSTANTS
    Actor = {x}
    Own = {y1}
    MaxLinks = 1
    MaxIncarnations = 1
    MaxChanges = 1
    MaxSyncs = 2
INVARIANT OwnEntriesLive
\* Links, changes and synchronisations are bounded; the nodes may be at rest.
CHECK_DEADLOCK FALSE

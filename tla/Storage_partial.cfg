\* The same, when nothing fails.
SPECIFICATION Spec
CONSTANTS
    Key = {k1, k2}
    Value = {v1, v2}
    None = None
    Keep = Keep
    MaximumItemsToSync = 1
    Faults = {}
INVARIANT NothingLost
CHECK_DEADLOCK FALSE

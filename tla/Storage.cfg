\* Two keys and one item per sync; the database may fail at every step.  The
\* area really stops once it is closed and its thread has ended.
SPECIFICATION FairSpec
CONSTANTS
    Key = {k1, k2}
    Value = {v1, v2}
    None = None
    Keep = Keep
    MaximumItemsToSync = 1
    Faults = {"open", "read", "write"}
INVARIANTS NothingElseLost FinalSync
PROPERTIES ChangesReachDatabase CloseReturns
CHECK_DEADLOCK FALSE

\* Two transfers for one slot, or a transfer and a refused URL that both may be
\* deferred.
SPECIFICATION FairSpec
CONSTANTS
    n1 = n1
    n2 = n2
    n3 = n3
    u1 = u1
    b1 = b1
    Job = {n1, n2, b1}
    DataJob = {}
    BlockedJob = {b1}
    DeferJob = {n1, b1}
    MaxRunningJobs = 1
    Faults = {}
CONSTRAINT OneQuestion
PROPERTIES  SlotReturned

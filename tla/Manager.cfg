\* Two transfers and a data URL compete for one slot; every call may fail.
SPECIFICATION Spec
CONSTANTS
    n1 = n1
    n2 = n2
    n3 = n3
    u1 = u1
    b1 = b1
    Job = {n1, n2, u1}
    DataJob = {u1}
    BlockedJob = {}
    DeferJob = {n1, n2, u1}
    MaxRunningJobs = 1
    Faults = {"select", "add", "resume", "upload"}
SYMMETRY NetSymmetry
INVARIANTS AliveWhileUsed OnePlace SlotAccounting RefAccounting
PROPERTIES PollKept NoEventAfterCancel OnlyDroppedPauses ImplementsService

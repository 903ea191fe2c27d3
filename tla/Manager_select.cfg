\* select() may fail: nothing polls libcurl any more.
SPECIFICATION Spec
CONSTANTS
    n1 = n1
    n2 = n2
    n3 = n3
    u1 = u1
    b1 = b1
    Job = {n1, n2}
    DataJob = {}
    BlockedJob = {}
    DeferJob = {}
    MaxRunningJobs = 2
    Faults = {"select"}
INVARIANTS PollScheduled

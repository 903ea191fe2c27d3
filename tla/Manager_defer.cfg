\* One transfer: libcurl drops the pause of a job that is deferred before its
\* request is done.
SPECIFICATION Spec
CONSTANTS
    n1 = n1
    n2 = n2
    n3 = n3
    u1 = u1
    b1 = b1
    Job = {n1}
    DataJob = {}
    BlockedJob = {}
    DeferJob = {n1}
    MaxRunningJobs = 1
    Faults = {}
PROPERTIES NoCallbackWhileDeferred

\* Three loads, a host with one slot and the host of other protocols.
SPECIFICATION FairSpec
CONSTANTS
    l1 = l1
    l2 = l2
    l3 = l3
    a = a
    b = b
    file = file
    Loader = {l1, l2, l3}
    Host = {a, b, file}
    NonHTTP = file
    InFlight = 1
    InFlightNonHTTP = 1
PROPERTIES OneStarts
INVARIANTS TypeOK LoaderFindable HostsKept WakeUpSecured

\* Three calls - one for the BRTs, one without a CAMEL request, one for Diameter -, a
\* thread, two BRTs with one STARTUP each, a channel of one message and a disk that may
\* refuse a line.
CONSTANTS
    c1 = c1
    c2 = c2
    c3 = c3
    t1 = t1
    th1 = th1
    th2 = th2
    k1 = k1
    k2 = k2
    s1 = s1
    s2 = s2
    None = None
    Calls = {c1, c2, c3}
    Tasks = {t1}
    Threads = {th1}
    Conns = {k1, k2}
    Addrs = {k1, k2}
    Senders = {s1, s2}
    AddrOf <- OwnAddress
    TaskOf <- OneTaskOf
    ThreadTask <- OneThreadTask
    NoRequest = {c2}
    DiameterCalls = {c3}
    ChanCap = 1
    MaxStartups = 1
    DiskFaults = {"write"}
SPECIFICATION Spec
SYMMETRY ServerSymmetry
INVARIANTS
    PendingCallsCached
    NoDoubleCharge
    ListMatchesHandlers
    SendersInitialised
PROPERTIES
    ImplementsLedger
CHECK_DEADLOCK FALSE

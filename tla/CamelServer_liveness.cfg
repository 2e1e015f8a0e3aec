\* Two calls over one BRT whose connection may break, a third one whose CDR the thread
\* itself sends to the same writer, and a disk that works.
CONSTANTS
    c1 = c1
    c2 = c2
    c3 = c3
    t1 = t1
    th1 = th1
    th2 = th2
    k1 = k1
    k2 = k2
    s1 = s1
    s2 = s2
    None = None
    Calls = {c1, c2, c3}
    Tasks = {t1}
    Threads = {th1}
    Conns = {k1}
    Addrs = {k1}
    Senders = {s1, s2}
    AddrOf <- OwnAddress
    TaskOf <- OneTaskOf
    ThreadTask <- OneThreadTask
    NoRequest = {c3}
    DiameterCalls = {}
    ChanCap = 1
    MaxStartups = 1
    DiskFaults = {}
SPECIFICATION FairSpec
PROPERTIES
    RefusalRecorded
    BrokenLinkForgotten
CHECK_DEADLOCK FALSE

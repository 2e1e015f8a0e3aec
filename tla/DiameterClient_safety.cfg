\* Three calls and two session ids, so that two calls may draw one id beside a
\* third that owns its; two threads of one task, two peers, a channel of one
\* message and every disk failure.
CONSTANTS
    c1 = c1
    c2 = c2
    c3 = c3
    t1 = t1
    t2 = t2
    th1 = th1
    th2 = th2
    p1 = p1
    p2 = p2
    s1 = s1
    s2 = s2
    s3 = s3
    None = None
    Calls = {c1, c2, c3}
    Tasks = {t1}
    Threads = {th1, th2}
    Peers = {p1, p2}
    Sids = {s1, s2}
    NoContext = {}
    TaskOf <- OneTaskOf
    ThreadTask <- OneThreadTask
    ChanCap = 1
    MaxRetry = 0
    DiskFaults = {"permission", "other", "write"}
SYMMETRY ClientSymmetry
SPECIFICATION Spec
INVARIANTS
    TypeOK
    WgCountsConnections
    PendingCallsCached
    OfflineAnswerServed
PROPERTIES
    ImplementsLedger
    OnlyOwnAnswerDeletes
CHECK_DEADLOCK FALSE

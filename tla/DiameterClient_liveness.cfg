\* Two calls that may draw the same session id and one without Service-Context-Id,
\* which compete for the writer; one peer whose connection breaks, with a dial
\* that may fail twice; a sound disk, and fair goroutines.
CONSTANTS
    c1 = c1
    c2 = c2
    c3 = c3
    t1 = t1
    t2 = t2
    th1 = th1
    th2 = th2
    p1 = p1
    p2 = p2
    s1 = s1
    s2 = s2
    s3 = s3
    None = None
    Calls = {c1, c2, c3}
    Tasks = {t1}
    Threads = {th1}
    Peers = {p1}
    Sids = {s1, s2}
    NoContext = {c3}
    TaskOf <- OneTaskOf
    ThreadTask <- OneThreadTask
    ChanCap = 1
    MaxRetry = 1
    DiskFaults = {}
SPECIFICATION FairSpec
PROPERTIES
    OfflineAnswerWritten
    QueueDrains
CHECK_DEADLOCK FALSE

\* CAMEL: a call in a second, two threads that go on while the load lasts, a channel of one
\* message that may stay full, a disk that may refuse a file, fair goroutines.
SPECIFICATION FairSpec
CONSTANTS
    None = None
    Task = task
    Line = line
    Tasks = {task}
    Calls = {line}
    DiskFaults = {"permission"}
    th1 = th1
    th2 = th2
    th3 = th3
    Threads = {th1, th2}
    Main = th1
    CallsPerSecond = 1
    SlowLimit = 0
    Camel = TRUE
    Brt = FALSE
    InBrtList = FALSE
    Secondary = TRUE
    ChanCap = 1
    MaxCalls = 2
    MaxSlow = 0
INVARIANTS
    StopsTaking
    StatisticsNotInflated
PROPERTIES
    RateReleased
    ThreadsEnd
CHECK_DEADLOCK FALSE

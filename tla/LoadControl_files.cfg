\* Files: a call in a second, two threads, four calls, and a disk that may refuse a file.
SPECIFICATION Spec
CONSTANTS
    None = None
    Task = task
    Line = line
    Tasks = {task}
    Calls = {line}
    DiskFaults = {"permission"}
    th1 = th1
    th2 = th2
    th3 = th3
    Threads = {th1, th2}
    Main = th1
    CallsPerSecond = 1
    SlowLimit = 1
    Camel = FALSE
    Brt = FALSE
    InBrtList = FALSE
    Secondary = TRUE
    ChanCap = 1
    MaxCalls = 4
    MaxSlow = 4
SYMMETRY ThreadSymmetry
INVARIANTS
    TypeOK
    RateLimited
    ThreadsEarnedBySlowness
CHECK_DEADLOCK FALSE

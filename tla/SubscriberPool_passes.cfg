\* Pools of one and of three records, one thread that may be joined by another.
SPECIFICATION FairSpec
CONSTANTS
    th1 = th1
    th2 = th2
    Threads = {th1, th2}
    Main = th1
    PoolLens = {1, 3}
    MaxCount = 2
INVARIANTS
    TypeOK
    CountsAddUp
    RefillOnlyWhenSpent
    PanicsOnlyOnOneRecord
PROPERTIES
    SpentPoolRefilled
CHECK_DEADLOCK FALSE

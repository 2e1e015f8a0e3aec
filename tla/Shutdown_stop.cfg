\* Five combinations of options, two generators, one after the other or beside each other,
\* one task, a channel of one string and one code.
CONSTANTS
    Options <- SomeOptions
    Tasks = 1
    CacheCap = 1
    StatCap = 1
    MaxCodes = 1
    MaxRuns = 2
    Again <- NoReports
SPECIFICATION FairSpec
INVARIANTS
    PidFileNamesProcess
PROPERTIES
    EndsWithReporter
    ResponsesCounted
CHECK_DEADLOCK FALSE

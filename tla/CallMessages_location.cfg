\* One thread and requests that wait for their sender.
SPECIFICATION CallsSpec
CONSTANTS
    Configs <- OnlyCamel
    Settings <- AllSettings
    Threads = {1}
    Roaming = FALSE
    PoolFile <- SomeLines
    LacFile <- TwoPlaces
    DefaultPlace <- HomePlace
    DefaultB = 11
    ScpId <- TwoDigits
    SmscDigits = 11
    XvlrDigits = 11
    CountryDigits = 3
    OperatorDigits = 2
    QueueCap = 1
CHECK_DEADLOCK FALSE
INVARIANTS
    LocationIsTheCalls

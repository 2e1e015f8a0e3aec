\* One thread, all ways a call can go, the sample's CAMEL settings with the codes set.
SPECIFICATION CallsSpec
CONSTANTS
    Configs <- MixedConfigs
    Settings <- AllSettings
    Threads = {1}
    Roaming = FALSE
    PoolFile <- SomeLines
    LacFile <- TwoPlaces
    DefaultPlace <- HomePlace
    DefaultB = 11
    ScpId <- TwoDigits
    SmscDigits = 11
    XvlrDigits = 11
    CountryDigits = 3
    OperatorDigits = 2
    QueueCap = 1
INVARIANTS
    RequestsInStep
    SessionNamesCall
    RequestFollowsDictionary
    AnswerNamesCall
CHECK_DEADLOCK FALSE

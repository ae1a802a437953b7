SPECIFICATION MCSpec
CONSTANTS
    Forms = {"workflow", "composer", "checker", "policies"}
    Starts <- MCStarts
    Finance = {"dwd_fin_indicator"}
    MaxFailures = 1
    MaxFlips = 1
    Options <- MCOptions
    Period = 2
    Lookback = 2
    MissingAfter = 2
    Day = 6
    ConnectorLimit = 1
    RequestLimit = 1
    MaxRetries = 1
    MaxPolls = 1
    MaxNow = 4
    Resource = {"run"}
    LinkedRefresh = "refresh"
    Checkers <- MCCheckers
    Arguments <- MCArguments
    CheckPeriod = 2
    Grace = 1
    ViewWindow = 1
    Never <- MCNever
    MaxTime = 2
    Keys = {1, 2}
    Ids <- MCIds
    Operators = {"one"}
    Channels <- MCChannels
    MaxEdits = 1
INVARIANTS
    RecordsAreTrue SuccessIsComplete
    BuiltBeforeRead WholeSuccess HeartbeatVouches SetupConverges
CHECK_DEADLOCK FALSE

SPECIFICATION IngestionSpec
CONSTANTS
    Exec <- MCExec
    Settings <- MCSettings
    Days = {1, 2, 3}
    Endpoints <- MCEndpoints
    Semantics <- MCSemantics
    LookbackOpenDays <- MCLookback
    OpenDays = {1, 2, 3}
    EndDate <- MCEndDate
    RowLimit = 2
    MaxPages = 2
    MaxRetries = 1
INVARIANTS
    NoRowLost
    SuccessIsConfirmed
CHECK_DEADLOCK FALSE

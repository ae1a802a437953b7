SPECIFICATION Spec
CONSTANTS
    Days <- MCDays
    SourceDays <- MCSourceDays
    Manifests <- MCManifests
    Windows <- MCWindows
    PromotionWindows <- MCPromotionWindows
    RoleSets <- MCRoleSets
    RebalanceDays = {1, 3}
    MaxStarts = 4
    MaxPromotions = 2
INVARIANTS
    SyntheticDaysOnce
    PublishedIsOneBacktest
CHECK_DEADLOCK FALSE

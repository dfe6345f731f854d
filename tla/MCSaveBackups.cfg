SPECIFICATION Spec
CONSTANTS
    Content = {c1, c2}
    None = None
    MaxBackups = 2
    MaxStamp = 6
    MaxCrashes = 2
    MaxFaults = 1
INVARIANTS
    NewestBackupSurvives
    RetentionWithoutCrash
PROPERTY
    ReplacedCardIsBackedUp

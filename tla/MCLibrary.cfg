SPECIFICATION FairSpec
CONSTANTS
    NumFiles = 2
    Retention = 1
    MaxGenerations = 2
    MaxScans = 1
    MaxChanges = 1
    MaxDisturbances = 2
INVARIANTS
    TypeOK
    PointerNamesGeneration
    ReceiptVouches
    RetentionAfterBuild
PROPERTIES
    RunningKeepsReceipt
    JobsEnd
CHECK_DEADLOCK FALSE

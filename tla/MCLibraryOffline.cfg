SPECIFICATION Spec
CONSTANTS
    NumFiles = 1
    Retention = 1
    MaxGenerations = 1
    MaxScans = 1
    MaxChanges = 0
    MaxDisturbances = 2
PROPERTY
    OfflineKeepsReceipt
CHECK_DEADLOCK FALSE

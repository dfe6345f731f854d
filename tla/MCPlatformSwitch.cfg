SPECIFICATION FairSpec
CONSTANTS
    Profile = {wii, g1, g2}
    Wii = wii
    Session = {s1, s2}
    None = None
    GameCubeMode = "gamecube-emulated"
    Slot = {j1}
    MaxRequests = 3
    MaxWrites = 1
    MaxFaults = 1
    MaxLate = 0
    MaxLocal = 0
    MaxRestarts = 1
    MaxRepeats = 0
INVARIANTS
    TypeOK
    PinnedBackendOpen
    ActiveWhileSessionsOpen
    AttachedMatchesExport
    AckedWriteIsRead
    AdministeredStoreIsExported
PROPERTIES
    RequestsEnd
CHECK_DEADLOCK FALSE

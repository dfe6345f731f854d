SPECIFICATION Spec
CONSTANTS
    Profile = {wii, g1, g2}
    Wii = wii
    Session = {s1, s2}
    None = None
    GameCubeMode = "gamecube-emulated"
    Slot = {j1, j2}
    MaxRequests = 2
    MaxWrites = 1
    MaxFaults = 0
    MaxLate = 1
    MaxLocal = 1
    MaxRestarts = 0
    MaxRepeats = 0
INVARIANTS
    AckedWriteIsRead
    AdministeredStoreIsExported
SYMMETRY Symmetry
CHECK_DEADLOCK FALSE

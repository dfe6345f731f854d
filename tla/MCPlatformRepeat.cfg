SPECIFICATION Spec
CONSTANTS
    Profile = {wii, g1, g2}
    Wii = wii
    Session = {s1, s2}
    None = None
    GameCubeMode = "gamecube-emulated"
    Slot = {j1, j2}
    MaxRequests = 2
    MaxWrites = 1
    MaxFaults = 0
    MaxLate = 0
    MaxLocal = 0
    MaxRestarts = 0
    MaxRepeats = 1
INVARIANT
    AckedWriteIsRead
SYMMETRY Symmetry
CHECK_DEADLOCK FALSE

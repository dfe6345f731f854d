SPECIFICATION Spec
CONSTANTS
    CardCells = 2
    BlockCells = 1
    Val = {0, 1}
    Zero = 0
    None = None
    MaxPending = 2
    MaxJournal = 4
    MaxDirty = 2
    Overhead = 1
    MaxCrashes = 1
    MaxFaults = 0
INVARIANT
    InterruptedActivationAccepted

SPECIFICATION Spec
CONSTANTS
    CardCells = 2
    BlockCells = 2
    Val = {0, 1}
    Zero = 0
    None = None
    MaxPending = 3
    MaxJournal = 4
    MaxDirty = 1
    Overhead = 1
    MaxCrashes = 2
    MaxFaults = 2
INVARIANTS
    TypeOK
    AckedWritesSurvive
    ReadsSeeAckedWrites
    IdentityImpliesChecksum
    OneFaultLeavesCardConfirmed
    JournalReplayable
PROPERTIES
    TruncatedOnlyWhenConfirmed
    AtomicDurableCard
CONSTRAINT TwoMishaps

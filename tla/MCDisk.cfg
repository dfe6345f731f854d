CONSTANTS
    SectorSize = 2
    PartitionStart = 1
    Reserved = 8
    ClusterSectors = 2
    MinimumClusters = 5
    MaxClusters = 12
    MaxSectors = 60
    MaxFile = 9
    MaxSegment = 5
    LargeVolume = 12
    CacheLimit = 1
    MaxChanges = 2
    Source = {1, 2}
    Card = {1}
    Slots <- SmallSlots
    WiiClusterSectors <- SmallWiiClusters
    Libraries <- SmallLibraries
    Reads <- SmallReads
    Writes <- SmallWrites

SPECIFICATION Spec
INVARIANTS
    ReadsAreTrue
    HandlesBounded
    VolumeReadsBack
CHECK_DEADLOCK FALSE

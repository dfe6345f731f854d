SPECIFICATION FairSpec
CONSTANTS
    a1 = a1
    a2 = a2
    Remembered = "d1"
    Installed <- SomePis
    Address = {a1, a2}
    Base = a1
    f1 = f1
    f2 = f2
    Firmware = {f1, f2}
    Descriptor <- SomeDescriptors
    Kinds <- SomeKinds
    Request = {r1}
    Setter = {u1, u2}
    Poller = Poller
    Waiting = Waiting
    Failed = Failed
    None = None
    MaxEvents = 1
INVARIANTS
    CacheIsOfCurrentClient
    LivePiAuthorises
PROPERTIES
    NewAddressIsPolled
CHECK_DEADLOCK FALSE

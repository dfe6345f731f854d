CONSTANTS
    Profile = {wii, gc}
    Wii = wii
    Session = {c1, c2}
    None = None
    Blocks = 3
    MaxRequest = 2
    MaxOptions = 2
    MaxRequests = 2
    Requests <- SmallRequests
    Card <- SmallCard

SPECIFICATION NbdSpec
INVARIANTS
    FramesStayAligned
    AnswersAreTrue
    OnlyCardChanges
PROPERTIES
    SessionsEnd
CHECK_DEADLOCK FALSE

SPECIFICATION FairSpec
CONSTANTS
    w = w
    g = g
    WiiGames = {w}
    CubeGames = {g}
    Elsewhere = {w}
    Installations <- MCInstallations
    Outages = {"moved", "writable", "other", "bare", "gone"}
    QueueLimit = 1
    MaxEvents = 2
INVARIANTS
    LossNeedsTwoDisturbances
    CatalogIsServed
PROPERTIES
    TrustNeedsConfirmation
    SourceReturns
CHECK_DEADLOCK FALSE

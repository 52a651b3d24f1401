SPECIFICATION FairSpec
CONSTANTS
    Axis <- MCAxis
    Orientation = {"ahead"}
    Identity = "ahead"
    Relative <- MCRelative
    Center <- MCZero
    Initial <- MCInitial
    Gain <- MCGain
    MaxRate <- MCMaxRate
    Minimum <- MCMinimum
    Maximum <- MCMaximum
    Filtered = FALSE
    Resolution = 1
    SessionId = {s1, s2}
    None = None
    Sequence = {1, 2, 3}
    Timestamp = {0, 1}
    Mode = {"head", "arm", "warp"}
    Command <- MCCommand
    HandshakeTimeout = 3
    WatchdogTimeout = 2
    Horizon = 4
    MaxTime = 8
INVARIANTS
    TypeOK
    SessionCoherence
PROPERTIES
    MotionLossIsAnnounced
    RejectionsAreInert
    LatchHolds
    PermissionContract
    SilentSessionsEnd

SPECIFICATION CSpec
CONSTANTS
    Axis <- MCAxis
    Orientation <- MCOrientation
    Identity = "ahead"
    Relative <- MCRelative
    Center <- MCCenter
    Initial <- MCInitial
    Gain <- MCGain
    MaxRate <- MCMaxRate
    Minimum <- MCMinimum
    Maximum <- MCMaximum
    Filtered = TRUE
    Resolution = 2
    Long = s1
    Short = s2
    SessionId = {s1, s2}
    None = None
    Sequence = {1, 2, 3, 4, 5}
    Timestamp = {0}
    Mode = {"head"}
    Command <- MCCommand
    HandshakeTimeout = 2
    WatchdogTimeout = 2
    Horizon = 3
    MaxTime = 3
INVARIANTS
    ShownIsState
    CommandedIsPublished
PROPERTIES
    TargetsOnlyWhenReleased
    PublishedRate

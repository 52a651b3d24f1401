SPECIFICATION NodeSpec
CONSTANTS
    Axis <- MCAxis
    Orientation = {"ahead"}
    Identity = "ahead"
    Relative <- MCRelative
    Center <- MCZero
    Initial <- MCZero
    Gain <- MCMaxRate
    MaxRate <- MCMaxRate
    Minimum <- MCMinimum
    Maximum <- MCMaximum
    Filtered = FALSE
    Resolution = 1
    First = s1
    Second = s2
    SessionId = {s1, s2}
    None = None
    Sequence = {1, 2, 3, 4}
    Timestamp = {0}
    Mode = {"head"}
    Command <- MCCommand
    HandshakeTimeout = 3
    WatchdogTimeout = 2
    Horizon = 5
    MaxTime = 5
    Frame <- MCFrame
    Depth = 2
    PollPeriod = 2
    Latency = 1
    MaxCrashes = 1
INVARIANTS
    NodeTypeOK
    StoppedInTime
    EventsAreEncodable

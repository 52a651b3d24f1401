SPECIFICATION TeleopSpec
SYMMETRY Sessions
VIEW Relevant
CONSTANTS
    Axis <- MCAxis
    Orientation = {"ahead"}
    Identity = "ahead"
    Relative <- MCRelative
    Center <- MCZero
    Initial <- MCInitial
    Gain <- MCGain
    MaxRate <- MCMaxRate
    Minimum <- MCMinimum
    Maximum <- MCMaximum
    Filtered = FALSE
    Resolution = 1
    SessionId = {s1, s2}
    None = None
    Sequence = {1, 2, 3}
    Timestamp = {0, 1, 2}
    Mode = {"head", "arm"}
    Command <- MCCommand
    HandshakeTimeout = 2
    WatchdogTimeout = 1
    Horizon = 3
    MaxTime = 2
    MaxSequence = 3
    MaxInFlight = 2
INVARIANT ObeyedInOrder
PROPERTY RefusalsAreExplained

SPECIFICATION Spec
CONSTANTS
    Axis <- MCAxis
    Orientation <- MCOrientation
    Identity = "ahead"
    Relative <- MCRelative
    Center <- MCCenter
    Initial <- MCInitial
    Gain <- MCGain
    MaxRate <- MCMaxRate
    Minimum <- MCMinimum
    Maximum <- MCMaximum
    Filtered = TRUE
    Resolution = 2
    MaxTime = 4
INVARIANTS
    TypeOK
    WithinLimits
    TravelBudget
    BumplessRecenter

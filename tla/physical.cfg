CONSTANTS
    m7 = m7
    m8 = m8
    LogTask <- MCTask
    Marker = {m7, m8}
    ExpectedMarker = m7
    ProjectRoot <- MCProjectRoot
    MaxRuns = 3
SPECIFICATION PhysicalSpec
INVARIANTS PhysicalTypeOK LogsNeverRefuse ReplayIsSealed PassMeansConfirmedRun
    FinishedRunLeavesItsFiles CheckJudgesFinishedRun DashboardTellsOutcome LinksReachEvidence

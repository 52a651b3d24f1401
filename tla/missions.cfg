CONSTANTS
    LogTask <- MCTask
    MaxMissions = 3
    MaxFrames = 4
SPECIFICATION MissionsSpec
CHECK_DEADLOCK FALSE
INVARIANTS MissionsTypeOK LogsNeverRefuse ReturnedLogsAreSealed FramesAreNotShared
PROPERTY GripperClosesOnObject

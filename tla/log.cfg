CONSTANTS
    t1 = t1
    t2 = t2
    LogTask = t1
    Task = {t1, t2}
    EventType <- MCEventType
    MaxSequence = 4
SPECIFICATION LogSpec
INVARIANTS LogTypeOK AlwaysValidates
PROPERTY ReadersContract

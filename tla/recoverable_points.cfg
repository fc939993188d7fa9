SPECIFICATION RecoveringSpec
CONSTANTS
    Content = {a, b}
    Absent = Absent
    Torn = Torn
    Proc = {p1, p2}
    MaxGeneration = 3
    FaultPoints <- RecoverablePoints
    MaxFaults = 2
    RecoverAlone = TRUE
INVARIANTS
    StoppedIsRecoverable
    OnlyTheLimitRefuses
PROPERTIES
    InFlightSettles

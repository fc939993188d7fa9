SPECIFICATION ObservedSpec
CONSTANTS
    Bytes = {b, c}
    Absent = Absent
    Uncertain = Uncertain
    NothingTold = NothingTold
    MaxShortRetries = 2
    MaxGetRetries = 2
    MaxPollAttempts = 10
    MaxDeployments = 2
SYMMETRY Symmetry
INVARIANTS
    SettledIsTrue
    ShownIsRecorded
PROPERTIES
    UnknownMeansARequest
    ImplementsAnnounced

SPECIFICATION Spec
CONSTANTS
    Mine = {x, y}
    Foreign = {z}
    Content = {v, w}
    Absent = Absent
    Uncertain = Uncertain
    MaxCommits = 4
CHECK_DEADLOCK FALSE
SYMMETRY Symmetry
INVARIANTS
    ConfirmedIsInHistory
PROPERTIES
    GrowsByTheBatch
    ImplementsAnnounced

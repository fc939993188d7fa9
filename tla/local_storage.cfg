SPECIFICATION Spec
CONSTANTS
    Key = {k, l}
    Content = {a, b}
    Proc = {p, q}
    Absent = Absent
    Tombstone = Tombstone
    Damaged = Damaged
    MaxGeneration = 3
INVARIANTS
    CopyFollows
PROPERTIES
    ImplementsContract

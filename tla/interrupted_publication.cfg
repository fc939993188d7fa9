SPECIFICATION Spec
CONSTANTS
    Content = {a, b}
    Absent = Absent
    Torn = Torn
    Proc = {p1, p2}
    MaxGeneration = 4
    FaultPoints <- AllFaultPoints
    MaxFaults = 2
    RecoverAlone = TRUE
SYMMETRY Symmetry
INVARIANTS
    TypeOK
    PublishersExclude
    SettledJournalMatchesActive
    PreviousPairSurvives
    EvidenceIsSound
PROPERTIES
    JournalSucceeds
    ReplacedAsAWhole

SPECIFICATION Spec
CONSTANTS
    Photo = {x, y}
    Config = {c, d}
    Proc = {p, q}
    Whole = Whole
    Absent = Absent
    Uncertain = Uncertain
    MaxGeneration = 3
    MaxRetries = 1
    MaxPolls = 2
    Solo = TRUE
    PrepareBeside = FALSE
    StableAccess = TRUE
SYMMETRY Symmetry
INVARIANTS
    LedgerIsTruthful
    FinishedMeansPublished
PROPERTIES
    AbandonedIsNeverRepeated
    AdoptsSettledLedger
    ImplementsAnnounced
    SiteOverPublishedFiles

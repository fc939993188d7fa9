SPECIFICATION FairSpec
CONSTANTS
    Photo = {x}
    Config = {c, d}
    Proc = {p, q}
    Whole = Whole
    Absent = Absent
    Uncertain = Uncertain
    MaxGeneration = 2
    MaxRetries = 1
    MaxPolls = 2
    Solo = TRUE
    PrepareBeside = TRUE
    StableAccess = FALSE
PROPERTIES
    EffectsAreAnnounced
    RunsEnd

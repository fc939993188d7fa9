CONSTANTS
    Project = {a, b}
    NoPath = NoPath
    Id = {1, 2}
    NoCall = NoCall
SPECIFICATION FairSpec
INVARIANTS
    NobodyWaitsInVain
    ResultsRestOnEachOther
    PlanIsFresh
PROPERTY EverythingReopens

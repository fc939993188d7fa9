SPECIFICATION FairSpec
CONSTANTS
    Run = {r, s}
    MaxFailures = 2
INVARIANTS
    NothingIsCreatedTwice
PROPERTIES
    BranchKept
    ReportsWhatIsThere
    RepeatingSucceeds

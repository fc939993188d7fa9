SPECIFICATION FairBuilds
CONSTANTS
    Photo = {x, y}
    Image = {a, b, t}
    Turned = {t}
    Damaged = Damaged
    Missing = Missing
    Raw <- RawSizes
    Upright <- UprightSizes
    MaxRaces = 2
    MaxStops = 1
INVARIANTS
    AssetsAreTheirContent
PROPERTIES
    BrokenOnlyByARace
    CatchesUp

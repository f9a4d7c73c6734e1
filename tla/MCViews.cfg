SPECIFICATION Spec
CONSTANTS
    Handlers = {h1, h2}
    Streams = {c1}
    Maps = {m1, m2}
    Nil = Nil
    Blocks = 2
    MaxCatalogue = 2
    Part = Part
    LocalIds = {m1, m2}
    MaxActive = 1
    MaxRevision = 2
    MaxRuntime = 2
    MaxFaults = 1
    EmptyFile = EmptyFile
    Partial = Partial
    Weathers = {w1, w2}
    Capacity = 1
    Sandboxes = {1}
    Readers = {r1}
    MaxSwitches = 3
    RaceMaps = {n1}
    LapLength = 2
    Steps = {1, 3}
    Moved = 0
    Backtrack = 2
    Slack = 1
    MaxAge = 2
    MaxBehind = 1
    GridSize = 2
    MaxCars = 2
    MaxElapsed = 2
    MaxLaps = 2
INVARIANTS
    
    CatalogueIsReal
    AcknowledgedIsDurable
    
    TracksFitMaps
    
PROPERTIES
    CachedStays
SYMMETRY Symmetry
CHECK_DEADLOCK FALSE

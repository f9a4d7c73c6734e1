SPECIFICATION FairSpec
CONSTANTS
    SandboxIds = {s1, s2}
    RaceIds = {r1}
    Maps = {m1, bad}
    BrokenMaps = {bad}
    InvalidMaps = {}
    Presets = {noon}
    Weathers = {rain}
    Clients = {c1}
    DefaultMap = m1
    MaxRevision = 5
    MaxTime = 2
    Nil = Nil
INVARIANTS
    WorldsMatchState
    ActivityCoherent
    NoActivationOfActive
    SnapshotsAreSafe
PROPERTY
    DueOperationsRun
CHECK_DEADLOCK FALSE

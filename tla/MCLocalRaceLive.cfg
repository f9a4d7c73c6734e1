SPECIFICATION FairSpec
CONSTANTS
    Admins = {a1}
    RaceIds = {r1, r2}
    Cars = {k1}
    MaxParticipants = 2
    StartSlots = 2
    Countdowns = {1}
    Duration = 1
    MaxTime = 3
    Nil = Nil
PROPERTIES
    RaceRunsItsCourse

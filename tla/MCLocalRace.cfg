SPECIFICATION Spec
CONSTANTS
    Admins = {a1}
    RaceIds = {r1, r2}
    Cars = {k1, k2}
    MaxParticipants = 2
    StartSlots = 2
    Countdowns = {0, 1}
    Duration = 1
    MaxTime = 3
    Nil = Nil
SYMMETRY Symmetry

    
PROPERTIES
    PhaseOrder

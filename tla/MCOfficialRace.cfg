SPECIFICATION Spec
CONSTANTS
    a = a
    Teams = {a}
    Rosters <- MCRosters
    Slots = {1, 2}
    StartSlots = 2
    MaxAttempts = 1
    MaxCars = 2
    MaxBoxes = 2
    MaxSignals = 2
    MaxFaults = 1
    MaxEvents = 2
    Switching = Switching
    Awaiting = Awaiting
    Nil = Nil
INVARIANTS
    RaceTeamsAreSound
PROPERTIES
    OnlyDeadBotsParked
    
CHECK_DEADLOCK FALSE

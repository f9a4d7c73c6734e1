SPECIFICATION FairSpec
CONSTANTS
    Teams = {red}
    Sandboxes = {sa}
    Slots = {s1, s2}
    MaxCars = 1
    MaxBots = 2
    MaxActivations = 1
    MaxCancels = 1
    Nil = Nil
PROPERTIES
    BrokenJoinCleaned
    HiddenCarDropped

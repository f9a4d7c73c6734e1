SPECIFICATION Spec
CONSTANTS
    Teams = {red}
    Sandboxes = {sa}
    Slots = {s1, s2}
    MaxCars = 2
    MaxBots = 2
    MaxActivations = 2
    MaxCancels = 1
    Nil = Nil
SYMMETRY SlotSymmetry
INVARIANTS
    CarsAreOwned
    
PROPERTIES
    SwitchKeepsCar

SPECIFICATION MCFairSpec
CONSTANTS
    Tyres = {"Hard", "Soft"}
    Hard = "Hard"
    Clients = {"bot", "frontend"}
    Commands = {}
    Cooldown = 2
    LockTime = 2
    IdleWindow = 1
    HistoryMax = 2
    MaxTime = 2
    Nil = Nil
INVARIANTS
    NoLostTyreChoice
    WithdrawnChoiceYields
    HistoryChains
PROPERTIES
    
    LockHoldsCar

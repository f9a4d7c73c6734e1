SPECIFICATION FairSpec
CONSTANTS
    Subs = {b1, b2}
    Teams = {red}
    SlotIds = {1, 2}
    Codes = {1, 2}
    Requests <- OneBotPerSlot
    QueueCap = 2
    EventCap = 1
    MaxCrashes = 1
    Nil = Nil
INVARIANTS
    SlotsAreSound
PROPERTIES
    
    SlotStreamCatchesUp

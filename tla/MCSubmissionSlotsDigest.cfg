SPECIFICATION Spec
CONSTANTS
    Subs = {b1, b2}
    Teams = {red}
    SlotIds = {1, 2}
    Codes = {1}
    Requests <- SameBot
    QueueCap = 1
    EventCap = 1
    MaxCrashes = 0
    Nil = Nil
INVARIANTS
    CleanupSparesSlots

CONSTANTS
    Keys = {k1, k2}
    Writers = {w1, w2, w3}
    Data = {d1}
    MaxSlot = 2
    Absent = Absent
    Idle = Idle
SPECIFICATION Spec
INVARIANTS
    TypeOK
    CountMatchesKeys
    LastSlotReached
PROPERTIES
    ImplementsLatestStore

SPECIFICATION Spec
CONSTANTS
    j1 = j1
    j2 = j2
    j3 = j3
    s1 = s1
    s2 = s2
    s3 = s3
    Jobs = {j1, j2, j3}
    Slots = {s1, s2, s3}
    NoSlot = NoSlot
    Need <- NeedThree
    Kind <- KindThree
    OneClient = FALSE
    MaxFaults = 2
SYMMETRY SlotSymmetry
INVARIANTS
    TypeOK
    ExclusiveSlots
    NoSlotLost
    GrantedSlotIsEmpty
    NoStrandedWaiter
    OneJobHoldsAndWaits

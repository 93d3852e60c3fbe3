SPECIFICATION Spec
CONSTANTS
    j1 = j1
    j2 = j2
    j3 = j3
    s1 = s1
    s2 = s2
    s3 = s3
    Jobs = {j1, j2}
    Slots = {s1, s2}
    NoSlot = NoSlot
    Need <- NeedTwo
    Kind <- KindCraft
    OneClient = FALSE
    MaxFaults = 0
SYMMETRY SlotSymmetry
INVARIANTS
    NoPhantomDeposit

SPECIFICATION FairSpec
CONSTANTS
    NSlots = 3
    Jobs <- MCJobs
    Need <- MCNeed
    Kind <- MCKind
    Bases <- MCBases
INVARIANTS
    ExclusiveSlots
    NoSlotLost
    GrantedSlotIsEmpty
    WaitersResolvedOnce
PROPERTIES
    GridsGoOn
CHECK_DEADLOCK FALSE

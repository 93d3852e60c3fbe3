SPECIFICATION Spec
CONSTANTS
    NSlots = 3
    Jobs <- MCJobs
    Need <- MCNeed
    Kind <- MCKind
    Bases <- MCFailing
INVARIANTS
    ExclusiveSlots
CHECK_DEADLOCK FALSE

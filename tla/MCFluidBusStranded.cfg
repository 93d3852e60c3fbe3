SPECIFICATION Spec
CONSTANTS
    b1 = b1
    b2 = b2
    b3 = b3
    recipe1 = recipe1
    recipe2 = recipe2
    output1 = output1
    Buses <- MCBuses
    Jobs <- MCJobs
    NoBus = NoBus
    Need <- MCNeed
    Kind <- MCKind
    MaxFaults = 0
SYMMETRY Symmetry
INVARIANT NoStrandedWaiter

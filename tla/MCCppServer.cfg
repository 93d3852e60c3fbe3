SPECIFICATION FairSpec
CONSTANTS
    c1 = c1
    c2 = c2
    n1 = n1
    n2 = n2
    g1 = g1
    g2 = g2
    g3 = g3
    Conns = {c1, c2}
    NoConn = NoConn
    Names = {n1, n2}
    NoName = NoName
    Groups = {g1, g2, g3}
    NoGroup = NoGroup
    Size <- MCSize
    Accesses <- MCAccesses
INVARIANTS
    AnswersInOrder
    PendingHasWakeup
    LoginsAreOpen
PROPERTIES
    BestClientTaken
    ServiceSpec
    ActionsComplete

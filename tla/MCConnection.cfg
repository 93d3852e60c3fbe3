SPECIFICATION FairSpec
CONSTANTS
    c1 = c1
    c2 = c2
    c3 = c3
    n1 = n1
    n2 = n2
    g1 = g1
    g2 = g2
    Conns = {c1, c2, c3}
    NoConn = NoConn
    Names = {n1, n2}
    NoName = NoName
    Running = {n1}
    Groups = {g1, g2}
    Size <- MCSize
    Accesses <- MCAccesses
INVARIANTS
    AnswersInOrder
    TimeoutWhilePending
    ClientsReachable
    GroupsTogether
PROPERTIES
    ServiceSpec
    RequestsComplete

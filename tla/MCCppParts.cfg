SPECIFICATION MCSpec
CONSTANTS
    NoStack = NoStack
    Promises <- MCPromises
    Root = 1
    NoPromise = 0
    Kind <- MCKind
    From <- MCFrom
    Inner <- MCInner
    Items <- MCItems
    NoItem = "NoItem"
    Name <- MCName
    Label <- MCLabel
    MaxSize <- MCMaxSize
    Recipes <- Alloys
    Backups <- MCBackups
    MaxStored = 5
INVARIANTS
    PlansAreBest
    PromisesInOrder
    ListsArrive
PROPERTIES
    ExpressionCompletes
CHECK_DEADLOCK FALSE

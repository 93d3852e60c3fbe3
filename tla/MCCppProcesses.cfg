SPECIFICATION MCSpec
CONSTANTS
    Items <- MCItems
    NoItem = "NoItem"
    MaxSize <- MCMaxSize
    Chests <- MCChests
    ChestSlots = 2
    Filtered = {"b"}
    HasME = TRUE
    Backup <- MCBackup
    BackupUsers = {"b"}
    BusSlots = {0, 1}
    StoredAtFirst <- MCStoredAtFirst
    Products <- MCProducts
    MaxItems = 2
    Kinds <- MCKinds
    Values <- MCValues
    Lower = 30
    Upper = 70
    KP = 1
    KI = 1
    KD = 1
    NeededLevel = 2
    ValueFn <- MCValueFn
    Limit = 2
    MaxChanges = 2
    MaxLost = 1
    Processes = {"storages", "slotted", "buffered", "scattering", "inputless", "robot", "workbench", "control"}
    Live = FALSE
INVARIANTS
    AccountsHold
    TransfersFit
    CompleteSets
    Regulated
    RemembersWhatIs
PROPERTIES
    StepsAsPromised

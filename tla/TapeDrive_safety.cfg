SPECIFICATION Spec
CONSTANTS
    Cartridges = {"folder", "tap"}
    FolderTapes = {"folder"}
    NoTape = "none"
    Lost = Lost
    InitialItems <- MCInitialItems
    DataSets = {"d1", "d2"}
    IplDataSet = "ipl"
    Blocks = {"b1"}
    VolumeIds = {"v1"}
    MaxBlocks = 1
    MaxRead = 2
    MaxItems = 24
    SpaceCounts <- MCSpaceCounts
    MaxBroken = 1
    ProtectedSets <- MCProtectedSets
    OperatorWaits = TRUE
INVARIANTS CleanTapeIsSafe
PROPERTIES KeepsDataSets

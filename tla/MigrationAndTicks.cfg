SPECIFICATION BothSpec
CONSTANTS
    None = None
    Default = Default
    Words = {word}
    Process = {p1}
    Operator = op
    Trees <- AllTrees
    Successions <- AllSuccessions
    Stores <- AllStores
    RowKey = {1,2}
    Cell = {1, word}
    MaxDeploys = 2
    MaxWrites = 1
    Never <- NoTick
    TickAfter <- NextTickOf
    TicksBetween <- Between
    TickBefore <- Recent
    IsTick <- FiresAt
    Names <- Paths
    Absent = Absent
    CatchUps <- CaughtUp
    Firsts <- FirstTrees
    Edits <- Reloads
    Remembered = {6}
    Zones <- SampleZones
    StartTime = 14
    EndTime = 20
    MaxReloads = 2
INVARIANTS InStep EveryTickOnce MissedAreTheDropped
PROPERTIES UndisturbedApplies LosesOnlyWhatWasAllowed
CHECK_DEADLOCK FALSE

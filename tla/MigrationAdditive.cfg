SPECIFICATION Spec
CONSTANTS
    None = None
    Default = Default
    Words = {word}
    Process = {p1}
    Operator = op
    Trees <- AllTrees
    Successions <- AllSuccessions
    Stores <- AllStores
    RowKey = {1}
    Cell = {1, word}
    MaxDeploys = 1
    MaxWrites = 1
PROPERTY AdditiveCannotFail
CHECK_DEADLOCK FALSE

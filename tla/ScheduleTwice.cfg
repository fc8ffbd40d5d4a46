\* No process dies and no statement of the keeper fails.
CONSTANTS
    Process = {p1, p2}
    Overlaps = {"skip"}
    LastTick = 2
    MaxFaults = 0
    MaxStarts = 0
SPECIFICATION Spec
INVARIANT TwiceOnlyAfterACrash

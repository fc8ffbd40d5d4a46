\* Two processes and three ticks; one of them restarts after a stop or a crash.
CONSTANTS
    Process = {p1, p2}
    Overlaps = {"skip", "wait", "concurrent"}
    LastTick = 3
    MaxFaults = 1
    MaxStarts = 1
SPECIFICATION Spec
SYMMETRY Symmetry
INVARIANTS OnceUnlessLoose OneAfterAnother
PROPERTY StopLeavesNothing

\* Every judged graph of four nodes with one switch, the shapes of six nodes in
\* which two switches meet, and one in which a switch overlooks a fault.
CONSTANTS
    N = 6
    Graphs <- SmallAndShapes
SPECIFICATION Spec
INVARIANTS RanInOrder FaultsHeld OneBranchRuns StuckOnlyOnRoots BlamesTheEnder
PROPERTY RunAnswers

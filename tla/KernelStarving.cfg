\* The node a first fault is routed to reads the node that broke second.
CONSTANTS
    N = 6
    Graphs <- Starving
SPECIFICATION Spec
INVARIANT BlockedNamesNeeds

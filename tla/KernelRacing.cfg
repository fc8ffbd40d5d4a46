\* A switch cancels another that holds a fault, in the pass that starts a third node.
CONSTANTS
    N = 7
    Graphs <- Racing
SPECIFICATION Spec
PROPERTY NothingStartsOnceEnded

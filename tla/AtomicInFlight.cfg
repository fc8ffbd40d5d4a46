\* A node timed out while its statement is on its way.
CONSTANTS
    Length = 4
    Maps <- AllMaps
    MaxTimes = 3
    TimerMax = 8
    Policies <- AllPolicies
    Node = {n1, n2, n3}
    first = c1
    second = c2
    Connection = {c1, c2}
    Graphs <- AllGraphs
SPECIFICATION CallSpec
PROPERTY NoHandlerInFlight

\* A map over four elements, up to four tries of a wait that doubles past the
\* timer, an atomic graph of three nodes.
CONSTANTS
    Length = 4
    Maps <- AllMaps
    MaxTimes = 3
    TimerMax = 8
    Policies <- AllPolicies
    Node = {n1, n2, n3}
    first = c1
    second = c2
    Connection = {c1, c2}
    Graphs <- AllGraphs
SPECIFICATION CallSpec
INVARIANTS AnswerIsWhole BlamesABreak TriesAreTold
INVARIANTS OneTransaction AnswersWhatItCommitted
PROPERTIES NoLateStart CallsSettle

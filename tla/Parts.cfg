\* A lock over four windows; four turns; four requests at a gate of two slots
\* and two starts a second; up to three batches of two spans; two consumers of
\* one listening session that fails twice; three edits of a served tree; a
\* worker of two connections.
CONSTANTS
    Window = 6
    Latency = 1
    MaxFailures = 2
    Horizon = 24
    MaxTurns = 4
    Request = {r1, r2, r3, r4}
    InFlightMax = 2
    PerSecond = 2
    Second = 3
    Batch = 2
    Ceiling = 3
    Trace = {1, 2, 4}
    Batches = {b1, b2, b3}
    MaxSpans = 9
    Consumer = {d1, d2}
    MaxSessions = 6
    MaxLosses = 2
    MaxEdits = 3
    MaxPools = 3
    Connections <- WorkerConnections
    Queues <- WorkerQueues
    c1 = c1
    c2 = c2
    q1 = q1
    q2 = q2
    q3 = q3
SPECIFICATION PartsSpec
INVARIANTS HealthyHoldsItsLock InTurn AtMostPerSecond NoSlotIdles Accounted
INVARIANTS StopLeavesNothing NothingHalfHeld
PROPERTIES NoneStranded NothingDropped HeardInTheEnd EditsAreTried
CHECK_DEADLOCK FALSE

\* Three messages, of which the two consumers of the table broker share one.
CONSTANTS
    Message = {m1, m2, m3}
    First = m1
    Consumer = {c1, c2}
    One = c1
    Concurrency = 2
    MaxAttempts = 2
    MaxFaults = 2
    MaxSlotsFaults = 1
SPECIFICATION QueuesSpec
INVARIANTS NoSharedAttempt OnceUnlessFaulty BoundedInFlight
PROPERTIES StopDrains NeverRelocked ImplementsDelivery MemoryKeepsThePromise NoneForgotten

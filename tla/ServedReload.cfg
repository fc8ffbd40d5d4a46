SPECIFICATION ServedSpec
CONSTANTS
  MaxEdits = 3
  MaxPools = 3
INVARIANT HeldStillWorks
CHECK_DEADLOCK FALSE

SPECIFICATION Spec
CONSTANTS
    Locks = {d1, d2}
    Depth = 1
    Buffer = 1
    MaxRange = 2
    Start = 1
    MaxHead = 4
    Cap = 2
    MaxAttempts = 2
    MaxBurns = 3
INVARIANTS NothingSkipped  NoBurnSkipped
  

CONSTANTS
  MaxOps = 2
  MaxThreadedOps = 2
  MaxFallbackQueue = 2
  MaxFlushResolvers = 1
SPECIFICATION TSpec
CHECK_DEADLOCK FALSE
INVARIANTS
  FlushCoversAccepted

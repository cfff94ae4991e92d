SPECIFICATION MCSpec
CONSTANTS
  MaxOps = 5
  MaxThreadedOps = 3
  MaxFallbackQueue = 2
  MaxFlushResolvers = 1
  p1 = p1
  p2 = p2
  p3 = p3
  Procs = {p1, p2, p3}
  Nobody = Nobody
  MaxRetries = 3
  MaxCrashes = 1
  MaxUses = 1
  MaxLines = 4
  MaxInFlight = 3
  MaxSize = 0
  MaxBackups = 2
  MaxPayloads = 2
  MaxAttempts = 3
  Budget = 4
  Timeout = 1
  Backoff = {1}
  RetryAfter = {0, 9}
INVARIANTS
  RotationsSerialized
  IdleLetsExit
CHECK_DEADLOCK FALSE

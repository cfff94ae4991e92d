SPECIFICATION MCSpec
CONSTANTS
  a = a
  b = b
  c = c
  Marker = Marker
  Bad = Bad
  Payloads <- MCPayloads
  InitialFiles <- MCInitialFiles
  MaxLines = 4
  MaxDrain = 1
  MaxDeliveries = 2
  MaxExits = 1
  e1 = e1
  e2 = e2
  e3 = e3
  f1 = f1
  f2 = f2
  Events <- MCEvents
  Flushers <- MCFlushers
  BatchSize = 2
  MaxBuffer = 2
  Retries = 2
  MaxBackups = 1
  MaxStops = 1
INVARIANTS
  DepthSound
  NoLoss
  NoRedelivery
  StoredUntilAcked
  NothingForgotten
  QueueSound
SYMMETRY Symmetry
CHECK_DEADLOCK FALSE

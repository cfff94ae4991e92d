CONSTANTS
  a = a
  b = b
  c = c
  Marker = Marker
  Bad = Bad
  Payloads <- MCPayloads
  InitialFiles <- MCOneLeft
  MaxLines = 4
  MaxDrain = 1
  MaxDeliveries = 2
  MaxExits = 0
SPECIFICATION DSpec
CHECK_DEADLOCK FALSE
INVARIANTS
  OwnDrainsLoseNothing

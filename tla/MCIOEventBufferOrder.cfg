CONSTANTS
  r1 = r1
  NoRequest = NoRequest
  Empty = Empty
  Capacity = 3
  MaxBytes = 9
  MetadataOverhead = 1
  SlotBytes <- MCOneSize
  Requests <- MCRequests
  EvictionLogCapacity = 1
  StoreContextEvents = FALSE
  MaxClock = 5
SPECIFICATION Spec
CHECK_DEADLOCK FALSE
INVARIANTS
  ReadsInOrder

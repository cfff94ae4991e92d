CONSTANTS
  r1 = r1
  NoRequest = NoRequest
  Empty = Empty
  Capacity = 2
  MaxBytes = 3
  MetadataOverhead = 1
  SlotBytes <- MCSlotBytes
  Requests <- MCRequests
  EvictionLogCapacity = 1
  StoreContextEvents = FALSE
  MaxClock = 4
SPECIFICATION Spec
CHECK_DEADLOCK FALSE
INVARIANTS
  BytesAccurate
  RingSound
  ReadsSound
PROPERTIES
  LossIsRecorded
CONSTRAINTS
  AtMostOneSpecialSlot
  ClearOrMaterialize

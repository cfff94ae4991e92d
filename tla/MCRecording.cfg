SPECIFICATION MCSpec
CONSTANTS
  Requests = {"r1"}
  Kinds <- MCKinds
  Inbound <- MCInbound
  Others = {"other"}
  MaxConcurrent = 1
  Ceiling = 6
  BufferSize = 1
  ContextCap = 2
  MaxStamps = 3
  Bodies = {"b1", "b2"}
  KindsOf <- MCKindsOf
  RequestOf <- MCRequestOf
  GlobalMax = 3
  RequestMax = 2
  BlobMax = 2
  DegradedMax = 1
  Preview = 1
  MaxPayload = 1
  PoolMax = 2
  MaxChunks = 3
  Fetches = {"f1", "f2", "f3"}
  Urls <- MCUrls
  MaxSlots = 3
  Sdks = {"s1", "s2"}
  Queries = {"q1", "q2"}
  Statement <- MCStatement
  Contexts = {"c1", "c2"}
  MaxWraps = 5
INVARIANTS
  CausalOrder
  ContextsSound
  BodiesSound
  SpoolBounded
  OwnSlot
  WrapsSound
  QueriesRecorded
PROPERTIES
  Untracked
CHECK_DEADLOCK FALSE

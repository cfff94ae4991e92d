SPECIFICATION MCSpec
CONSTANTS
  Modes <- MCModes
  Assembled <- MCAssembled
  Base = "safe"
  Escalated = "forensic"
  Fast = "fast"
  Off = "off"
  MaxSwitches = 1
  MaxChoices = 2
  MaxCaptures = 3
  MaxQueue = 2
  Ttl = 1
  RecentAge = 0
  Thrown = {"e1", "e2"}
  Frozen = {"e2"}
  Seen <- MCSeen
  Asked <- MCAsked
  Requests = {"r1"}
  Caps = {1, 2}
  PerSecond = 2
  MaxPauses = 1
  MaxWall = 1
  TripAfter = 2
  RecoverAfter = 2
  MaxThrows = 2
  Keys = {"k1", "k2"}
  DedupWindow = 3
  MaxAnchors = 1
  RateLimit = 2
  RateWindow = 2
  MaxTime = 5
  MaxTries = 5
  Files = {"a", "b"}
  KindsOf <- MCKindsOf
  MapOf <- MCMapOf
  Contents = {"m1", "m2"}
  Large = {"m2"}
  MaxConsumers = 1
  MaxTotal = 2
  NegativeTtl = 0
  MaxDeploys = 2
  MaxHour = 1
  Minified <- MCMinified
  FlushEvery = 5
  CachedLocals = 3
  MaxDepth = 2
  MaxItems = 1
  MaxKeys = 2
  MaxPayload = 10
  EntryOverhead = 4
  SpoolBytes = 4
  MaxField = 6
  Keep = 2
  Overhead = 1
  RoughEvent = 1
  FieldWrap = 1
  FieldGuess = 2
INVARIANTS
  ModeFits
  ManualChoiceStands
  InspectorSound
  AdmissionSound
  MapsSound
  Shown
  Wired
PROPERTIES
  SwitchesEnd
  LocalsFindTheirError
  GuardRecovers
CHECK_DEADLOCK FALSE

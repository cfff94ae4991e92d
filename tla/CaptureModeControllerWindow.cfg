CONSTANTS
  Off = Off
  Fast = fast
  Escalated = forensic
  Assembled = {balanced, forensic}
  Modes = {safe, balanced, forensic, fast}
  Base = fast
  MaxSwitches = 4
  MaxChoices = 1
  MaxCaptures = 1
  MaxQueue = 2
SPECIFICATION Spec
CHECK_DEADLOCK FALSE
PROPERTIES
  ManualEscalationHasItsWindow

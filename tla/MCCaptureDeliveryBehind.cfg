CONSTANTS
  p1 = p1
  p2 = p2
  f1 = f1
  f2 = f2
  Final = final
  Packages <- MCPackages
  Callers <- MCOneCaller
  MaxSwitches = 0
SPECIFICATION Spec
CHECK_DEADLOCK FALSE
INVARIANTS
  NothingLandsBehind

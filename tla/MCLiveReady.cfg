SPECIFICATION LiveFairSpec
CONSTANTS
  p1 = p1
  p2 = p2
  Probe = {p1, p2}
  UpdateCap = 2
  RequestCap = 1
INVARIANTS LiveTypeOK ReadyIsKept
PROPERTIES ProbesAnswered BecomesReady

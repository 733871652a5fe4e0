SPECIFICATION Spec
CONSTANTS
  k1 = k1
  c1 = c1
  c2 = c2
  Key = {k1}
  BlockOf <- SecondBlock
  Req = {c1, c2}
  MaxBlock = 3
  MaxFinal = 2
  MaxQueue = 2
  MaxRestarts = 1
SYMMETRY ClientSymmetry
INVARIANTS TypeOK Tracked
PROPERTY SweepComplete

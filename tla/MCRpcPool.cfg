SPECIFICATION Spec
CONSTANTS
  r1 = r1
  r2 = r2
  r3 = r3
  Rpc = {r1, r2, r3}
  Configured = {r1, r2}
  MaxHead = 1
  Answers <- AllAnswers
  MaxWsErr = 2
  Readonly = FALSE
SYMMETRY ConfiguredSymmetry
INVARIANTS TypeOK OneHome ActiveNotErroring RemovedStaysOut
PROPERTY ErroringNeverLost

SPECIFICATION Spec
CONSTANTS
  u1 = u1
  u2 = u2
  newHeads = newHeads
  logs = logs
  x1 = x1
  x2 = x2
  n1 = n1
  n2 = n2
  listener = listener
  heads = heads
  User = {u1, u2}
  Topic = {newHeads, logs}
  Movable = {newHeads}
  SubId = {x1, x2}
  Node = {n1, n2}
  Mover = {listener, heads}
  MaxSent = 3
SYMMETRY Symmetry
PROPERTY EndedIsForgotten
CHECK_DEADLOCK FALSE

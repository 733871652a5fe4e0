SPECIFICATION FairSpec
CONSTANTS
  r1 = r1
  c1 = c1
  m1 = m1
  u1 = u1
  Rpc = {r1}
  NoWs = {}
  Calls = {c1}
  Subs = {}
  NewHeads = NewHeads
  Moves = {m1}
  Unsubs = {u1}
  NoRpc = NoRpc
  Slots = 2
  MaxInbox = 1
  MaxBreaks = 1
INVARIANTS TypeOK OnePlace BrokenIsReported
PROPERTIES BrokenReplaced UnloadedOnReconnect
CHECK_DEADLOCK FALSE

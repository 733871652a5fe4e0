SPECIFICATION FairSpec
CONSTANTS
  k1 = k1
  k2 = k2
  v1 = v1
  r1 = r1
  Keys = {k1, k2}
  Values = {v1}
  Readers = {r1}
  NoKey = NoKey
  NoValue = NoValue
  VersionKey = k1
  Version = v1
  KeyLen = 1
  ValLen = 1
  Fanout = 1
  CacheCapacity = 3
  UsizeMax = 4
  Readonly = FALSE
  MaxQueue = 2
INVARIANTS TypeOK DiskIsRecent TurnedAwayOnce
PROPERTIES ImplementsStore ReadsAnswered

SPECIFICATION ServiceSpec
CONSTANTS
  r1 = r1
  r2 = r2
  Rpc = {r1, r2}
  Configured = {r1, r2}
  MaxHead = 1
  Answers <- ThreeAnswers
  MaxWsErr = 1
  Readonly = FALSE
  Probe = {}
  UpdateCap = 1
  RequestCap = 1
PROPERTIES HealthCatchesUp GoodEscapes SyncingLeaves ServiceReturns

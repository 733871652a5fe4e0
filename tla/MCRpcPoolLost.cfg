SPECIFICATION Spec
CONSTANTS
  r1 = r1
  r2 = r2
  r3 = r3
  Rpc = {r1, r2}
  Configured = {r1, r2}
  MaxHead = 1
  Answers <- AllAnswers
  MaxWsErr = 1
  Readonly = TRUE
INVARIANT NoRpcLost

SPECIFICATION Spec
CONSTANTS
  h1 = h1
  w1 = w1
  Http = {h1}
  Ws = {w1}
  Methods = {"eth_getBalance", "eth_getTransactionCount"}
  Textual = {h1}
  Asks <- SomeAsks
  MaxBlock = 2
  MaxFinal = 1
INVARIANTS TypeOK StoredAnswersKey RepliesMatch

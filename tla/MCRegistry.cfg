SPECIFICATION Spec
CONSTANTS
  AirdropTokens <- MCTokens
  AirdropInfos = {i1, i2}
  None = None
  DEFAULT_LIMIT = 1
  MAX_LIMIT = 2
  Accounts = {a1, a2}
  Hubs = {h1}
  Limits = {None, 2, 3}
INVARIANTS TokensListed ScanOnce ScanComplete

SPECIFICATION Spec
CONSTANTS
  FRAC = 100
  Users = {u1}
  Validators = {v1, v2}
  Accounts = {owner}
  Owner = owner
  HubAddr = hub
  None = None
  UnbondingTime = 1
  MaxEntries = 7
  SlashKept = {50}
  BlockTimes = {1}
  MaxTime = 4
  InitPayment = 1
  InitTime = 2
  Period = 0
  UnbondPeriod = 2
  Fee = 5000
  Threshold = 10000
  InitParams <- MCInitParams
  Payments = {4}
  Amounts = {3}
  Donations = {}
  ParamUpdates <- NoRecovery
  ConfigUpdates <- MCConfigUpdates
  MaxBonds = 2
  MaxEvents = 2
INVARIANTS BondNeverUnderstated RateBacked UndelegationCovered
PROPERTIES BondSettled MintWorthPayment UnbondKeepsRate
SYMMETRY Symmetry
CHECK_DEADLOCK FALSE

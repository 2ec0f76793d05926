SPECIFICATION Spec
CONSTANTS
  FRAC = 100
  Users = {u1, u2}
  Validators = {v1}
  Accounts = {owner}
  Owner = owner
  HubAddr = hub
  None = None
  UnbondingTime = 1
  MaxEntries = 7
  SlashKept = {50}
  BlockTimes = {1}
  MaxTime = 3
  InitPayment = 1
  InitTime = 2
  Period = 0
  UnbondPeriod = 2
  Fee = 5000
  Threshold = 10000
  InitParams <- MCInitParams
  Payments = {7, 57}
  Amounts = {2, 3}
  Donations = {1}
  ParamUpdates <- NoParamUpdates
  ConfigUpdates <- MCConfigUpdates
  MaxBonds = 2
  MaxEvents = 0
PROPERTIES IssuesQuotient
SYMMETRY Symmetry
CHECK_DEADLOCK FALSE

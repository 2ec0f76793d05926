SPECIFICATION FairSpec
CONSTANTS
  FRAC = 100
  Users = {u1, u2}
  Validators = {v1}
  Accounts = {owner}
  Owner = owner
  HubAddr = hub
  None = None
  UnbondingTime = 1
  MaxEntries = 7
  SlashKept = {50}
  BlockTimes = {1}
  MaxTime = 7
  InitPayment = 1
  InitTime = 2
  Period = 0
  UnbondPeriod = 2
  Fee = 5000
  Threshold = 10000
  InitParams <- MCInitParams
  Payments = {7}
  Amounts = {2, 3}
  Donations = {}
  ParamUpdates <- NoParamUpdates
  ConfigUpdates <- MCConfigUpdates
  MaxBonds = 1
  MaxEvents = 1
INVARIANTS ReleasePossible AnswerHonoured
PROPERTIES PaidInFull EventuallyPaid
CHECK_DEADLOCK FALSE

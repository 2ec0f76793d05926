SPECIFICATION Spec
CONSTANTS
  FRAC = 3
  Users = {u1, u2}
  HubAddr = hub
  RewardAddr = rew
  Addrs <- MCAddrs
  Founder = u1
  InitialBalances <- MCInitialBalances
  TaxRate = 6
  TaxCap = 1
  Amounts = {1, 2}
  Rewards = {0, 2}
  MaxSupply = 3
  MaxAllowance = 0
  MaxArrivals = 4
INVARIANTS IndexConsistent Solvent
PROPERTIES AccruedKept AllShared

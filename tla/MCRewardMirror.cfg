SPECIFICATION Spec
CONSTANTS
  FRAC = 2
  Users = {u1, u2}
  HubAddr = hub
  RewardAddr = rew
  Addrs <- MCAddrs
  Founder = u1
  InitialBalances <- MCInitialBalances
  TaxRate = 2
  TaxCap = 1
  Amounts = {1, 2}
  Rewards = {0, 2}
  MaxSupply = 4
  MaxAllowance = 2
  MaxArrivals = 2
INVARIANTS TypeOK BalancesMirrored

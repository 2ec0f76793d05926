SPECIFICATION Spec
CONSTANTS
  FRAC = 2
  Users = {u1}
  Owner = owner
  HubAddr = hub
  TokenAddr = token
  RewardAddr = rew
  RegistryAddr = registry
  Addrs <- MCAddrs
  InitialBalances <- MCInitialBalances
  TaxRate = 2
  TaxCap = 1
  Validators = {v1}
  AirdropTokens <- MCTokens
  AirdropInfos <- MCAirdropInfos
  AirdropPays <- MCAirdropPays
  Tables <- MCTables
  HookLists <- MCHookLists
  ConfigUpdates <- MCConfigUpdates
  FirstValidator = v1
  None = None
  DEFAULT_LIMIT = 10
  MAX_LIMIT = 30
  MirToken = mir
  AncToken = anc
  MirDrop = mirdrop
  AncDrop = ancdrop
  Pair = pair
  Amounts = {1}
  Payments = {1}
  MaxSupply = 1
  MaxBonded = 2
  MaxArrivals = 3
INVARIANTS AirdropsSwapped
PROPERTIES ImplementsAtomic Terminates

CONSTANTS
  n1 = n1
  n2 = n2
  c1 = c1
  c2 = c2
  p1 = p1
  p2 = p2
  Nodes = {n1}
  Contributors = {c1}
  Integrations = {p1}
  MAX_SHARE = 4
  MAX_RECIPIENT_SHARE = 4
  MaxEpochs = 2
  StartTime = 1
  MaxTime = 3
  InitialConfig <- NoWriteOffConfig
  ConfigSettings <- FixedSettings
  DebtCalculations <- OnlyOneDebt
  RewardsCalculations <- OnlyOneReward
  EconomicBurnRates = {}
  RecipientSettings <- WholeShare
  FundAmounts = {2}
  MaxFunding = 3
  SwapAmounts = {2}
  TokenAmounts = {3}
  MaxDonated = 0
  MaxPrepaid = 0
  DepositRent = 1
  RentBase = 2
  RentPerByte = 1
  MIN_LAMPORTS = 1
  INTEGRATION_BITS = 2
  MAX_U16 = 3
  U64 = 16
  MIN_DZ_EPOCH = 9
  IntegrationEpochs = {0, 1}
  MaxDeposit = 3

SPECIFICATION IntegrationSpec

INVARIANTS
  RevenueStaysInEpoch
PROPERTIES
  SettledEpochsAreSwept
  SweptRewardsAreDistributed

CHECK_DEADLOCK FALSE

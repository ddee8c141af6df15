CONSTANTS
  n1 = n1
  n2 = n2
  c1 = c1
  c2 = c2
  p1 = p1
  p2 = p2
  Nodes = {}
  Contributors = {}
  Integrations = {}
  MAX_SHARE = 4
  MAX_RECIPIENT_SHARE = 4
  MaxEpochs = 4
  StartTime = 1
  MaxTime = 4
  InitialConfig <- NoWriteOffConfig
  ConfigSettings <- BurnRateSettings
  DebtCalculations = {}
  RewardsCalculations = {}
  EconomicBurnRates = {}
  RecipientSettings = {}
  FundAmounts = {}
  MaxFunding = 3
  SwapAmounts = {}
  TokenAmounts = {}
  MaxDonated = 0
  MaxPrepaid = 0
  DepositRent = 1
  RentBase = 2
  RentPerByte = 1
  MIN_LAMPORTS = 1
  INTEGRATION_BITS = 2
  MAX_U16 = 3
  U64 = 16
  MIN_DZ_EPOCH = 9

SPECIFICATION Spec

INVARIANTS
  BurnRateNeverFalls

CHECK_DEADLOCK FALSE

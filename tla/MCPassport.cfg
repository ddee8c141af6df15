SPECIFICATION Spec
CONSTANTS
  w1 = w1
  w2 = w2
  s1 = s1
  s2 = s2
  Wallets = {w1, w2}
  ServiceKeys = {s1, s2}
  PROGRAM_CONFIG = PROGRAM_CONFIG
  DEFAULT_KEY = DEFAULT_KEY
  ConfigRent = 1
  RequestRent = 1
  MAX_BACKUP_IDS = 2
  InitialLamports <- MCLamports
  DepositSettings <- MCDeposits
  LimitSettings = {0, 3}
  BackupIdCounts = {0, 1, 3}
  TransferAmounts = {1}
INVARIANTS
  RequestsCovered
  LamportsConserved
PROPERTIES
  PendingRequestsKept
  DecisionsHonourTerms
CHECK_DEADLOCK FALSE

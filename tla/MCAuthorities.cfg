SPECIFICATION Spec
CONSTANTS
  k1 = k1
  k2 = k2
  u = u
  c1 = c1
  s1 = s1
  Keys = {k1, k2, u}
  DEFAULT_KEY = DEFAULT_KEY
  UpgradeAuthority = u
  Appointees = {k1, k2, DEFAULT_KEY}
  SwapPrograms = {s1}
  Contributors = {c1}
  RecipientLists <- MCRecipientLists
  MAX_RECIPIENTS = 2
  MAX_SHARE = 2
INVARIANTS
  BlockedControl
  ChainOfTrust
PROPERTIES
  PayeeControl
CHECK_DEADLOCK FALSE

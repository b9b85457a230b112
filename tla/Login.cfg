SPECIFICATION LoginSpec
CONSTANTS
  p1 = p1  p2 = p2  p3 = p3
  a1 = a1  a2 = a2
  Procs = {p1, p2, p3}
  Accounts = {a1, a2}
  AccountOf <- TwoAccounts
  MaxTokens = 2
INVARIANTS
  TokensAreKept
PROPERTIES
  DeferredFindsItsToken
  LoginsEnd

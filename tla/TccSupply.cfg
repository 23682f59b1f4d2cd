SPECIFICATION Spec
CONSTANTS
  root = root
  a1 = a1
  a2 = a2
  a3 = a3
  Accounts = {a1, a2, a3}
  Root = root
  InstantiateOrigin = {root}
  MintOrigin = {root, a1}
  BurnOrigin = {root}
  BalanceMax = 4
  LedgerMax = 6
  GenesisInstantiate = FALSE
  GenesisCachedTotal = 1
INVARIANT TypeOK
INVARIANT SupplyMatchesEvents
CHECK_DEADLOCK FALSE

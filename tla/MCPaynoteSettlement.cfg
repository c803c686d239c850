SPECIFICATION Spec
CONSTANTS
  settlement = settlement
  k1 = k1
  c1 = c1
  tokenA = tokenA
  tokenB = tokenB
  ZeroAddress = ZeroAddress
  Modulus = 4
  MaxMergeInputs = 2
  ChainId = here
  ChainIds = {here, there}
  Assets = {tokenA, tokenB}
  Contexts <- MCContexts
  DepositKeys = {k1}
  MergeKeys = {m1}
  CarelessKeys <- MCCarelessKeys
  Deposits <- MCDeposits
  Capacity = 3
  MaxInFlight = 2
INVARIANTS
  TypeOK
  Conservation
  NoDoubleSpend
  UniqueLeaves
  EveryNoteSpendable
PROPERTIES
  ImplementsVault
  PendingProofSurvives

SPECIFICATION Spec
CONSTANTS
  o1 = o1
  o2 = o2
  k1 = k1
  k2 = k2
  settlement = settlement
  ZeroAddress = ZeroAddress
  Modulus = 3
  ChainId = here
  ChainIds = {here, there}
  Owners = {o1, o2}
  Contexts <- MCContexts
  FundKeys = {k1, k2}
  Capacity = 4
  MaxInFlight = 1
INVARIANTS
  TypeOK
  NoDoubleSpend
  UniqueLeaves
  EveryNoteSpendable
PROPERTIES
  ImplementsVault
SYMMETRY Symmetry

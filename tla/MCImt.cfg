SPECIFICATION Spec
CONSTANTS
  Depth = 3
  Leaves = {a, b}
  EmptyLeaf = EmptyLeaf
  Unset = Unset
  MaxPaths = 1
INVARIANTS
  TypeOK
  StoredNodesExact
  FrontierRootExact
  AppendsAgree
  PathsVerify
  OpeningBinds
CHECK_DEADLOCK FALSE

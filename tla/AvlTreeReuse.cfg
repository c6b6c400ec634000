SPECIFICATION Spec
CONSTANTS
  Nodes <- Nodes4
  KeyOf <- Distinct
  Null = Null
  TREE_MAX_HEIGHT = 5
  MayReuse = TRUE
INVARIANT CheckIntegrity

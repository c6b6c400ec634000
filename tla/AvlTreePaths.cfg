\* Either a few nodes under every operation or many that come and go.
SPECIFICATION FewOrMany
CONSTANTS
  Nodes <- Nodes13
  KeyOf <- OneTwice
  Null = Null
  TREE_MAX_HEIGHT = 6
  MayReuse = FALSE
INVARIANTS TypeOK CheckIntegrity TraversesInOrder OutsideNodesAreFresh PathLeadsToKey
PROPERTY ImplementsMap
VIEW TreeView

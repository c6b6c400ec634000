SPECIFICATION Spec
CONSTANTS
  IntSize = 64
  HighUnit = 16
  Keys <- MCKeys
  HashOf <- MCHashOf
  NeverSame <- MCNeverSame
  OwnsKey = FALSE
  Data = {d1, d2}
  Nothing = Nothing
  Elements = {e1, e2, e3, e4}
  Null = Null
  mBinNumber = 2
VIEW TableView
SYMMETRY MCSymmetry
INVARIANTS TypeOK LinksConsistent EveryElementOnItsRing NoDuplicateKeys
PROPERTY ImplementsQueues

\* One key per object.
SPECIFICATION Spec
CONSTANTS
  Algorithms <- MCAlgorithms
  NULL = NULL
  PadLen = 8
  HashKeys <- MCKeys
  Inputs <- MCInputs
  MaxText = 40
  MayRekey = FALSE
INVARIANTS TypeOK StreamExact MacCorrect

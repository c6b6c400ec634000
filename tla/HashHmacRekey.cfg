\* The key of an object is set again.
SPECIFICATION Spec
CONSTANTS
  Algorithms <- MCAlgorithms
  NULL = NULL
  PadLen = 8
  HashKeys <- MCKeys
  Inputs <- MCInputs
  MaxText = 40
  MayRekey = TRUE
INVARIANT MacCorrect

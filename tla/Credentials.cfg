\* The program stops when everything is loaded, or at a certificate that is none.
SPECIFICATION Spec
CONSTANTS
  Disks <- TheDisks
  NoFile = NoFile
  NoSecret = NoSecret
  k1 = k1
  k2 = k2
  k3 = k3
  s1 = s1
  s2 = s2
  MaxCalls = 2
  MaxFailures = 1
INVARIANTS
  
  WalkDeliversFields
  ResourcesAccounted
  CaDirectoryLoaded
  SecretOfItsLine
CHECK_DEADLOCK FALSE

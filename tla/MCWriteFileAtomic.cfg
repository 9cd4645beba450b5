SPECIFICATION Spec
CONSTANTS
  v1 = v1
  v2 = v2
  r1 = r1
  n1 = n1
  n2 = n2
  n3 = n3
  n4 = n4
  n5 = n5
  Values <- const_Values
  Missing = Missing
  Torn = Torn
  Inodes <- const_Inodes
  Readers <- const_Readers
  MaxCalls = 3
  MaxFaults = 2
SYMMETRY symmetry
INVARIANTS
  TypeOK
  ReplacedOnlyOnSuccess
  OrphansOnlyFromKills
PROPERTIES
  ImplementsAtomicFile
CHECK_DEADLOCK FALSE

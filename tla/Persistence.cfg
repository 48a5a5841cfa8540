SPECIFICATION FairSpec
CONSTANTS
  N = 4
  PerFile = 2
  NoFile = NoFile
INVARIANTS Recovered 
PROPERTIES  Finishes

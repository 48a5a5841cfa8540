SPECIFICATION FairSpec
CONSTANTS
  a = a
  b = b
  p1 = p1
  p2 = p2
  p3 = p3
  p4 = p4
  NoPiece = NoPiece
  NoBitfield = NoBitfield
  Nodes <- TwoNodes
  Pieces <- ThreePieces
  Initial <- Swapping
  Chunks = 2
  PipelineLength = 2
  MaxChanges = 2
PROPERTY Exchange

SPECIFICATION Spec
CONSTANTS
  a = a
  b = b
  p1 = p1
  p2 = p2
  p3 = p3
  p4 = p4
  NoPiece = NoPiece
  NoBitfield = NoBitfield
  Nodes <- TwoNodes
  Pieces <- FourPieces
  Initial <- Trading
  Chunks = 4
  PipelineLength = 2
  MaxChanges = 2
INVARIANTS TypeOK NothingRejected RequestsAccounted ChokeViewsAgree InterestKnown
PROPERTY ImplementsTrade

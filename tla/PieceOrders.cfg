SPECIFICATION FairSpec
CONSTANTS
  p1 = p1
  p2 = p2
  c1 = c1
  c2 = c2
  c3 = c3
  NoOrder = NoOrder
  NoBitfield = NoBitfield
  Pieces <- TwoPieces
  Conns <- ThreeConns
  Bitfields <- MixedPeers
INVARIANTS TypeOK NoPieceTwice NoPieceLost SendsNeverBlock CompleteMeansIdle
PROPERTIES ImplementsDownload VerifiedIsStored Completion OnePeerSuffices

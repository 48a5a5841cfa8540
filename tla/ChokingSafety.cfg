SPECIFICATION Spec
CONSTANTS
  p1 = p1
  p2 = p2
  c1 = c1
  c2 = c2
  c3 = c3
  Peers <- TwoPeers
  Conns <- ThreeConns
  Id <- IdOf
  Slots = 1
  Capacity = 1
  MaxGiven = 1
  NoConn = NoConn
  Empty = Empty
SYMMETRY Symmetry
VIEW View
INVARIANTS InterestNotForgotten UnchokedHasAsked SlotsRespected

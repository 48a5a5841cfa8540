SPECIFICATION FairSpec
CONSTANTS
  p1 = p1
  p2 = p2
  c1 = c1
  c2 = c2
  c3 = c3
  Peers <- OnePeer
  Conns <- TwoConns
  Id <- IdOf
  Slots = 2
  Capacity = 1
  MaxGiven = 1
  NoConn = NoConn
  Empty = Empty
PROPERTY ServedWhenFew

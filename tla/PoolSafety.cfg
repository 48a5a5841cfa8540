SPECIFICATION Spec
CONSTANTS
  h1 = h1
  h2 = h2
  h3 = h3
  i1 = i1
  i2 = i2
  i3 = i3
  i4 = i4
  NoId = NoId
  IPs <- ThreeHosts
  Ids <- FourIds
  host <- FourIdHosts
  Tracker <- ThreeTracked
  MaximumDownloaders = 2
  EndCapacity = 1
VIEW View
SYMMETRY Symmetry
CHECK_DEADLOCK FALSE
INVARIANTS TypeOK SlotsMatchConnections OutgoingLimited

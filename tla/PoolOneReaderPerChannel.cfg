SPECIFICATION Spec
CONSTANTS
  h1 = h1
  h2 = h2
  h3 = h3
  i1 = i1
  i2 = i2
  i3 = i3
  i4 = i4
  NoId = NoId
  IPs <- TwoHosts
  Ids <- ThreeIds
  host <- DoubleIdHosts
  Tracker <- TwoTracked
  MaximumDownloaders = 2
  EndCapacity = 2
SYMMETRY Symmetry
CHECK_DEADLOCK FALSE
INVARIANT OneReaderPerChannel

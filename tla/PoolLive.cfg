SPECIFICATION FairHostsSpec
CONSTANTS
  h1 = h1
  h2 = h2
  h3 = h3
  i1 = i1
  i2 = i2
  i3 = i3
  i4 = i4
  NoId = NoId
  IPs <- TwoHosts
  Ids <- TwoIds
  host <- TwoIdHosts
  Tracker <- TwoTracked
  MaximumDownloaders = 2
  EndCapacity = 1
CHECK_DEADLOCK FALSE
PROPERTIES EndedIsRemoved Reconnects

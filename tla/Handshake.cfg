SPECIFICATION FairSpec
CONSTANTS
  Torrents = {t1, t2}
  MaxMessages = 2
INVARIANTS SameTorrent FieldFirst ReportedOnce
PROPERTIES Settles EndsTogether
\* A connection that is over stays over.
CHECK_DEADLOCK FALSE

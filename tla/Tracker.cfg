SPECIFICATION FairSpec
CONSTANT AnnounceLists <- SmallLists
INVARIANTS AskedInOrder TiersInTurn
PROPERTY GivesUp
\* The client exits when no tracker answers.
CHECK_DEADLOCK FALSE

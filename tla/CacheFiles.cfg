SPECIFICATION FairSpec
CONSTANTS
  Process = {p1, p2}
  Inode = {i1, i2, i3}
  NoInode = NoInode
  Records = 2
  Length <- MCLength
  MaxVersion = 2
  MaxDeaths = 1
INVARIANT TypeOK
INVARIANT CachedIsWhole
PROPERTY CallsEnd
PROPERTY LevelHeals
CHECK_DEADLOCK FALSE

\* A log of four lines that is renamed or removed twice, or truncated at any time.
SPECIFICATION FairSpec
CONSTANTS
  Inodes = {i1, i2, i3}
  NoInode = NoInode
  MaxLine = 4
  Policies = {{"rename", "remove"}, {"truncate"}}
INVARIANTS TypeOK OnceInOrder OnlyWhole AllHandled
PROPERTIES CatchesUp FollowsRotation FollowsTruncation

\* A log that is renamed.
SPECIFICATION Spec
CONSTANTS
  Inodes = {i1, i2}
  NoInode = NoInode
  MaxLine = 2
  Policies = {{"rename"}}
INVARIANT SurvivesRotation

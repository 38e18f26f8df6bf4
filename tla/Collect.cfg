\* One plugin of any module, beside whatever changes what it looks at.
SPECIFICATION Spec
CONSTANTS
  Pids = {p1, p2, p3, p4}
  Unreadable = {p4}
  Root = root
  RootPath = RootPath
  Devices = {disk, nfs}
  Paths = {a, b}
  Disks = {root, disk}
  Excluded = {nfs}
  Failing = {nfs}
  MaxMounts = 4
  NoFigures = NoFigures
  MaxParts = 3
  MaxMembers = 2
  Parsers = {"regex", "untyped", "unknown", "pathless"}
  Half = 4
  NumItems = 2
  Wide = {2}
  MaxNumber = 9
  Inodes = {i1, i2}
  NoInode = NoInode
  MaxUnits = 4
  Block = 2
  Settings <- MCSettings
  MaxSize = 9
INVARIANTS TypeOK ProcessesComplete OneRowPerDevice FiguresOfOwnPath SpaceComplete NoPartialRow WholeText NeverBelow ServedAsHeld SpanIsHashed AppendsDoNotMatter

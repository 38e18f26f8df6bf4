\* A value plugin of two items, and a log processor of one that its tail thread
\* writes to while it is committed.
SPECIFICATION Spec
CONSTANTS
  TableMods = {}
  ValueMods = {v1, v2}
  Tailed = {v2}
  Once = {}
  Retained = {v1}
  RowSeqs <- MCTwoRows
  Text = {x}
  NumItems <- MCItems
  NoValue = NoValue
  Unfit = Unfit
  Blank = Blank
  Main = Main
  Free = Free
  NoRequest = NoRequest
  r1 = r1
  r2 = r2
  RowData = {r1, r2}
INVARIANTS TypeOK ItemsInOrder

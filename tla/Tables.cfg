\* Two tables, one of them with retained rows, and no value plugin.
SPECIFICATION Spec
CONSTANTS
  TableMods = {t1, t2}
  ValueMods = {}
  Tailed = {}
  Once = {}
  Retained = {t1}
  RowSeqs <- MCTwoRows
  Text = {}
  NumItems <- MCItems
  NoValue = NoValue
  Unfit = Unfit
  Blank = Blank
  Main = Main
  Free = Free
  NoRequest = NoRequest
  r1 = r1
  r2 = r2
  RowData = {r1, r2}
INVARIANTS CursorValid Published
PROPERTY ServiceSpec

\* One table collected again and again, under the fairness of the threads.
SPECIFICATION FairSpec
CONSTANTS
  TableMods = {t1}
  ValueMods = {}
  Tailed = {}
  Once = {}
  Retained = {}
  RowSeqs <- MCTwoRows
  Text = {x}
  NumItems <- MCItems
  NoValue = NoValue
  Unfit = Unfit
  Blank = Blank
  Main = Main
  Free = Free
  NoRequest = NoRequest
  r1 = r1
  r2 = r2
  RowData = {r1, r2}
PROPERTIES RequestAnswered CommitFinishes StopsWhenTold

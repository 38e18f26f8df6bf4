\* One table plugin, one configuration, no string that is too long.
SPECIFICATION Spec
CONSTANTS
  TableMods = {t}
  ValueMods = {}
  Schemas <- MCOneSchema
  MayBeLong = FALSE
  MaxCount = 2
  MaxTotal = 2
  Absent = Absent
  Cut = Cut
INVARIANT LoadSurvives

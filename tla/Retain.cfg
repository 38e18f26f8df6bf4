\* A table and a value plugin over several runs, either configuration of two; the value plugin is a log_processor or not.
SPECIFICATION Spec
CONSTANTS
  TableMods = {t}
  ValueMods = {v}
  Schemas <- MCSchemas
  MayBeLong = TRUE
  MaxCount = 2
  MaxTotal = 3
  Absent = Absent
  Cut = Cut
INVARIANTS Durable OnlyBadDataIsFatal
PROPERTY RestoredAsSaved

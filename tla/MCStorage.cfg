CONSTANTS
  Procs = {p1, p2}
  Tables = {"images"}
  Keys = {a, b}
  Vals = {}
  MaxId = 2
  MaxTime = 0
  Ttls = {1}
  Null = Null
  LinkKey = LinkKey
  Failures = TRUE
SPECIFICATION StorageSpec
INVARIANTS TtlNamesItsEntity ImagesHaveBlobs
SYMMETRY Symmetry
CHECK_DEADLOCK FALSE

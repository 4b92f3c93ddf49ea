CONSTANTS
  Procs = {p1}
  Tables = {"domains"}
  Keys = {a}
  Vals = {v}
  MaxId = 2
  MaxTime = 2
  Ttls = {1, 2}
  Null = Null
  LinkKey = LinkKey
  Failures = FALSE
SPECIFICATION Spec
PROPERTY TtlReplaced
CHECK_DEADLOCK FALSE

CONSTANTS
  Procs = {p1, p2}
  Tables = {"emails"}
  Keys = {a}
  Vals = {}
  MaxId = 2
  MaxTime = 2
  Ttls = {1}
  Null = Null
  LinkKey = LinkKey
  Failures = FALSE
SPECIFICATION Spec
INVARIANT OnlyTemporaryExpires
CHECK_DEADLOCK FALSE

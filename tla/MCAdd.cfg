CONSTANTS
  n1 = n1
  n2 = n2
  Procs = {p1, p2}
  Tables = {"breaches", "emails", "breach_emails", "domains", "subdomains", "phonenumbers"}
  Keys = {n1, n2}
  Root <- Same
  Groups <- Use
  Vals = {v, w}
  MaxId = 2
  MaxTime = 2
  Ttls = {1, 2}
  Null = Null
  LinkKey = LinkKey
  Failures = TRUE
SPECIFICATION PartsSpec
INVARIANTS KeysUnique ReferentialIntegrity BelowItsName OnlyTemporaryExpires
PROPERTY TtlHonoured
SYMMETRY Symmetry
CHECK_DEADLOCK FALSE

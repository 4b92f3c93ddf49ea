CONSTANTS
  Bytes = {"d", "e"}
  Delims <- TheDelims
  Counts = {2}
  Kinds = {"tcp", "ws", "mqtt"}
  Proxies = {"p", "q"}
  MaxCalls = 5
  MaxItems = 2
  MaxConnections = 1
  MaxSessions = 2
  None = None
SPECIFICATION Spec
INVARIANTS  RequestsStayApart
PROPERTY ClosedSocketsReturn
CHECK_DEADLOCK FALSE

SPECIFICATION PartsSpec
CONSTANTS
  Procs = {me, p}
  Me = me
  Modules = {"scan", "notify"}
  Keys <- TheKeys
  Access <- AccessOf
  KeySource <- NoKeySource
  Source <- SourceOf
  Workspaces = {"w1", "w2"}
  Configs = {"c1", "c2"}
  Script <- ScriptOf
  Only <- OnlyOf
  Topics <- TopicsOf
  EventTopics = {"insert", "update"}
  MaxCommands = 6
  MaxEvents = 2
  MaxDepth = 2
  None = None
  Broken = Broken
  Columns = {"value", "service"}
  Texts = {"a", "b"}
  ParamColumn = "service"
  MaxConds = 3
  Things = {x}
INVARIANTS NotificationsRouted RegisterArmed KeysNeedConsent
INVARIANTS FilterExact TargetsInScope NothingLost OpenIsMigrated
PROPERTY DeletedIsGone
CHECK_DEADLOCK FALSE

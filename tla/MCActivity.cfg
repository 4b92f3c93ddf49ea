CONSTANTS
  Procs = {p1, p2}
  Readers = {p1}
  Topics = {t, u}
  Uniqs = {a}
  NoUniq = NoUniq
  MaxTime = 6
  MaxEvents = 4
  LogTime = 3
  LogEvents = 3
  HourLen = 2
  DayHours = 2
  Slices = {1, 2}
  Months = {1, 6, 12}
  Years = {2020}
  Contexts = {0, 1, 6, 11, 12, 13}
SPECIFICATION PartsSpec
INVARIANT CalendarShowsLog
PROPERTY InitialIsPreviousState
SYMMETRY Symmetry
CHECK_DEADLOCK FALSE

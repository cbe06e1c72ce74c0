\* Two stations, every small opening time, grid, lead and buffer.
SPECIFICATION Spec
CONSTANTS
  s1 = s1
  s2 = s2
  Stations = {s1, s2}
  number <- Number2
  Days <- SmallDays
  Durations = {1, 3}
  DayEnd = 6
  MaxSessions = 3
INVARIANTS
  OfferedIffAccepted
  SessionsApart
  TightestFit
CHECK_DEADLOCK FALSE

\* The write path implements the calendar, and every request ends.
SPECIFICATION LiveSpec
CONSTANTS
  p1 = p1
  p2 = p2
  x = x
  y = y
  NoProc = NoProc
  NoPayment = NoPayment
  NoId = NoId
  Procs = {p1, p2}
  Ids = {1, 2}
  Stations = {1, 2}
  Dates = {1, 2}
  Payments = {x}
  number <- Number2
  Requests <- EitherDay
  Configs <- OneStation
  MaxHold = 1
  MaxClock = 1
  MaxAttempts = 1
  MovesHeld = FALSE
PROPERTIES
  ImplementsCalendar
  EveryRequestEnds
CHECK_DEADLOCK FALSE

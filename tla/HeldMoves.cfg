\* As DoubleBooking, and staff may move a held reservation to another date.
SPECIFICATION Spec
CONSTANTS
  p1 = p1
  p2 = p2
  x = x
  y = y
  NoProc = NoProc
  NoPayment = NoPayment
  NoId = NoId
  Procs = {p1, p2}
  Ids = {1, 2}
  Stations = {1, 2}
  Dates = {1, 2}
  Payments = {x}
  number <- Number2
  Requests <- EitherDay
  Configs <- OneStation
  MaxHold = 1
  MaxClock = 1
  MaxAttempts = 1
  MovesHeld = TRUE
SYMMETRY Interchangeable
INVARIANTS
  NoDoubleBooking
CHECK_DEADLOCK FALSE

\* One station, two dates, two payments: every race of two requests for the same station,
\* and every deadlock of two that replace their links.
SPECIFICATION Spec
CONSTANTS
  p1 = p1
  p2 = p2
  x = x
  y = y
  NoProc = NoProc
  NoPayment = NoPayment
  NoId = NoId
  Procs = {p1, p2}
  Ids = {1, 2}
  Stations = {1, 2}
  Dates = {1, 2}
  Payments = {x, y}
  number <- Number2
  Requests <- TwoDays
  Configs <- OneStation
  MaxHold = 1
  MaxClock = 1
  MaxAttempts = 2
  MovesHeld = FALSE
SYMMETRY Interchangeable
INVARIANTS
  TypeOK
  NoDoubleBooking
  Inv
  OnlyGapsDeadlock
  OnePaymentAccepted
  SweepMakesNoDifference
PROPERTIES
  StatusesAdvance
CHECK_DEADLOCK FALSE

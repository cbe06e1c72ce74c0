\* Two customers and the counter compete for one station while the provider is slow;
\* or one attempt is submitted twice and anything may break.
SPECIFICATION LiveSpec
CONSTANTS
  s1 = s1
  i1 = i1
  i2 = i2
  i3 = i3
  ann = ann
  bob = bob
  k1 = k1
  k2 = k2
  NoPayment = NoPayment
  NoId = NoId
  NoKey = NoKey
  Ids = {i1, i2}
  Payments = {i1, i2}
  Stations = {s1}
  Active = {s1}
  Dates = {1}
  Requests <- OneSession
  Customers = {ann, bob}
  Keys = {k1, k2}
  wants <- SameSession
  Crons = {1}
  number <- Number1
  Open = 0
  Buffer = 0
  Hold = 1
  Day = 1
  MaxHold = 1
  MaxClock = 3
  Scenarios <- SmoothAndRough
INVARIANTS
  TypeOK
  MoneyAccountedFor
  ChargedOnce
  ConfirmedIsKept
PROPERTIES
  NotExpiredWhenPaid
  HoldsEnd
  ImplementsCalendar
CHECK_DEADLOCK FALSE

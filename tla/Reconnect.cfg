\* Two attempts at a time; five sockets are as many as these can have in hand.
SPECIFICATION LiveSpec
CONSTANTS
  Dialers = {"d1", "d2"}
  Sockets = {1, 2, 3, 4, 5}
  NoSocket = 0
  Habits <- SomeHabits
INVARIANTS
  TypeOK
  OneConnection
  QuickAttempts
PROPERTIES
  LinkedAgain
CHECK_DEADLOCK FALSE

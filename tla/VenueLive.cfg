\* One station, whose every command and every reconnection must come to an end.
SPECIFICATION LiveSpec
CONSTANTS
  s1 = s1
  s2 = s2
  c1 = c1
  c2 = c2
  c3 = c3
  NoConn = NoConn
  NoName = NoName
  Stations = {s1}
  Groups = {1}
  Conns = {c1, c2}
  MaxLeft = 1
  Evenings <- QuietEvenings
  Numbered = {}
PROPERTIES
  CommandsEnd
  ComesBack
CHECK_DEADLOCK FALSE

\* Two stations and one group, one hazard an evening.
SPECIFICATION Spec
CONSTANTS
  s1 = s1
  s2 = s2
  c1 = c1
  c2 = c2
  c3 = c3
  NoConn = NoConn
  NoName = NoName
  Stations = {s1, s2}
  Groups = {1}
  Conns = {c1, c2, c3}
  MaxLeft = 1
  Evenings <- BusyEvenings
  Numbered = {s2}
SYMMETRY Interchangeable
INVARIANTS
  TypeOK
  ShownAsItIs
  GroupsReturn
PROPERTIES
  OnlyChosen
CHECK_DEADLOCK FALSE

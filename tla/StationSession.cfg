\* Both threads, every handler, crashes and restarts.
SPECIFICATION LiveSpec
CONSTANTS
  g = g
  h = h
  NoGame = NoGame
  Games = {g, h}
  Categories <- OneMenu
  Lengths = {1}
  MaxLeft = 1
  Uses = {"start", "stop", "add", "browse", "step", "click", "close", "crash"}
INVARIANTS
  TypeOK
  RunningIsTimed
  ImageIsSelected
  SavedWhenAlone
PROPERTIES
  EndsUnlessStuck

\* Two custom games, one of them not in VR, and a Steam game; three categories of
\* three names, two of them of blanks, and a list of games that is cut; games added
\* in two seconds by up to two threads.
SPECIFICATION AllSpec
CONSTANTS
  Games = {"a", "b", "steam"}
  Custom = {"a", "b"}
  InVR = {"b", "steam"}
  Pids = {1, 2, 3}
  NoGame = "none"
  NoPid = 0
  Names = {"kids", "'  '", "  "}
  ReadName <- ReadNames
  Menu = {"7", "62"}
  AppIds = {"7", "62", "6"}
  Length <- Lengths
  NameOrder <- Orders
  Fragment <- Fragments
  Buffer = 4
  MaxCategories = 3
  NoName = ""
  Seconds = {1, 2}
  Workers = {"w1", "w2"}
  MaxCopies = 2
  UI = "ui"
  Nobody = "nobody"
INVARIANTS
  GamesTypeOK
  OneCustomGame
  StopEndsTheGame
  SavedAsShown
  GamesKept
  DeletedStaysDeleted

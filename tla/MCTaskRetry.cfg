SPECIFICATION FairSpec
CONSTANTS
  x = x  y = y  z = z
  s = s
  Process = {s}
  Task = {x, z}
  TypeOf <- LeftAndRight
  ProjectOf <- OneProjectEach
  Page <- WholeBoards
  Mentions = {x}
  Unstamped = {}
  Settings <- Retries
  MaxClock = 4
  MaxTrouble = 2
INVARIANTS CursorIsHonest
PROPERTIES CatchesUp

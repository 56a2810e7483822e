SPECIFICATION Spec
CONSTANTS
  x = x  y = y  z = z
  s = s
  Process = {s}
  Task = {x, z}
  TypeOf <- LeftAndRight
  ProjectOf <- OneProjectEach
  Page <- WholeBoards
  Mentions = {}
  Unstamped = {}
  Settings <- Unscoped
  MaxClock = 4
  MaxTrouble = 2
INVARIANTS PurgeSparesLive

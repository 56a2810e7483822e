SPECIFICATION Spec
CONSTANTS
  x = x  y = y  z = z
  s = s
  Process = {s}
  Task = {x, y, z}
  TypeOf <- LeftAndRight
  ProjectOf <- OneProjectEach
  Page <- WholeBoards
  Mentions = {x}
  Unstamped = {}
  Settings <- Calls
  MaxClock = 4
  MaxTrouble = 2
INVARIANTS FiltersAreHonest PurgeSparesLive

SPECIFICATION FairSpec
CONSTANTS
  i = i  f = f  g = g  a = a  b = b
  Path = {f, g}
  Name = {a, b}
  Process = {i}
  MaxFiles = 2
  Habits = {}
  MaxCommit = 3
  MaxTrouble = 2
INVARIANTS DriftIsBounded
PROPERTIES HealsItself

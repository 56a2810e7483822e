SPECIFICATION KnowledgeSpec
CONSTANTS
  Absent = 0
  Client = {c1}
  File <- MCFile
  Layouts <- MCLayouts
  Fallback <- Shallow
  Cap = 0
  Reverts = FALSE
  MaxPasses = 0
  MaxEdits = 0
  MaxMoves = 0
  MaxTrouble = 0
  SourcesOf <- MCSourcesOf
  MaxCommit = 3
  MaxFaults = 0
CHECK_DEADLOCK FALSE
INVARIANTS InheritanceSurvivesPatch

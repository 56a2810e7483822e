SPECIFICATION KnowledgeSpec
CONSTANTS
  Absent = 0
  Client = {c1, c2}
  File <- MCFile
  Layouts <- MCLayouts
  Fallback <- Shallow
  Cap = 1
  Reverts = FALSE
  MaxPasses = 1
  MaxEdits = 1
  MaxMoves = 1
  MaxTrouble = 1
  SourcesOf <- MCSourcesOf
  MaxCommit = 3
  MaxFaults = 1
SYMMETRY Symmetry
CHECK_DEADLOCK FALSE
INVARIANTS TextIsOfItsHash VectorIsOfItsText NothingLeftIsFinished GraphFollowsTheIndex
PROPERTIES PruneSparesClusters

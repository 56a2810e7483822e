SPECIFICATION BoardsSpec
CONSTANTS
  a = a  b = b  old = old  new = new  p1 = p1  p2 = p2
  Agent = {a, b}
  Card = {old, new}
  Given = {old}
  Pr = {p1, p2}
  Cases <- AllCases
  People = {"reopen", "remove", "unlink"}
  MaxTrouble = 1
  Item = {1, 2, 3, 4}
  AtFirst = {1, 2, 3}
  PullRequest = {2}
  Column = {1, 2}
  Limit = {0, 2, 9}
  Unlimited = 9
  PageSize = 2
  MaxPages = 3
  MaxChange = 2
INVARIANTS RetryableMeansNothingWritten AnswersAreTrue CapableIsAble ListingKeepsItsWord
PROPERTIES FinishCatchesUp
CHECK_DEADLOCK FALSE

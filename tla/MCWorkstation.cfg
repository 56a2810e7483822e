SPECIFICATION Spec
CONSTANTS
  a = a
  b = b
  Terminal = {a, b}
  Cases <- AllCases
  MaxTrouble = 2
  Skill <- S
  Shipped <- Ship
  HadSkills <- Had
  MaxKeys = 8
INVARIANTS ConfigIsRecoverable FreshSkillsAreWhole CodexKeepsItsSkills ToldIsTrue
PROPERTIES DecisionsStand

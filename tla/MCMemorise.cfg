CONSTANTS
  NoRow = NoRow
  NoPassage = NoPassage
  NoCard = NoCard
  All = All
  Verses = {1, 2}
  Ids = {1, 2}
  Scopes = {All}
  Grades = {"again", "good"}
  MaxLines = 2
  FirstShapes <- AllOneLine
  MaxEdits = 3
  MaxDays = 1
  MaxKills = 0
  MaxCutEdits = 0
SPECIFICATION Spec
INVARIANT TypeOK
INVARIANT StartedInOrder
INVARIANT StepsEarned
INVARIANT BonusOnce
INVARIANT NextCardCounts
PROPERTY LearntThroughEveryStep
CHECK_DEADLOCK FALSE

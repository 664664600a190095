CONSTANTS
  NoRow = NoRow
  NoPassage = NoPassage
  NoCard = NoCard
  All = All
  Verses = {1, 2}
  Ids = {1}
  Scopes = {1}
  Grades = {"again", "good"}
  MaxLines = 1
  FirstShapes <- ShapedOrNot
  MaxEdits = 2
  MaxDays = 1
  MaxKills = 1
  MaxCutEdits = 1
SPECIFICATION FairSpec
INVARIANT StartedInOrder
PROPERTY PracticeTeaches
CHECK_DEADLOCK FALSE

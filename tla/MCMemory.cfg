CONSTANTS
  NoRow = NoRow
  NoPassage = NoPassage
  p1 = p1
  d1 = d1
  d2 = d2
  Devices = {d1, d2}
  Addresses = 1
  MaxStale = 0
  Verses = {1, 2}
  Ids = {p1}
  Covers <- OnePassage
  Grades = {"good"}
  MaxLines = 1
  FirstStates <- NearlyLearnt
  MaxEpoch = 1
  MaxWrites = 2
SPECIFICATION FairSpec
INVARIANT TypeOK
INVARIANT RecitalsFollowHistory
INVARIANT AnswersCountOnce
INVARIANT PaidOncePerDevice
PROPERTY MergesKeepAnswers
PROPERTY MemoryConverges
PROPERTY RoundsSettle

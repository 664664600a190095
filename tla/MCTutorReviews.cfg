CONSTANTS
  NoCard = NoCard
  d1 = d1
  d2 = d2
  w1 = w1
  Devices = {d1, d2}
  Glyphs = {}
  Words = {w1}
  Concepts = {}
  Grades = {"again", "good"}
  Addresses = 1
  MaxStale = 1
  MaxEpoch = 2
  MaxWrites = 2
  MaxResets = 0
  MaxKills = 0
SPECIFICATION Spec
PROPERTY LatestReviewWins

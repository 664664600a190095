CONSTANTS
  NoCard = NoCard
  d1 = d1
  d2 = d2
  w1 = w1
  Devices = {d1, d2}
  Glyphs = {}
  Words = {w1}
  Concepts = {}
  Grades = {"good"}
  Addresses = 1
  MaxStale = 0
  MaxEpoch = 2
  MaxWrites = 2
  MaxResets = 1
  MaxKills = 0
SPECIFICATION FairSpec
PROPERTY ProgressConverges

CONSTANTS
  NoCard = NoCard
  d1 = d1
  d2 = d2
  g1 = g1
  k1 = k1
  Devices = {d1, d2}
  Glyphs = {g1}
  Words = {}
  Concepts = {k1}
  Grades = {"good"}
  Addresses = 1
  MaxStale = 0
  MaxEpoch = 2
  MaxWrites = 2
  MaxResets = 1
  MaxKills = 1
SPECIFICATION Spec
INVARIANT TypeOK
INVARIANT ErasedStaysErased
PROPERTY MergesKeepWork
SYMMETRY DeviceSymmetry
PROPERTY RoundsSettle

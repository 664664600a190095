CONSTANTS
  NoRow = NoRow
  d1 = d1
  d2 = d2
  Devices = {d1, d2}
  Addresses = 2
  MaxStale = 1
  Keys <- GlossOnly
  MaxEpoch = 2
  MaxWrites = 2
SPECIFICATION FairSpec
PROPERTY ContentConverges

CONSTANTS
  NoRow = NoRow
  d1 = d1
  d2 = d2
  Devices = {d1, d2}
  Addresses = 1
  MaxStale = 0
  Keys <- EveryTable
  MaxEpoch = 2
  MaxWrites = 2
SPECIFICATION FairSpec
INVARIANT TypeOK
INVARIANT RevisionsFollowHistory
INVARIANT AnswersAcknowledge
PROPERTY ImplementsCausalRegister
PROPERTY Converges
PROPERTY RoundsSettle

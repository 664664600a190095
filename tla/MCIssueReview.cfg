CONSTANTS
  NoRow = NoRow
  Devices = {"admin"}
  Addresses = 2
  MaxStale = 1
  Phones = {"p1"}
  Reports <- TwoReports
  MaxEpoch = 2
  MaxWrites = 4
  MaxScreens = 2
SPECIFICATION Spec
INVARIANT TypeOK
INVARIANT WritesOutrankTheirPast
INVARIANT AlarmMeansReopened
 

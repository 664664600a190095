CONSTANTS
  Surfaces = {"a1", "a2", "n", "m"}
  Aramaic = {"m"}
  Vkey <- MCVkey
  Names = {"n"}
  Verses = {"v1", "v2"}
  Words <- MCWords
  NoVerse = NoVerse
  MaxForgets = 1
  MaxSeeds = 1
  MaxMerges = 1
  MaxResets = 1
  MaxKills = 1
SPECIFICATION FairSpec
INVARIANT TypeOK
INVARIANT CountsFollowMarks
INVARIANT ExactUntilForgotten
PROPERTY LearntIsReadable

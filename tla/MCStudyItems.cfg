CONSTANTS
  Surfaces = {1, 2, 3, 4}
  Vkey <- MCVkey
  Aramaic = {}
  Names = {4}
  Verses = {1, 2, 3}
  Words <- MCWords
  NoVerse = NoVerse
  MaxForgets = 1
  MaxSeeds = 1
  MaxMerges = 0
  MaxResets = 0
  MaxKills = 0
  consonant = consonant
  vowel = vowel
  Glyphs = {consonant, vowel}
  Vowels = {vowel}
  GlyphsOf <- MCGlyphsOf
  LetterOf <- MCLetterOf
  CountedVowels = {vowel}
  ConsonantTarget = 1
  VowelTarget = 1
  Rules = {"prefix", "stem"}
  Bucket <- MCBucket
  RulesOf <- MCRulesOf
  Root <- MCRoot
  NoRoot = "none"
  Tier <- MCTier
  Qal = {1, 3}
  VerbTier = 5
  BareKey <- MCBareKey
  Glossed = {}
  Frequent <- MCFrequent
  LettersPerBatch = 1
  WordsPerBatch = 1
  WordsPerConcept = 2
  GrammarGating = TRUE
SPECIFICATION FairStudySpec
INVARIANT StudyTypeOK
INVARIANT MetInOrder
INVARIANT TargetingEnds
PROPERTY EverythingTaught
PROPERTY ChoosesAsReadabilityAllows

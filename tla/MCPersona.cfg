CONSTANTS
  AI_VOCABULARY <- MCVocabulary
  Openers = {"shows"}
  Word <- MCWord
  GenericPhrases <- MCGeneric
  MAX_DNA_PHRASES = 3
  MAX_PHRASE_WORDS = 3
  MaxPerText = 4
  MIN_SAMPLES = 2
  RECOMMENDED_SAMPLES = 3
  MIN_SAMPLE_WORDS = 3
  MaxSamples = 3
  PrefixLen = 2
  Cleaned <- MCCleaned
  Straddling = {"e2"}
  FallbackCount = 2
  FallbackLen = 5
  MaxExamples = 2
  Users <- MCUsers
  Answers <- MCAnswers
  MaxSuccesses = 3
SPECIFICATION PersonaSpec
INVARIANTS
  PassedIsFit
  NoTwins
  ScoresHonest
PROPERTY DnaOnlyCut

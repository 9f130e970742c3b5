CONSTANTS
  Texts <- MCTexts
  Imported <- MCImported
  MaxSize = 2
  OverlapNum = 1
  OverlapDen = 2
  MinEdits = 2
  MinFrequency = 50
  Edits <- MCEdits
  Size <- MCSize
  Folded <- MCFolded
  Holds <- MCHolds
  Inside <- MCInside
  ExampleLen = 16
  AI_TELL_PHRASES <- MCPhrases
  SOFTER_WORDS = {"maybe"}
  STRONGER_WORDS = {"must"}
  MaxTime = 2
  MaxAdds = 5
  MaxEdits = 3
SPECIFICATION Spec
INVARIANTS
  NoNearDuplicates
  CountsAccountedFor
PROPERTIES
  ForgetsWeakest
  RestartKeepsStore
  UneditedHidesNothing

SPECIFICATION MCSpec
CONSTANTS
  Keys = {"ctrl", "f1", "f2"}
  Combos <- MCCombos
  Switches = 2
  ErrorLife = 3
  EventLife = 2
  EndOfTime = 4
  MaxGames = 2
  MaxVoices = 3
  ValueFields = TRUE
  MAX_ENTRIES = 4
  MaxLines = 7
INVARIANTS
  MCTypeOK
  SoundIsSafe
  NewestAreKept
PROPERTIES
  FiresOncePerPress
  HeldComboFires
  FailureIsNotified
  DrawnListStands
CHECK_DEADLOCK FALSE

SPECIFICATION Spec
CONSTANTS
  Pids = {1, 2}
  MaxProcs = 2
  PidReuse = TRUE
  Patches <- MCPatches
  Kind <- MCKind
  NumOptions = 2
  PatchSeq <- MCPatchSeq
  Timed = {2}
  RestoreMayFail = FALSE
  ReuseAfterStop = FALSE
  HasHotkey = {1}
  MaxClicks = 2
  MaxPresses = 1
INVARIANTS
  TypeOK
  PendingMatchesQueue
  NoCrossInstanceState
  EnabledMeansPatched
  DisabledMeansClean
  CleanAtExit
  DeadlineBelongsToSwitch
  PidMatchesHandle
  BytesReturnHome
PROPERTIES
  ImplementsSwitchboard

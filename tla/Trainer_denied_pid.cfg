SPECIFICATION FairSpec
CONSTANTS
  Pids = {1}
  MaxProcs = 2
  PidReuse = TRUE
  Patches <- MCPatches
  Kind <- MCKind
  NumOptions = 2
  PatchSeq <- MCPatchSeq
  Timed = {2}
  RestoreMayFail = FALSE
  ReuseAfterStop = FALSE
  HasHotkey = {1}
  MaxClicks = 0
  MaxPresses = 0
PROPERTY
  GameIsAttached

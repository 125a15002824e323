SPECIFICATION Spec
CONSTANTS
  Pids = {1, 2}
  MaxProcs = 2
  PidReuse = TRUE
  Patches <- MCPatches
  Kind <- MCKind
  NumOptions = 2
  PatchSeq <- MCPatchSeq
  Timed = {2}
  RestoreMayFail = FALSE
  ReuseAfterStop = TRUE
  HasHotkey = {1}
  MaxClicks = 1
  MaxPresses = 0
INVARIANT
  BytesReturnHome

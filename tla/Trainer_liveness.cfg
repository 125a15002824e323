SPECIFICATION FairSpec
CONSTANTS
  Pids = {1, 2}
  MaxProcs = 2
  PidReuse = FALSE
  Patches <- MixedPatches
  Kind <- MixedKind
  NumOptions = 2
  PatchSeq <- MixedPatchSeq
  Timed = {1}
  RestoreMayFail = FALSE
  ReuseAfterStop = FALSE
  HasHotkey = {2}
  MaxClicks = 1
  MaxPresses = 1
PROPERTIES
  ClicksAreServed
  ShutdownCompletes
  LostGameSwitchesOff
  GameIsAttached
  TimedSwitchesGoOff

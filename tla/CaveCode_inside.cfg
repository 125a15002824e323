SPECIFICATION MCSpec
CONSTANTS
  Caves = {c1, c2, c3}
  Orig = Orig
  Threads = {t1, t2}
  RestoreMayFail = TRUE
  MaxGames = 2
  Rel32 = 16
  Rel8 = 4
  NearJump = 2
  FarJump = 4
  CAVE_SIZE = 14
  Stack = "rsp"
  Extended = {"r8"}
  Places <- MCPlaces
  Programs <- MCPrograms
  Patches <- MCPatches
INVARIANTS
  NeverIntoTheJump
CHECK_DEADLOCK FALSE

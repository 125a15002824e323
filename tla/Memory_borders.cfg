SPECIFICATION MCSpec
CONSTANTS
  Top = 6
  Bytes = {0, 1}
  Any = Any
  Chunk = 2
  Layouts <- MCLayouts
  Patterns <- MCPatterns
  Ranges <- MCRanges
  Memory = 20
  PageSize = 2
  Granule = 4
  Maps <- MCMaps
  Targets <- MCTargets
  Amount = 2
  RANGE = 7
  Reach = 10
  Short = 1
  GamePids = {1, 2}
  Bases = {4, 5}
  Objects = {"a", "b"}
  Derefs = 2
  AgainAfterStop = FALSE
  MaxStarts = 2
  MaxMoves = 1
  Writers = {worker, window}
  PageCount = 2
  Spans <- MCSpans
  OwnRights <- MCOwnRights
  Options = {"cave", "nop", "pair"}
  SitePlaces <- GuardedPlaces
  Orig = Orig
  PatchSeq <- GuardedSeq
INVARIANTS
  BordersAreSearched

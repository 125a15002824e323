SPECIFICATION SiteSpec
CONSTANTS
  Options = {"first", "second"}
  SitePlaces <- LoosePlaces
  Orig = Orig
  PatchSeq <- LooseSeq
INVARIANT
  OffMeansOriginal

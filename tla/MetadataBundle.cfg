SPECIFICATION Spec
CONSTANTS
  Runs <- TwoRuns
  Keys = {"p"}
  Locales = {"en", "fr", "de"}
  Bundles <- ImageThenAny
  MaxRounds = 2
  Torn = Torn
  Null = Null
CHECK_DEADLOCK FALSE
INVARIANTS TypeOK RowsFallBack BucketMatches FailsOnlyIfOverlapped CachedImagesExist

SPECIFICATION Spec
CONSTANTS
  Runs <- OneRun
  Keys = {"p"}
  Locales = {"en", "fr", "de"}
  Bundles <- MergedOnly
  MaxRounds = 1
  Torn = Torn
  Null = Null
CHECK_DEADLOCK FALSE
INVARIANTS PropertiesOverrideDefault

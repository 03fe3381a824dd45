SPECIFICATION Spec
CONSTANTS
  Fungible = TRUE
  Numbers = {1}
  Urls <- FtUrls
  Null = Null
  MaxWrites = 4
CHECK_DEADLOCK FALSE
INVARIANTS TypeOK
PROPERTIES NotModifiedIsTrue BlankOnlyIfFailed

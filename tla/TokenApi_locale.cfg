SPECIFICATION Spec
CONSTANTS
  Fungible = FALSE
  Numbers = {1, 2}
  Urls <- LocalizedUrls
  Null = Null
  MaxWrites = 4
CHECK_DEADLOCK FALSE
PROPERTIES LocalizedNotModifiedIsTrue

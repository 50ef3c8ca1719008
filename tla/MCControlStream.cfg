\* Four messages of up to 5 bytes pass the index, whose half is 6, and wrap it.
CONSTANTS
  Texts <- MCTexts
  IndexRange = 12
  MaxSent = 4
SPECIFICATION FairSpec
CHECK_DEADLOCK FALSE
INVARIANTS
  TypeOK
  NothingLeftBehind
PROPERTIES
  StreamSpec
  EveryMessageServed

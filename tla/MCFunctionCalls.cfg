CONSTANTS
  login = login
  renewal = renewal
  any = any
  other = other
  NoCall = NoCall
  Calls <- MCCalls
  Offered <- MCOffered
  StatusForms = {"int", "absent"}
  Kinds = {"subscriber"}
  UnsetSizes = {0, 5}
SPECIFICATION FairSpec
CHECK_DEADLOCK FALSE
INVARIANTS
  TypeOK
  LatestSessionCarried
  PerformedAsAsked
  ReportsAreTrue
PROPERTIES
  EveryCallReported

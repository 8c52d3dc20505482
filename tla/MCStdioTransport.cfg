SPECIFICATION FairSpec
CONSTANTS
  a = a
  b = b
  one = one
  two = two
  Calls = {a, b}
  Ids <- MCIds
  IdsOf <- MCIdsOf
  MaxSpawn = 2
  NoCall = NoCall
  NoId = NoId
INVARIANTS
  TableIsExact
  OneOfEach
PROPERTIES
  HeldCallsEnd
CHECK_DEADLOCK FALSE

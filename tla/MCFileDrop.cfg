SPECIFICATION FairSpec
CONSTANTS
  Names = {x, y}
  Defs = {d, bad}
  Refused = {bad}
  Calls = {c}
  MaxWrites = 2
  MaxRestarts = 1
  Watcher = Watcher
  NoDef = NoDef
  NoFile = NoFile
  NoName = NoName
  Garbled = Garbled
INVARIANTS
  DoneFilesAreInForce
PROPERTIES
  OnlyOverlapLoses
  UsesSwitch
  FilesArePickedUp
CHECK_DEADLOCK FALSE

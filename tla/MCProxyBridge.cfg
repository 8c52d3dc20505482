\* The calls are finite: when all are over and the bridge is shut down, it stops.
SPECIFICATION FairSpec
CONSTANTS
  r1 = r1
  r2 = r2
  n1 = n1
  NoCall = NoCall
  Calls <- MCCalls
  Notifications <- MCNotifications
  QueueSize = 2
INVARIANTS
  SlotsMatchCalls
  OneRecordPerAnswer
  OnlyAbandonedCallsLeaveTasks
PROPERTIES
  ImplementsLedger
  ShutdownDrains
CHECK_DEADLOCK FALSE

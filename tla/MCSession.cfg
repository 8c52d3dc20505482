SPECIFICATION FairSpec
CONSTANTS
  Remote = {"pg"}
  Texts = {t}
  Admin = admin
  Member = member
  Legacy = legacy
  NoUser = NoUser
  MaxTokens = 2
  MaxCalls = 2
  Short = {1}
  MaxSignOuts = 1
  MaxUpsets = 1
  NoText = NoText
  NoTarget = NoTarget
  NoToken = NoToken
INVARIANTS
  StepFollowsServer
  TokenIsAccepted
  RoleIsTheirs
  SignOutSticks
PROPERTIES
  SwapIsSound
  WaitsEnd
CHECK_DEADLOCK FALSE

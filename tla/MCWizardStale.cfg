SPECIFICATION FairSpec
CONSTANTS
  Remote = {"pg"}
  Texts = {t}
  Admin = admin
  Member = member
  Legacy = legacy
  NoUser = NoUser
  MaxTokens = 1
  MaxCalls = 1
  Short = {}
  MaxSignOuts = 1
  MaxUpsets = 1
  NoText = NoText
  NoTarget = NoTarget
  NoToken = NoToken
INVARIANTS
  OkIsOfThisForm
CHECK_DEADLOCK FALSE

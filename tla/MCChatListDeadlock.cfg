SPECIFICATION ListFairSpec
CONSTANTS
  Chats = {1, 2}
  MaxOrder = 2
  MaxSessions = 1
  MaxCommands = 1
CHECK_DEADLOCK FALSE
PROPERTY GetChatsReturns

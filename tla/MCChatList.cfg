SPECIFICATION ListSpec
CONSTANTS
  Chats = {1, 2}
  MaxOrder = 2
  MaxSessions = 2
  MaxCommands = 2
CHECK_DEADLOCK FALSE
INVARIANTS ListHasEveryChat FirstSessionIsExact

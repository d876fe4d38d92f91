SPECIFICATION FairSpec
CONSTANTS
  Phones = {phone1}
  NoPhone = NoPhone
  MaxActuators = 2
  MaxCalls = 1
  MaxClients = 2
CHECK_DEADLOCK FALSE
INVARIANTS TypeOK FlagEndsWithSession RemovedActuatorIsClosed
PROPERTIES AuthorizedRunWakesUp QuitEndsSession

SPECIFICATION Spec
CONSTANTS
  Phones = {phone1}
  NoPhone = NoPhone
  MaxActuators = 2
  MaxCalls = 2
  MaxClients = 3
CHECK_DEADLOCK FALSE
INVARIANT OneActuatorPerPhone

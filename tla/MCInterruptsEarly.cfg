SPECIFICATION Spec
CONSTANTS
  Lines = {1}
  Pulsed = {}
  Spurious = {}
  Exceptions = {}
  Callbacks = {driver}
  NoHandler = NoHandler
  MaxNesting = 2
  EarlyDevices = TRUE
PROPERTIES
  RegisteredDriverCalled

SPECIFICATION Spec
CONSTANTS
  Lines <- MCLines
  Pulsed <- MCPulsed
  Spurious <- MCSpurious
  Exceptions <- MCExceptions
  Callbacks = {driver}
  NoHandler = NoHandler
  MaxNesting = 2
  EarlyDevices = FALSE
INVARIANTS
  TypeOK
  NoNesting
  NothingLeftInService
  IretFrameIntact
  HeldLinePending
PROPERTIES
  OnlyStiEnables
  ImplementsService
  RegisteredDriverCalled

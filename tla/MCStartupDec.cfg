SPECIFICATION Spec
CONSTANTS
  RegisterSize = 4
  FifoSize = 2
  WordSize = 8
  ClockRate = 64
  ByteSize = 4
  BaudDivisor = 2
  Texts <- MCTexts
  Numbers <- MCNumbers
  Frequencies <- MCFrequencies
  MaxLogs = 1
PROPERTY
  ImplementsLog
CHECK_DEADLOCK FALSE

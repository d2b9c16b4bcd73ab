SPECIFICATION Spec
CONSTANTS
  Width = 8
  Size = 8
  Bytes <- MCBytes
  Decimals <- MCDecimals
  Ints <- MCInts
  Lengths <- MCLengths
  Hexadecimals <- MCHexadecimals
INVARIANTS
  MoveIsSimultaneous
  AppendsInPlace
  HintsRecognised
  NumbersPrinted
  FaultMessageFits

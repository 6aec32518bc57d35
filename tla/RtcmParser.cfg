SPECIFICATION FairSpec
CONSTANTS
  Byte <- MCByte
  Preamble = 2
  Reserved <- MCReserved
  LenOf <- MCLenOf
  MaxPayload = 2
  CrcOk <- MCCrcOk
  MaxChunk = 2
  MaxFed = 9
  MaxResets = 1
INVARIANTS TypeOK ReadyForInput BytesConserved SameAsWhole
PROPERTY Digests
CHECK_DEADLOCK FALSE

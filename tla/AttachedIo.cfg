SPECIFICATION FairSpec
CONSTANTS
  MaxAttempts = 3
  MaxKeys = 1
  MaxFrames = 1
INVARIANTS
  TypeOK
  TtyExclusive
  InputOfThisAttempt
PROPERTIES
  LiveConnectionKept
  HandshakeReturns
CHECK_DEADLOCK FALSE

SPECIFICATION FairSpec
CONSTANTS
  c1 = c1
  c2 = c2
  NoConn = NoConn
  Clients <- Two
  MaxMsgs = 2
  SndBuf = 1
  MayKill = TRUE
  PipeCap = 2
  ForkMayFail = TRUE
  PipeMayFail = TRUE
  FileMayFill = TRUE
INVARIANT LoggedFirst
PROPERTY EchoSpec
PROPERTY Saved
CHECK_DEADLOCK FALSE

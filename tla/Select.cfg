SPECIFICATION FairSpec
CONSTANTS
  c1 = c1
  c2 = c2
  NoConn = NoConn
  Clients <- Two
  MaxMsgs = 2
  SndBuf = 1
  MayKill = TRUE
  MaxFd = 5
  Nfds = 1000
INVARIANT PassSound
PROPERTY EchoSpec
PROPERTY Answered
CHECK_DEADLOCK FALSE

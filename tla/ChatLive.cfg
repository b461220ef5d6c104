SPECIFICATION FairSpec
CONSTANTS
  c1 = c1
  c2 = c2
  c3 = c3
  NoConn = NoConn
  Clients <- Two
  Talkers <- Two
  MaxConns = 2
  MaxFd = 2
  MaxMsgs = 2
  SndBuf = 1
  MayQuit = TRUE
  MayKill = FALSE
  CreateMayFail = TRUE
INVARIANT CountExact
PROPERTY ClientsServed
CHECK_DEADLOCK FALSE

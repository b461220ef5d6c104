SPECIFICATION Spec
CONSTANTS
  c1 = c1
  c2 = c2
  c3 = c3
  NoConn = NoConn
  Clients <- Two
  Talkers <- Two
  MaxConns = 2
  MaxFd = 2
  MaxMsgs = 1
  SndBuf = 1
  MayQuit = FALSE
  MayKill = FALSE
  CreateMayFail = FALSE
INVARIANT OneThreadEach
CHECK_DEADLOCK FALSE

SPECIFICATION EdgeRunSpec
CONSTANTS
  NoConn = NoConn
  Clients = {c1, c2}
  MaxMsgs = 2
  SndBuf = 1
  MayKill = TRUE
  MaxFd = 6
INVARIANT EdgesKept
INVARIANT InOrder
PROPERTY EchoOfLtEt
PROPERTY EdgeAnswered
CHECK_DEADLOCK FALSE

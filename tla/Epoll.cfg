SPECIFICATION FairSpec
CONSTANTS
  c1 = c1
  c2 = c2
  NoConn = NoConn
  Clients <- Two
  MaxMsgs = 2
  SndBuf = 1
  MayKill = TRUE
  MaxFd = 6
INVARIANT StillTrue
INVARIANT OneAnswerPerRead
PROPERTY Answered
CHECK_DEADLOCK FALSE

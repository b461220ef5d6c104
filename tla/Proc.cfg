SPECIFICATION FairSpec
CONSTANTS
  c1 = c1
  c2 = c2
  NoConn = NoConn
  Parent = Parent
  Serv = Serv
  Clients <- Two
  Readers <- One
  MaxMsgs = 2
  SndBuf = 1
  MayKill = TRUE
  ForkMayFail = TRUE
INVARIANT StatusSet
INVARIANT OwnSocketsOnly
PROPERTY AllCollected
PROPERTY EchoSpec
PROPERTY Answered
CHECK_DEADLOCK FALSE

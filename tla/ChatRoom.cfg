SPECIFICATION SpacedSpec
CONSTANTS
  c1 = c1
  c2 = c2
  c3 = c3
  NoConn = NoConn
  Clients <- Three
  Talkers = {c1}
  MaxConns = 3
  MaxFd = 3
  MaxMsgs = 2
  SndBuf = 1
  MayQuit = FALSE
  MayKill = TRUE
  CreateMayFail = FALSE
SYMMETRY Sym
PROPERTY ChatsInRoom
CHECK_DEADLOCK FALSE

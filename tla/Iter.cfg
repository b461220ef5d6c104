SPECIFICATION IterativeSpec
CONSTANTS
  NoConn = NoConn
  Clients = {c1, c2, c3}
  MaxMsgs = 2
  SndBuf = 1
  MayKill = TRUE
  MaxAccepts = 2
  Chatty = {c1}
  Hosts = {h1, h2}
  Connected = {h2}
  UdpServer = UdpServer
  Stranger = Stranger
  NoAnswer = NoAnswer
  MaxAsks = 2
  MaxFaults = 1
INVARIANT OncePlusLast
INVARIANT AnswersSound
PROPERTY EchoOfTurns
PROPERTY ServedInTurn
PROPERTY Resumes
CHECK_DEADLOCK FALSE

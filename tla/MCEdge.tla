------------------------------- MODULE MCEdge -------------------------------
(* Small instances of EpollLtEt and EtEcho, one program a behaviour: they     *)
(* share the clients and the epoll instance, and differ in the handler.       *)
EXTENDS EpollLtEt, Programs

VARIABLE buf

EtServer == INSTANCE EtEcho

Mine == program = "epoll_lt_et"

EdgeRunInit ==
  \/ Mine /\ Init /\ buf = NoChunk
  \/ program = "tcp_echo_epoll_et_server" /\ EtServer!Init /\ level = FALSE

EdgeRunNext ==
  /\ \/ Mine /\ Next /\ UNCHANGED buf
     \/ ~Mine /\ EtServer!Next /\ UNCHANGED level
  /\ UNCHANGED program

all == <<vars, buf, program>>

\* The fairness of both modules.
EdgeRunSpec ==
  /\ EdgeRunInit /\ [][EdgeRunNext]_all
  /\ WF_all(Mine /\ Loop /\ UNCHANGED <<buf, program>>)
  /\ WF_all(~Mine /\ EtServer!Loop /\ UNCHANGED <<level, program>>)
  /\ \A c \in Clients :
       WF_all(Mine /\ ClientRead(c) /\ UNCHANGED <<edge, handler, buf, program>>)

\* No edge is lost, under level-triggered and edge-triggered connections, a
\* level-triggered listening socket and an edge-triggered one (:129 of
\* epoll_lt_et.c, :103 of tcp_echo_epoll_et_server.c).
EdgesKept == IF Mine THEN EdgeKept ELSE EtServer!EdgeKept

\* epoll_lt_et.c is an echo service under either handler (:111-167).
EchoOfLtEt ==
  /\ Mine => Echo!SInit
  /\ [][Mine => Echo!SNext]_(Echo!svars)

\* tcp_echo_epoll_et_server.c may lose a chunk, and returns what is left in
\* order (:104-126).
InOrder == ~Mine => EtServer!OwnInOrder

\* What is sent comes back, from the server that does not drop it, and both
\* answer an EOF (:111-167 of epoll_lt_et.c, :84-126 of the other).
EdgeAnswered ==
  /\ Mine => Answered
  /\ ~Mine => EtServer!EofReturned
=============================================================================

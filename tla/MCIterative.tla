---------------------------- MODULE MCIterative -----------------------------
(* Small instances of IterEcho and UdpEcho: the servers that serve one client *)
(* or one datagram at a time, one program a behaviour.                        *)
EXTENDS IterEcho, UdpEcho

CONSTANT Chatty    \* bound: the clients that send more than one chunk

IterativeInit ==
  /\ program \in IterPrograms \cup {"udp_echo_server"} /\ IterFresh /\ UdpFresh

IterativeNext ==
  /\ \/ /\ IterNext /\ UNCHANGED uvars
        /\ \A c \in Clients \ Chatty : nsent'[c] <= 1
     \/ UdpNext /\ UNCHANGED <<net, iter>>
  /\ UNCHANGED program

IterativeSpec ==
  /\ IterativeInit /\ [][IterativeNext]_<<net, iter, uvars, program>>
  /\ IterFair /\ UdpFair
=============================================================================

---------------------------- MODULE EchoService ----------------------------
(***************************************************************************)
(* What an echo server promises each of its clients, whatever loop it is   *)
(* built on: the chunks a client sent come back to it, in order, each      *)
(* once; and while the client can still read, the connection is closed     *)
(* only after the client's EOF and after everything was sent back.  A      *)
(* client that went away is owed nothing, and a connection may be refused  *)
(* before the first chunk is sent back.                                    *)
(***************************************************************************)
EXTENDS Naturals, Sequences

CONSTANT Clients

VARIABLES
  sent,     \* number of chunks each client sent
  echoed,   \* chunks written back to it; chunk k of client c is <<c, k>>
  fin,      \* the client sent EOF
  away,     \* the client no longer reads
  closed    \* the server closed the connection

svars == <<sent, echoed, fin, away, closed>>

SInit ==
  /\ sent = [c \in Clients |-> 0] /\ echoed = [c \in Clients |-> <<>>]
  /\ fin = [c \in Clients |-> FALSE] /\ away = [c \in Clients |-> FALSE]
  /\ closed = [c \in Clients |-> FALSE]

Send(c) ==
  /\ ~fin[c] /\ ~away[c]
  /\ sent' = [sent EXCEPT ![c] = @ + 1]
  /\ UNCHANGED <<echoed, fin, away, closed>>

EchoNext(c) ==
  /\ Len(echoed[c]) < sent[c] /\ ~away[c] /\ ~closed[c]
  /\ echoed' = [echoed EXCEPT ![c] = Append(@, <<c, Len(@) + 1>>)]
  /\ UNCHANGED <<sent, fin, away, closed>>

Finish(c) ==
  /\ ~fin[c]
  /\ fin' = [fin EXCEPT ![c] = TRUE]
  /\ UNCHANGED <<sent, echoed, away, closed>>

Leave(c) ==
  /\ ~away[c]
  /\ away' = [away EXCEPT ![c] = TRUE] /\ fin' = [fin EXCEPT ![c] = TRUE]
  /\ UNCHANGED <<sent, echoed, closed>>

CloseConn(c) ==
  /\ ~closed[c]
  /\ \/ fin[c] /\ Len(echoed[c]) = sent[c]
     \/ away[c]
     \/ echoed[c] = <<>>
  /\ closed' = [closed EXCEPT ![c] = TRUE]
  /\ UNCHANGED <<sent, echoed, fin, away>>

SNext == \E c \in Clients :
  Send(c) \/ EchoNext(c) \/ Finish(c) \/ Leave(c) \/ CloseConn(c)

SSpec == SInit /\ [][SNext]_svars
=============================================================================

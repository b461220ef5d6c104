------------------------------ MODULE EdgeNet ------------------------------
(***************************************************************************)
(* The clients of EchoNet seen through an epoll instance with edge-        *)
(* triggered descriptors.  The kernel keeps a ready list, rdy: something   *)
(* that arrives at a watched descriptor puts it there, epoll_wait() takes  *)
(* it out, and only a level-triggered one is put back.                     *)
(***************************************************************************)
EXTENDS EchoNet

CONSTANT MaxFd    \* the last descriptor the process may have

ASSUME EdgeAssumption == MaxFd \in Nat

VARIABLES
  fdtab,     \* descriptor -> connection
  rdy,       \* the ready list
  batch      \* descriptors whose reported event is still to be handled

edge == <<fdtab, rdy, batch>>

Listen == 3                \* the listening socket; the epoll instance is 4
Fds    == 5..MaxFd
AllFds == Fds \cup {Listen}

EdgeInit ==
  /\ NetInit
  /\ fdtab = [f \in Fds |-> NoConn] /\ rdy = {} /\ batch = {}

Opened   == {f \in Fds : fdtab[f] # NoConn}
FdsOf(c) == {f \in Fds : fdtab[f] = c}
Ready(f) == IF f = Listen THEN backlog # <<>> ELSE Readable(fdtab[f])

\* A client acts; its segment, if it sends one, wakes the watched descriptor.
\* The close() of a client that had sent its FIN sends nothing more.
Arrives(c, watched) ==
  /\ \/ Connect(c) /\ rdy' = rdy \cup {Listen}
     \/ (ClientWrite(c) \/ Shutdown(c)) /\ rdy' = rdy \cup (FdsOf(c) \cap watched)
     \/ Kill(c) /\ rdy' = IF peer[c] = "fin" /\ peer'[c] = "gone" THEN rdy
                          ELSE rdy \cup (FdsOf(c) \cap watched)
     \/ ClientRead(c) /\ UNCHANGED rdy
  /\ UNCHANGED <<fdtab, batch>>

\* epoll_wait(): what is on the list and indeed ready is reported.
Report(levels) ==
  /\ batch = {}
  /\ batch' = {f \in rdy : Ready(f)}
  /\ batch' # {}
  /\ rdy' = batch' \cap levels
  /\ UNCHANGED <<net, fdtab>>

Event(f) == f \in batch /\ batch' = batch \ {f}

LowestFree(f) == fdtab[f] = NoConn /\ \A g \in Fds : g < f => fdtab[g] # NoConn

\* accept() and EPOLL_CTL_ADD, which looks at once whether there is something.
AcceptAndAdd ==
  \E f \in Fds, c \in Clients :
    /\ LowestFree(f) /\ Accepted(c)
    /\ fdtab' = [fdtab EXCEPT ![f] = c]
    /\ rdy' = IF Readable(c) THEN rdy \cup {f} ELSE rdy

\* close(): the descriptor leaves the epoll instance.
CloseFd(f) ==
  /\ Released(fdtab[f])
  /\ fdtab' = [fdtab EXCEPT ![f] = NoConn] /\ rdy' = rdy \ {f}
  /\ UNCHANGED <<peer, nsent, nread, echoed, got, backlog>>

EdgeTypeOK ==
  /\ NetTypeOK
  /\ fdtab \in [Fds -> Clients \cup {NoConn}]
  /\ rdy \subseteq AllFds /\ batch \subseteq AllFds
=============================================================================

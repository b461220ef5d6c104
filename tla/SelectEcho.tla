----------------------------- MODULE SelectEcho -----------------------------
(***************************************************************************)
(* tcp_echo_select_server.c: one process watches the listening socket and  *)
(* all connections with select(), then scans the descriptors upwards,      *)
(* accepting, or reading and writing back, with blocking calls.            *)
(*                                                                         *)
(* select() may also time out after a second: the loop starts again with   *)
(* nothing changed.                                                        *)
(***************************************************************************)
EXTENDS EchoNet

CONSTANTS
  MaxFd,    \* the last descriptor the process may have
  Nfds      \* the first argument of select(), 1000 in the code

ASSUME SelectAssumption == MaxFd \in Nat /\ Nfds \in Nat

VARIABLES
  fdtab,     \* descriptor -> connection
  reads,     \* the watched descriptors
  cpy,       \* what select() returned
  i,         \* the next descriptor of the scan
  fd_max,
  wpc,       \* "select", "scan" or "write"
  alive      \* FALSE once SIGPIPE ended the process

loop == <<fdtab, reads, cpy, i, fd_max, wpc, alive>>
vars == <<net, loop>>

Serv == 3                  \* the listening socket: the first after stdio
Fds  == (Serv + 1)..MaxFd

Init ==
  /\ NetInit
  /\ fdtab = [f \in Fds |-> NoConn]
  /\ reads = {Serv} /\ cpy = {} /\ i = 0 /\ fd_max = Serv
  /\ wpc = "select" /\ alive = TRUE

Ready(f) == IF f = Serv THEN backlog # <<>> ELSE Readable(fdtab[f])

\* Deviation: the returned set is not looked at.
SelectAll ==
  /\ wpc = "select"
  /\ \E f \in reads : f < Nfds /\ Ready(f)
  /\ cpy' = reads
  /\ i' = 0 /\ wpc' = "scan"
  /\ UNCHANGED <<net, fdtab, reads, fd_max, alive>>

\* Deviation: select() is given reads itself instead of its copy.
SelectInPlace ==
  /\ wpc = "select"
  /\ cpy' = {f \in reads : f < Nfds /\ Ready(f)}
  /\ cpy' # {} /\ reads' = cpy'
  /\ i' = 0 /\ wpc' = "scan"
  /\ UNCHANGED <<net, fdtab, fd_max, alive>>

Select ==
  /\ wpc = "select"
  /\ cpy' = {f \in reads : f < Nfds /\ Ready(f)}
  /\ cpy' # {}
  /\ i' = 0 /\ wpc' = "scan"
  /\ UNCHANGED <<net, fdtab, reads, fd_max, alive>>

\* The scan goes on with the next descriptor that is set, fd_max included.
Left == {f \in cpy : i <= f /\ f < fd_max + 1}
At(f) == wpc = "scan" /\ f \in Left /\ \A g \in Left : f <= g
Past(f) == i' = f + 1

ScanEnd ==
  /\ wpc = "scan" /\ Left = {}
  /\ wpc' = "select"
  /\ UNCHANGED <<net, fdtab, reads, cpy, i, fd_max, alive>>

LowestFree(f) == fdtab[f] = NoConn /\ \A g \in Fds : g < f => fdtab[g] # NoConn

\* Deviation: fd_max is not raised.
AcceptMaxKept ==
  /\ At(Serv)
  /\ \E f \in Fds, c \in Clients :
       /\ LowestFree(f) /\ Accepted(c)
       /\ fdtab' = [fdtab EXCEPT ![f] = c]
       /\ reads' = reads \cup {f}
  /\ Past(Serv)
  /\ UNCHANGED <<cpy, fd_max, wpc, alive>>

Accept ==
  /\ At(Serv)
  /\ \E f \in Fds, c \in Clients :
       /\ LowestFree(f) /\ Accepted(c)
       /\ fdtab' = [fdtab EXCEPT ![f] = c]
       /\ fd_max' = IF f > fd_max THEN f ELSE fd_max
       /\ reads' = reads \cup {f}
  /\ Past(Serv)
  /\ UNCHANGED <<cpy, wpc, alive>>

\* accept() fails, for want of a descriptor say, and is passed over.
AcceptFail ==
  /\ At(Serv)
  /\ Past(Serv)
  /\ UNCHANGED <<net, fdtab, reads, cpy, fd_max, wpc, alive>>

ReadData(f) ==
  /\ At(f) /\ f # Serv /\ TakeData(fdtab[f])
  /\ wpc' = "write" /\ i' = f
  /\ UNCHANGED <<fdtab, reads, cpy, fd_max, alive>>

\* Deviation: the hang-up is taken before the data.
ReadEofEarly(f) ==
  /\ At(f) /\ f # Serv /\ AtEof(peer[fdtab[f]])
  /\ reads' = reads \ {f}
  /\ fdtab' = [fdtab EXCEPT ![f] = NoConn] /\ Released(fdtab[f])
  /\ Past(f)
  /\ UNCHANGED <<peer, nsent, nread, echoed, got, backlog, cpy, fd_max, wpc, alive>>

ReadEof(f) ==
  /\ At(f) /\ f # Serv /\ EofReady(fdtab[f])
  /\ reads' = reads \ {f}
  /\ fdtab' = [fdtab EXCEPT ![f] = NoConn] /\ Released(fdtab[f])
  /\ Past(f)
  /\ UNCHANGED <<peer, nsent, nread, echoed, got, backlog, cpy, fd_max, wpc, alive>>

\* read() returns -1; write() with that length fails as well.
ReadErr(f) ==
  /\ At(f) /\ f # Serv /\ TakeErr(fdtab[f])
  /\ Past(f)
  /\ UNCHANGED <<fdtab, reads, cpy, fd_max, wpc, alive>>

Write ==
  /\ wpc = "write"
  /\ WriteBack(fdtab[i], <<fdtab[i], nread[fdtab[i]]>>)
  /\ Past(i) /\ wpc' = "scan"
  /\ UNCHANGED <<fdtab, reads, cpy, fd_max, alive>>

\* SIGPIPE ends the process.
WriteSigpipe ==
  /\ wpc = "write" /\ RaisesSigpipe(peer[fdtab[i]])
  /\ alive' = FALSE
  /\ UNCHANGED <<net, fdtab, reads, cpy, i, fd_max, wpc>>

Loop ==
  /\ alive
  /\ \/ Select \/ ScanEnd \/ Accept \/ AcceptFail \/ Write \/ WriteSigpipe
     \/ \E f \in Fds : ReadData(f) \/ ReadEof(f) \/ ReadErr(f)

ClientStep(c) == Client(c) /\ UNCHANGED loop

Next == Loop \/ \E c \in Clients : ClientStep(c)

Spec == Init /\ [][Next]_vars

\* The process runs and its clients read what is sent back to them.
FairSpec ==
  Spec /\ WF_vars(Loop) /\ \A c \in Clients : WF_vars(ClientRead(c) /\ UNCHANGED loop)

-----------------------------------------------------------------------------
(* Properties. *)

\* Every variable stays in its type; a write is only made to a connection.
TypeOK ==
  /\ NetTypeOK
  /\ fdtab \in [Fds -> Clients \cup {NoConn}]
  /\ reads \subseteq {Serv} \cup Fds /\ cpy \subseteq {Serv} \cup Fds
  /\ i \in Nat /\ fd_max \in {Serv} \cup Fds
  /\ wpc \in {"select", "scan", "write"} /\ alive \in BOOLEAN
  /\ wpc = "write" => i \in Fds /\ fdtab[i] # NoConn

OpenFds == {f \in Fds : fdtab[f] # NoConn}

\* What select() said is still true when the scan acts on it: no accept() or
\* read() of a pass blocks, although descriptors are closed and handed out
\* again during the same pass (:71-103).
StillReady == wpc = "scan" => \A f \in Left : f \in {Serv} \cup OpenFds /\ Ready(f)

\* The watched set is the listening socket and the open connections, and the
\* scan, which never lowers fd_max, reaches all of them (:87-91, :99-101).
WatchesOpen ==
  /\ TypeOK
  /\ reads = {Serv} \cup OpenFds
  /\ \A f \in reads : f <= fd_max

\* A pass of the scan acts on open, ready descriptors and on all there are
\* (:69-106).
PassSound == StillReady /\ WatchesOpen

\* While it runs, the server is an echo service (:96-107).
EchoSpec == Echo!SSpec

\* What an accepted client sent comes back and its EOF is answered (:97-106),
\* while the process lives and clients read: a write() that waits for one
\* makes the others wait.
Answered == \A c \in Clients :
  /\ server[c] = "open" /\ Len(echoed[c]) < nsent[c]
       ~> Len(echoed[c]) = nsent[c] \/ ~Reads(peer[c]) \/ ~alive
  /\ server[c] = "open" /\ peer[c] = "fin" ~> server[c] = "closed" \/ ~alive
=============================================================================

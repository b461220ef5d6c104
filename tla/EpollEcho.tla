----------------------------- MODULE EpollEcho -----------------------------
(***************************************************************************)
(* tcp_echo_epoll_server.c: one process, level-triggered epoll.  A readable *)
(* connection is read into the one buffer of the program and its interest  *)
(* is changed to EPOLLOUT; when it is reported writable the buffer is       *)
(* written to it and its interest is changed back to EPOLLIN.              *)
(*                                                                         *)
(* A batch is what one epoll_wait() returned and the loop has not handled  *)
(* yet; the kernel chooses the order of its events.                        *)
(***************************************************************************)
EXTENDS EchoNet

CONSTANT MaxFd    \* the last descriptor the process may have

ASSUME EpollAssumption == MaxFd \in Nat

VARIABLES
  fdtab,     \* descriptor -> connection
  interest,  \* descriptor -> "none", "in" or "out"
  batch,     \* descriptors whose reported event is still to be handled
  reported,  \* the event reported for each of them
  buf,       \* the chunk last read into the buffer
  alive      \* FALSE once SIGPIPE or error_handling() ended the process

loop == <<fdtab, interest, batch, reported, buf, alive>>
vars == <<net, loop>>

Listen == 3                \* the listening socket; epfd is 4
Fds    == 5..MaxFd
AllFds == Fds \cup {Listen}

Init ==
  /\ NetInit
  /\ fdtab = [f \in Fds |-> NoConn]
  /\ interest = [f \in AllFds |-> IF f = Listen THEN "in" ELSE "none"]
  /\ batch = {} /\ reported = interest
  /\ buf = NoChunk /\ alive = TRUE

\* A socket is writable when a write() does not wait, error or not.
Fires(f) ==
  \/ f = Listen /\ backlog # <<>>
  \/ f # Listen /\ interest[f] = "in" /\ Readable(fdtab[f])
  \/ f # Listen /\ interest[f] = "out" /\ Room(fdtab[f])

EpollWait ==
  /\ batch = {}
  /\ batch' = {f \in AllFds : Fires(f)}
  /\ batch' # {}
  /\ reported' = interest
  /\ UNCHANGED <<net, fdtab, interest, buf, alive>>

Event(f, e) == f \in batch /\ reported[f] = e /\ batch' = batch \ {f}
Modify(f, e) == interest' = [interest EXCEPT ![f] = e]

LowestFree(f) == fdtab[f] = NoConn /\ \A g \in Fds : g < f => fdtab[g] # NoConn

Accept ==
  /\ Event(Listen, "in")
  /\ \E f \in Fds, c \in Clients :
       /\ LowestFree(f) /\ Accepted(c)
       /\ fdtab' = [fdtab EXCEPT ![f] = c]
       /\ Modify(f, "in")
  /\ UNCHANGED <<reported, buf, alive>>

\* accept() returns -1, for want of a descriptor say, unchecked; epoll_ctl()
\* refuses it; the program exits.
AcceptFail ==
  /\ Event(Listen, "in")
  /\ alive' = FALSE
  /\ UNCHANGED <<net, fdtab, interest, reported, buf>>

\* Deviation: the interest stays EPOLLIN.
ReadDataIn(f) ==
  LET c == fdtab[f] IN
  /\ f # Listen /\ Event(f, "in") /\ TakeData(c)
  /\ buf' = <<c, nread[c] + 1>>
  /\ UNCHANGED <<fdtab, interest, reported, alive>>

ReadData(f) ==
  LET c == fdtab[f] IN
  /\ f # Listen /\ Event(f, "in") /\ TakeData(c)
  /\ buf' = <<c, nread[c] + 1>>
  /\ Modify(f, "out")
  /\ UNCHANGED <<fdtab, reported, alive>>

\* Closing the descriptor ends the interest in it; the EPOLL_CTL_DEL after it
\* changes nothing.
ReadEof(f) ==
  LET c == fdtab[f] IN
  /\ f # Listen /\ Event(f, "in") /\ EofReady(c)
  /\ Released(c) /\ fdtab' = [fdtab EXCEPT ![f] = NoConn]
  /\ Modify(f, "none")
  /\ UNCHANGED <<peer, nsent, nread, echoed, got, backlog, reported, buf, alive>>

\* A read() of -1 is not checked: what the buffer holds is to be written.
ReadErr(f) ==
  /\ f # Listen /\ Event(f, "in") /\ TakeErr(fdtab[f])
  /\ Modify(f, "out")
  /\ UNCHANGED <<fdtab, reported, buf, alive>>

\* Deviation: the interest of another descriptor is changed.
WriteModOther(f) ==
  /\ f # Listen /\ Event(f, "out") /\ WriteBack(fdtab[f], buf)
  /\ \E g \in Fds : fdtab[g] # NoConn /\ Modify(g, "in")
  /\ UNCHANGED <<fdtab, reported, buf, alive>>

Write(f) ==
  /\ f # Listen /\ Event(f, "out") /\ WriteBack(fdtab[f], buf)
  /\ Modify(f, "in")
  /\ UNCHANGED <<fdtab, reported, buf, alive>>

WriteSigpipe(f) ==
  /\ f # Listen /\ Event(f, "out") /\ RaisesSigpipe(peer[fdtab[f]])
  /\ alive' = FALSE
  /\ UNCHANGED <<net, fdtab, interest, reported, buf>>

Loop ==
  /\ alive
  /\ \/ EpollWait \/ Accept \/ AcceptFail
     \/ \E f \in Fds : ReadData(f) \/ ReadEof(f) \/ ReadErr(f) \/ Write(f) \/ WriteSigpipe(f)

ClientStep(c) == Client(c) /\ UNCHANGED loop

Next == Loop \/ \E c \in Clients : ClientStep(c)

Spec == Init /\ [][Next]_vars

\* The process runs and its clients read what is sent back to them.
FairSpec ==
  Spec /\ WF_vars(Loop) /\ \A c \in Clients : WF_vars(ClientRead(c) /\ UNCHANGED loop)

-----------------------------------------------------------------------------
(* Properties. *)

\* Every variable stays in its type; what is watched is open.
TypeOK ==
  /\ NetTypeOK
  /\ fdtab \in [Fds -> Clients \cup {NoConn}]
  /\ interest \in [AllFds -> {"none", "in", "out"}]
  /\ reported \in [AllFds -> {"none", "in", "out"}]
  /\ batch \subseteq AllFds
  /\ buf \in Lines /\ alive \in BOOLEAN
  /\ \A f \in Fds : interest[f] = "none" <=> fdtab[f] = NoConn

\* The events of a batch are still true when they are handled, although
\* handling the ones before them closes descriptors, opens others under the
\* same number and changes interests: no call of the loop blocks (:78-127).
StillTrue ==
  /\ TypeOK
  /\ alive => \A f \in batch : Fires(f) /\ interest[f] = reported[f]

\* Every chunk read is answered once: a connection waits for EPOLLOUT exactly
\* when one chunk more was read than written back (:112-124), the answers
\* count even if their content is another's.
OneAnswerPerRead ==
  \A f \in Fds : fdtab[f] # NoConn /\ Reads(peer[fdtab[f]]) =>
    nread[fdtab[f]] = Len(echoed[fdtab[f]]) + (IF interest[f] = "out" THEN 1 ELSE 0)

\* Every chunk sent is answered, and so is the EOF (:101-125), accepted before
\* or after, as long as the process lives.
Answered == \A c \in Clients :
  /\ Len(echoed[c]) < nsent[c]
       ~> Len(echoed[c]) = nsent[c] \/ ~Reads(peer[c]) \/ ~alive
  /\ peer[c] = "fin" ~> server[c] = "closed" \/ ~alive
=============================================================================

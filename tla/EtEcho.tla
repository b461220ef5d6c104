------------------------------- MODULE EtEcho -------------------------------
(***************************************************************************)
(* tcp_echo_epoll_et_server.c: one process; the listening socket is level- *)
(* triggered, the connections edge-triggered and non-blocking.  An event   *)
(* is answered by reading into the program's one buffer and writing it     *)
(* back until read() says EAGAIN.  No write() is checked.                  *)
(***************************************************************************)
EXTENDS EdgeNet

VARIABLES
  wpc,       \* "next" event, "read" or "write"
  cur,       \* the descriptor the loop is at
  buf,       \* the chunk last read
  alive      \* FALSE once SIGPIPE or error_handling() ended the process

handler == <<wpc, cur, buf, alive>>
vars == <<net, edge, handler>>

Conn == fdtab[cur]

Init == EdgeInit /\ wpc = "next" /\ cur = Listen /\ buf = NoChunk /\ alive = TRUE

EpollWait == wpc = "next" /\ Report({Listen}) /\ UNCHANGED handler

Accept ==
  /\ wpc = "next" /\ Event(Listen) /\ AcceptAndAdd
  /\ UNCHANGED handler

\* accept() returns -1, for want of a descriptor say, unchecked; epoll_ctl()
\* refuses it; the program ends.
AcceptFail ==
  /\ wpc = "next" /\ Event(Listen)
  /\ alive' = FALSE
  /\ UNCHANGED <<net, fdtab, rdy, wpc, cur, buf>>

Handle(f) ==
  /\ wpc = "next" /\ f # Listen /\ Event(f)
  /\ cur' = f /\ wpc' = "read"
  /\ UNCHANGED <<net, fdtab, rdy, buf, alive>>

\* Deviation: the buffer keeps its old content.
ReadDataKept ==
  /\ wpc = "read" /\ TakeData(Conn)
  /\ wpc' = "write"
  /\ UNCHANGED <<edge, cur, buf, alive>>

ReadData ==
  /\ wpc = "read" /\ TakeData(Conn)
  /\ buf' = <<Conn, nread[Conn] + 1>>
  /\ wpc' = "write"
  /\ UNCHANGED <<edge, cur, alive>>

ReadEof ==
  /\ wpc = "read" /\ EofReady(Conn)
  /\ CloseFd(cur)
  /\ wpc' = "next"
  /\ UNCHANGED <<batch, cur, buf, alive>>

ReadAgain ==
  /\ wpc = "read" /\ ~Readable(Conn)
  /\ wpc' = "next"
  /\ UNCHANGED <<net, edge, cur, buf, alive>>

\* Another error is not told from data: the old buffer is written.
ReadErr ==
  /\ wpc = "read" /\ TakeErr(Conn)
  /\ wpc' = "write"
  /\ UNCHANGED <<edge, cur, buf, alive>>

\* A reset the write provokes wakes the descriptor again.
Woken(c) == IF peer[c] = "gone" /\ peer'[c] = "broken" THEN rdy \cup {cur} ELSE rdy

\* Deviation: one read() and write() for each event.
WriteOnce ==
  /\ wpc = "write" /\ WriteBack(Conn, buf)
  /\ rdy' = Woken(Conn)
  /\ wpc' = "next"
  /\ UNCHANGED <<fdtab, batch, cur, buf, alive>>

Write ==
  /\ wpc = "write" /\ WriteBack(Conn, buf)
  /\ rdy' = Woken(Conn)
  /\ wpc' = "read"
  /\ UNCHANGED <<fdtab, batch, cur, buf, alive>>

\* The socket's buffer is full: write() returns -1 and the chunk is lost.
WriteAgain ==
  /\ wpc = "write" /\ ~Room(Conn)
  /\ wpc' = "read"
  /\ UNCHANGED <<net, edge, cur, buf, alive>>

WriteSigpipe ==
  /\ wpc = "write" /\ RaisesSigpipe(peer[Conn])
  /\ alive' = FALSE
  /\ UNCHANGED <<net, edge, wpc, cur, buf>>

Loop ==
  /\ alive
  /\ \/ EpollWait \/ Accept \/ AcceptFail \/ \E f \in Fds : Handle(f)
     \/ ReadData \/ ReadEof \/ ReadAgain \/ ReadErr
     \/ Write \/ WriteAgain \/ WriteSigpipe

ClientStep(c) == Arrives(c, Fds) /\ UNCHANGED handler

Next == Loop \/ \E c \in Clients : ClientStep(c)

Spec == Init /\ [][Next]_vars

\* The process runs; nothing is asked of the clients: no write() waits.
FairSpec == Spec /\ WF_vars(Loop)

-----------------------------------------------------------------------------
(* Properties. *)

\* Every variable stays in its type; the loop works on an open descriptor.
TypeOK ==
  /\ EdgeTypeOK
  /\ wpc \in {"next", "read", "write"} /\ cur \in AllFds /\ alive \in BOOLEAN
  /\ buf \in Lines
  /\ wpc # "next" => cur \in Opened

\* No edge is lost: a connection with something to read, and a listening
\* socket with a connection waiting, is on the ready list, or in the batch,
\* or the loop is at it (:103 "edge-triggered, so everything is read at once").
EdgeKept ==
  /\ TypeOK
  /\ alive => \A f \in Opened \cup {Listen} : Ready(f) =>
       f \in rdy \cup batch \/ (wpc # "next" /\ cur = f)

\* Although chunks may be lost and old ones written after an error, a client
\* gets its own chunks only, in the order sent, none twice (:104-126).
OwnInOrder == \A c \in Clients :
  /\ \A k \in DOMAIN echoed[c] : echoed[c][k][1] = c /\ echoed[c][k][2] <= nread[c]
  /\ \A j, k \in DOMAIN echoed[c] : j < k => echoed[c][j][2] < echoed[c][k][2]

\* A client that shut down sees EOF, accepted before or after, while the
\* process lives: a client that does not read holds nobody up (:84-87).
EofReturned == \A c \in Clients :
  peer[c] = "fin" ~> server[c] = "closed" \/ ~alive
=============================================================================

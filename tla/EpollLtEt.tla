----------------------------- MODULE EpollLtEt -----------------------------
(***************************************************************************)
(* epoll_lt_et.c: an echo server whose connections are handled by          *)
(* lt_handler, which reads once per event, or by et_handler, which reads   *)
(* until there is nothing more.  The listening socket is edge-triggered    *)
(* under both.                                                             *)
(***************************************************************************)
EXTENDS EdgeNet

VARIABLES
  level,     \* TRUE: main calls lt_handler; FALSE: et_handler
  wpc,       \* the handler: "next" event, "read" or "write"
  cur,       \* the descriptor it is at
  alive      \* FALSE once exit(1) or SIGPIPE ended the process

handler == <<level, wpc, cur, alive>>
vars == <<net, edge, handler>>

Init ==
  /\ EdgeInit
  /\ level \in BOOLEAN /\ wpc = "next" /\ cur = Listen /\ alive = TRUE

Conn == fdtab[cur]

\* Deviation: the connections too are registered edge-triggered.
EpollWaitEdge ==
  /\ wpc = "next"
  /\ Report({})
  /\ UNCHANGED handler

EpollWait ==
  /\ wpc = "next"
  /\ Report(IF level THEN Fds ELSE {})
  /\ UNCHANGED handler

\* One connection is accepted, however many wait.
Accept ==
  /\ wpc = "next" /\ Event(Listen) /\ AcceptAndAdd
  /\ UNCHANGED handler

\* A failed accept(), for want of a descriptor say, ends the program.
AcceptFail ==
  /\ wpc = "next" /\ Event(Listen)
  /\ alive' = FALSE
  /\ UNCHANGED <<net, fdtab, rdy, level, wpc, cur>>

Handle(f) ==
  /\ wpc = "next" /\ f # Listen /\ Event(f)
  /\ cur' = f /\ wpc' = "read"
  /\ UNCHANGED <<net, fdtab, rdy, level, alive>>

ReadData ==
  /\ wpc = "read" /\ TakeData(Conn)
  /\ wpc' = "write"
  /\ UNCHANGED <<edge, level, cur, alive>>

ReadEof ==
  /\ wpc = "read" /\ EofReady(Conn)
  /\ CloseFd(cur)
  /\ wpc' = "next"
  /\ UNCHANGED <<batch, level, cur, alive>>

\* EAGAIN, on the non-blocking descriptors of et_handler.
ReadAgain ==
  /\ wpc = "read" /\ ~level /\ ~Readable(Conn)
  /\ wpc' = "next"
  /\ UNCHANGED <<net, edge, level, cur, alive>>

\* Any other error ends the program.
ReadErr ==
  /\ wpc = "read" /\ TakeErr(Conn)
  /\ alive' = FALSE
  /\ UNCHANGED <<edge, level, wpc, cur>>

\* A reset the write provokes wakes the descriptor again.
Woken(c) == IF peer[c] = "gone" /\ peer'[c] = "broken" THEN rdy \cup {cur} ELSE rdy

\* Deviation: et_handler returns after one chunk, as lt_handler does.
WriteOnce ==
  /\ wpc = "write" /\ peer[Conn] # "rst"
  /\ WriteBack(Conn, <<Conn, nread[Conn]>>)
  /\ rdy' = Woken(Conn)
  /\ wpc' = "next"
  /\ UNCHANGED <<fdtab, batch, level, cur, alive>>

Write ==
  /\ wpc = "write" /\ peer[Conn] # "rst"
  /\ WriteBack(Conn, <<Conn, nread[Conn]>>)
  /\ rdy' = Woken(Conn)
  /\ wpc' = IF level THEN "next" ELSE "read"
  /\ UNCHANGED <<fdtab, batch, level, cur, alive>>

\* Deviation: a write() that would block is passed over.
WriteSkips ==
  /\ wpc = "write"
  /\ peer[Conn] \in {"rst", "broken"} \/ (~level /\ ~Room(Conn))
  /\ wpc' = "read"
  /\ UNCHANGED <<net, edge, level, cur, alive>>

\* A reset connection, or a buffer that is full and does not block, ends the
\* program.
WriteFails ==
  /\ wpc = "write"
  /\ peer[Conn] \in {"rst", "broken"} \/ (~level /\ ~Room(Conn))
  /\ alive' = FALSE
  /\ UNCHANGED <<net, edge, level, wpc, cur>>

Loop ==
  /\ alive
  /\ \/ EpollWait \/ Accept \/ AcceptFail \/ \E f \in Fds : Handle(f)
     \/ ReadData \/ ReadEof \/ ReadAgain \/ ReadErr
     \/ Write \/ WriteFails

ClientStep(c) == Arrives(c, Fds) /\ UNCHANGED handler

Next == Loop \/ \E c \in Clients : ClientStep(c)

Spec == Init /\ [][Next]_vars

\* The process runs, and its clients read what is sent back to them.
FairSpec ==
  /\ Spec /\ WF_vars(Loop)
  /\ \A c \in Clients : WF_vars(ClientRead(c) /\ UNCHANGED <<edge, handler>>)

-----------------------------------------------------------------------------
(* Properties. *)

\* Every variable stays in its type; the handler works on an open descriptor.
TypeOK ==
  /\ EdgeTypeOK
  /\ level \in BOOLEAN /\ alive \in BOOLEAN
  /\ wpc \in {"next", "read", "write"} /\ cur \in AllFds
  /\ wpc # "next" => cur \in Opened

\* No edge is lost: a connection with something to read is on the ready list,
\* or its event waits in the batch, or the handler is at it (:129 "the
\* event fires only once, so all data must be read").  And an event of the
\* batch is true when it is handled, also with descriptors closed and handed
\* out again in the same batch (:98-167).
EdgeKept ==
  /\ TypeOK
  /\ alive => \A f \in Opened : Ready(f) =>
       f \in rdy \cup batch \/ (wpc # "next" /\ cur = f)
  /\ alive => \A f \in batch : f \in {Listen} \cup Opened /\ Ready(f)

\* While it runs, the server is an echo service under either handler.
EchoSpec == Echo!SSpec

\* What an accepted client sends comes back and its EOF is answered, as long
\* as the process lives.
Answered == \A c \in Clients :
  /\ server[c] = "open" /\ Len(echoed[c]) < nsent[c]
       ~> Len(echoed[c]) = nsent[c] \/ ~Reads(peer[c]) \/ ~alive
  /\ server[c] = "open" /\ peer[c] = "fin" ~> server[c] = "closed" \/ ~alive
=============================================================================

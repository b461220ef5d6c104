----------------------------- MODULE StoreEcho -----------------------------
(***************************************************************************)
(* tcp_echo_store_server.c: before it serves, the parent forks a storer    *)
(* that copies a pipe to a file; then it forks a child for each connection, *)
(* which writes every chunk to the pipe and then back to its client.       *)
(* There is no SIGCHLD handler: an exited child stays a zombie.            *)
(*                                                                         *)
(* Neither pipe() nor the first fork() is looked at (:54-55): the server   *)
(* goes on with no pipe or no storer.  With no pipe fds holds what was on  *)
(* the stack, which is taken for the numbers of no descriptor.             *)
(***************************************************************************)
EXTENDS EchoNet

CONSTANTS
  PipeCap,       \* chunks the pipe holds before write() blocks
  ForkMayFail,   \* fork() may return -1
  PipeMayFail,   \* pipe() may return -1
  FileMayFill    \* a write() to the file may fail or be short

ASSUME StoreAssumption ==
  /\ PipeCap \in Nat \ {0}
  /\ ForkMayFail \in BOOLEAN /\ PipeMayFail \in BOOLEAN /\ FileMayFill \in BOOLEAN

VARIABLES
  ppc, clnt,     \* parent: "accept", "fork" or "close"; clnt_socket
  cpc,           \* children
  parentHas,     \* connections of which the parent has a descriptor
  made, pipe,    \* whether pipe() made the pipe; what is in it
  spc, message,  \* storer: "none", "read" or "write"; what it read
  kept,          \* /tmp/message_in.txt is there (open() has no O_CREAT) and
                 \* every write() to it has taken everything
  file           \* what was written to it, followed as long as that is so

proc == <<ppc, clnt, cpc, parentHas>>
store == <<made, pipe, spc, message, kept, file>>
vars == <<net, proc, store>>

CPcs == {"none", "read", "pipe", "echo", "close", "zombie"}

Init ==
  /\ NetInit
  /\ ppc = "accept" /\ clnt = NoConn
  /\ cpc = [c \in Clients |-> "none"] /\ parentHas = {}
  /\ made \in {TRUE, ~PipeMayFail} /\ pipe = <<>>
  /\ spc \in {"read"} \cup (IF ForkMayFail THEN {"none"} ELSE {}) /\ message = <<>>
  /\ kept \in BOOLEAN /\ file = <<>>

-----------------------------------------------------------------------------
(* The parent. *)

\* An accept() of -1 is tried again: no change of state.
Accept ==
  /\ ppc = "accept"
  /\ \E c \in Clients :
       Accepted(c) /\ clnt' = c /\ parentHas' = parentHas \cup {c}
  /\ ppc' = "fork"
  /\ UNCHANGED <<cpc, store>>

Fork ==
  /\ ppc = "fork"
  /\ cpc' = [cpc EXCEPT ![clnt] = "read"]
  /\ ppc' = "close"
  /\ UNCHANGED <<net, clnt, parentHas, store>>

\* A fork() of -1 is taken for the parent's side: the connection is closed.
ForkFails ==
  /\ ForkMayFail /\ ppc = "fork"
  /\ ppc' = "close"
  /\ UNCHANGED <<net, clnt, cpc, parentHas, store>>

ChildHas(c) == cpc[c] \notin {"none", "zombie"}

\* What clnt_socket still holds is not used again.
ParentClose ==
  /\ ppc = "close"
  /\ parentHas' = parentHas \ {clnt}
  /\ server' = IF ChildHas(clnt) THEN server ELSE [server EXCEPT ![clnt] = "closed"]
  /\ ppc' = "accept" /\ clnt' = NoConn
  /\ UNCHANGED <<peer, nsent, nread, echoed, got, backlog, cpc, store>>

-----------------------------------------------------------------------------
(* A child. *)

Goto(c, from, to) == cpc[c] = from /\ cpc' = [cpc EXCEPT ![c] = to]
Others == <<ppc, clnt, parentHas>>

ChildRead(c) ==
  /\ Goto(c, "read", "pipe") /\ TakeData(c)
  /\ UNCHANGED <<Others, store>>

\* read() returns -1; both write() calls with that length fail as well.
ChildErr(c) ==
  /\ cpc[c] = "read" /\ TakeErr(c)
  /\ UNCHANGED <<proc, store>>

\* Deviation: the hang-up is taken before the data.
ChildEofEarly(c) ==
  /\ Goto(c, "read", "close") /\ AtEof(peer[c])
  /\ UNCHANGED <<net, Others, store>>

ChildEof(c) ==
  /\ Goto(c, "read", "close") /\ EofReady(c)
  /\ UNCHANGED <<net, Others, store>>

\* Deviation: the client is answered and the pipe left out.
ChildPipeNone(c) ==
  /\ Goto(c, "pipe", "echo")
  /\ UNCHANGED <<net, Others, store>>

\* Every process has the pipe's read end open: a full pipe blocks for ever when
\* there is no storer, and SIGPIPE is never raised.  With no pipe write() fails.
ChildPipe(c) ==
  /\ Goto(c, "pipe", "echo")
  /\ \/ ~made /\ UNCHANGED pipe
     \/ made /\ Len(pipe) < PipeCap /\ pipe' = Append(pipe, <<c, nread[c]>>)
  /\ UNCHANGED <<net, Others, made, spc, message, kept, file>>

ChildEcho(c) ==
  /\ Goto(c, "echo", "read") /\ WriteBack(c, <<c, nread[c]>>)
  /\ UNCHANGED <<Others, store>>

\* The child returns, or dies of SIGPIPE.
ChildExit(c) ==
  /\ \/ Goto(c, "close", "zombie")
     \/ RaisesSigpipe(peer[c]) /\ Goto(c, "echo", "zombie")
  /\ server' = IF c \in parentHas THEN server ELSE [server EXCEPT ![c] = "closed"]
  /\ UNCHANGED <<peer, nsent, nread, echoed, got, backlog, Others, store>>

-----------------------------------------------------------------------------
(* The storer; with no pipe its read() fails for ever. *)

StorerRead ==
  /\ spc = "read" /\ pipe # <<>>
  /\ \E n \in 1..Len(pipe) :
       message' = SubSeq(pipe, 1, n) /\ pipe' = SubSeq(pipe, n + 1, Len(pipe))
  /\ spc' = "write"
  /\ UNCHANGED <<net, proc, made, kept, file>>

\* Deviation: the last chunk read is written short.
StorerWriteShort ==
  /\ spc = "write"
  /\ file' = file \o SubSeq(message, 1, 1)
  /\ spc' = "read" /\ message' = <<>>
  /\ UNCHANGED <<net, proc, made, pipe, kept>>

\* With no file the descriptor is -1 and write() fails; what it returns is only
\* printed, also when it is less than was to be written.
StorerWrite ==
  /\ spc = "write"
  /\ \/ ~kept /\ UNCHANGED <<kept, file>>
     \/ kept /\ file' = file \o message /\ UNCHANGED kept
     \/ kept /\ FileMayFill /\ kept' = FALSE /\ file' = <<>>
  /\ spc' = "read" /\ message' = <<>>
  /\ UNCHANGED <<net, proc, made, pipe>>

-----------------------------------------------------------------------------
ParentStep == Accept \/ Fork \/ ForkFails \/ ParentClose
Child(c) ==
  \/ ChildRead(c) \/ ChildErr(c) \/ ChildEof(c)
  \/ ChildPipe(c) \/ ChildEcho(c) \/ ChildExit(c)
Storer == StorerRead \/ StorerWrite

ClientStep(c) == Client(c) /\ UNCHANGED <<proc, store>>

Next ==
  \/ ParentStep \/ Storer
  \/ \E c \in Clients : Child(c) \/ ClientStep(c)

Spec == Init /\ [][Next]_vars

\* Every process is scheduled; nothing is asked of the clients.
FairSpec ==
  /\ Spec /\ WF_vars(ParentStep) /\ WF_vars(Storer)
  /\ \A c \in Clients : WF_vars(Child(c))

-----------------------------------------------------------------------------
(* Properties. *)

\* Every variable stays in its type; a connection is open as long as a
\* process has a descriptor of it.
TypeOK ==
  /\ NetTypeOK
  /\ ppc \in {"accept", "fork", "close"}
  /\ clnt \in Clients \cup {NoConn} /\ (clnt = NoConn <=> ppc = "accept")
  /\ cpc \in [Clients -> CPcs] /\ parentHas \subseteq Clients
  /\ pipe \in Seq(Chunks) /\ message \in Seq(Chunks) /\ file \in Seq(Chunks)
  /\ spc \in {"none", "read", "write"}
  /\ made \in BOOLEAN /\ kept \in BOOLEAN
  /\ \A c \in Clients : server[c] = "open" <=> ChildHas(c) \/ c \in parentHas

\* What went into the pipe, in that order: in the file, the storer's buffer and
\* the pipe together; and how many chunks of c should have.
Log == file \o message \o pipe
Piped(c) == nread[c] - (IF cpc[c] = "pipe" THEN 1 ELSE 0)

\* The log has the chunks 1, 2, ... of c, once each and in order, and what was
\* sent back is among them.
Logged(c) ==
  /\ \A i \in DOMAIN Log : Log[i][1] = c => Log[i][2] \in 1..Piped(c)
  /\ \A k \in 1..Piped(c) : \E i \in DOMAIN Log : Log[i] = <<c, k>>
  /\ \A i, j \in DOMAIN Log :
       i < j /\ Log[i][1] = c /\ Log[j][1] = c => Log[i][2] < Log[j][2]
  /\ Len(echoed[c]) <= Piped(c)

Whole == made /\ kept

\* What the children of different clients put into the one pipe never gets
\* lost, doubled or out of order on its way to the file, if both are there and
\* the file takes it, and a chunk is on that way before it is sent back
\* (:63-98), a storer or none.
LoggedFirst == TypeOK /\ (Whole => \A c \in Clients : Logged(c))

\* The server is an echo service all the same (:1).
EchoSpec == Echo!SSpec

Of(c, s) == SelectSeq(s, LAMBDA m : m[1] = c)

\* What is read from a client ends up in the file (:1 "the clients' messages
\* are saved by a child"), whether or not the clients read, if the pipe, the
\* storer and the file are there and the file takes it (:54-55, :61, :70).
Saved == made /\ spc # "none" => \A c \in Clients :
  Len(Of(c, file)) < nread[c] ~> Len(Of(c, file)) = nread[c] \/ ~kept
=============================================================================

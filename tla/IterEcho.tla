------------------------------ MODULE IterEcho ------------------------------
(***************************************************************************)
(* tcp_echo_server.c and tcp_echo_stdsvr.c: one connection after another,  *)
(* five in all.  The first reads and writes the descriptor until read() is *)
(* not positive; each write() sends the whole buffer, whatever was read    *)
(* into it.  The second uses fgets() and fputs(): a chunk is what fgets()  *)
(* returns, and the loop looks at feof() before it reads.                  *)
(* tcp_echo_client.c is a client of EchoNet that never has more than one   *)
(* question open and leaves with close(), Kill.                            *)
(*                                                                         *)
(* The buffer is the chunk at its front, line, and the pieces of older     *)
(* ones that are longer, rest.  The 0 that :62 puts into its second byte   *)
(* is not told from the piece that is there.                               *)
(***************************************************************************)
EXTENDS EchoNet, Programs

CONSTANT MaxAccepts    \* the length of the accept loop, 5 in the code

ASSUME IterAssumption == MaxAccepts \in Nat

VARIABLES
  ipc,        \* "accept", "read", "write", "close", "done" or "dead"
  cur,        \* the connection being served
  line,       \* what message begins with, kept from one connection to the next
  rest,       \* what shows behind it, from front to back (the newest first)
  behind,     \* history: client -> what was behind each of its answers
  eof,        \* feof(rfp)
  accepts     \* i of the accept loop

iter == <<ipc, cur, line, rest, behind, eof, accepts>>

Stdio == program = "tcp_echo_stdsvr"

IterFresh ==
  /\ NetInit
  /\ ipc = "accept" /\ cur = NoConn /\ eof = FALSE /\ accepts = 0
  /\ line = NoChunk /\ rest = <<>> /\ behind = [c \in Clients |-> <<>>]

IterPrograms == {"tcp_echo_server", "tcp_echo_stdsvr"}
IterInit == program \in IterPrograms /\ IterFresh

AcceptNext(c) ==
  /\ ipc = "accept" /\ accepts < MaxAccepts /\ Accepted(c)
  /\ cur' = c /\ eof' = FALSE /\ accepts' = accepts + 1
  /\ ipc' = "read"
  /\ UNCHANGED <<line, rest, behind>>

\* A failed accept() ends the program.
AcceptFails ==
  /\ ipc = "accept" /\ accepts < MaxAccepts /\ backlog # <<>>
  /\ ipc' = "dead"
  /\ UNCHANGED <<net, cur, line, rest, behind, eof, accepts>>

\* What shows behind the next chunk: it covers every piece it is as long as.
Uncovered == LET old == <<line>> \o rest IN
  {SubSeq(old, n, Len(old)) : n \in 1..(Len(old) + 1)}

\* Deviation: the second program reads with read(), which puts no 0 behind.
ReadChunkRaw ==
  /\ ipc = "read" /\ TakeData(cur)
  /\ line' = <<cur, nread[cur] + 1>> /\ rest' \in Uncovered
  /\ eof' = FALSE /\ ipc' = "write"
  /\ UNCHANGED <<cur, behind, accepts>>

\* fgets() meets the end of the input already with a last line that has no
\* newline; it ends what it read with a 0, where fputs() stops.
ReadChunk ==
  /\ ipc = "read" /\ TakeData(cur)
  /\ line' = <<cur, nread[cur] + 1>>
  /\ rest' \in IF Stdio THEN {<<>>} ELSE Uncovered
  /\ eof' \in IF Stdio /\ nread[cur] + 1 = nsent[cur] /\ AtEof(peer[cur])
              THEN BOOLEAN ELSE {FALSE}
  /\ ipc' = "write"
  /\ UNCHANGED <<cur, behind, accepts>>

\* Deviation: the end of the input is not noticed at an empty line.
ReadEndUnseen ==
  /\ ipc = "read" /\ EofReady(cur)
  /\ ipc' = IF Stdio THEN "write" ELSE "close"
  /\ UNCHANGED <<net, cur, line, rest, behind, eof, accepts>>

\* Deviation: read() of the first program is compared with >= 0.
ReadEndWritten ==
  /\ ipc = "read" /\ EofReady(cur)
  /\ eof' = Stdio /\ ipc' = "write"
  /\ UNCHANGED <<net, cur, line, rest, behind, accepts>>

\* fgets() returns NULL and leaves message as it was; it is written all the
\* same.
ReadEnd ==
  /\ ipc = "read" /\ EofReady(cur)
  /\ eof' = Stdio
  /\ ipc' = IF Stdio THEN "write" ELSE "close"
  /\ UNCHANGED <<net, cur, line, rest, behind, accepts>>

\* An error does not set feof().
ReadFails ==
  /\ ipc = "read" /\ TakeErr(cur)
  /\ ipc' = IF Stdio THEN "write" ELSE "close"
  /\ UNCHANGED <<cur, line, rest, behind, eof, accepts>>

\* The whole buffer is sent.
WriteAll ==
  /\ WriteBack(cur, line)
  /\ behind' = [behind EXCEPT ![cur] = IF Reads(peer[cur]) THEN Append(@, rest) ELSE @]

\* Deviation: the loop of the second program ends with the connection only.
WriteLineOn ==
  /\ ipc = "write" /\ WriteAll
  /\ ipc' = "read"
  /\ UNCHANGED <<cur, line, rest, eof, accepts>>

WriteLine ==
  /\ ipc = "write" /\ WriteAll
  /\ ipc' = IF eof THEN "close" ELSE "read"
  /\ UNCHANGED <<cur, line, rest, eof, accepts>>

\* What is not initialized may begin with its end: nothing to write.
WriteNothing ==
  /\ ipc = "write" /\ line = NoChunk
  /\ ipc' = IF eof THEN "close" ELSE "read"
  /\ UNCHANGED <<net, cur, line, rest, behind, eof, accepts>>

WriteDies ==
  /\ ipc = "write" /\ RaisesSigpipe(peer[cur])
  /\ ipc' = "dead"
  /\ UNCHANGED <<net, cur, line, rest, behind, eof, accepts>>

\* The second fclose() finds the descriptor closed.
CloseCur ==
  /\ ipc = "close" /\ Released(cur)
  /\ ipc' = IF accepts < MaxAccepts THEN "accept" ELSE "done"
  /\ UNCHANGED <<peer, nsent, nread, echoed, got, backlog, cur, line, rest, behind, eof, accepts>>

IterServer ==
  \/ \E c \in Clients : AcceptNext(c)
  \/ AcceptFails \/ ReadChunk \/ ReadEnd \/ ReadFails
  \/ WriteLine \/ WriteNothing \/ WriteDies \/ CloseCur

IterClient(c) == Client(c) /\ UNCHANGED iter

IterNext ==
  program \in IterPrograms /\ (IterServer \/ \E c \in Clients : IterClient(c))

IterSpec == IterInit /\ [][IterNext /\ UNCHANGED program]_<<net, iter, program>>

\* The server runs; a client reads and, in the end, says so (types q).
IterFair ==
  /\ WF_<<net, iter>>(program \in IterPrograms /\ IterServer)
  /\ \A c \in Clients :
       /\ WF_<<net, iter>>(program \in IterPrograms /\ ClientRead(c) /\ UNCHANGED iter)
       /\ WF_<<net, iter>>(program \in IterPrograms /\ Shutdown(c) /\ UNCHANGED iter)

-----------------------------------------------------------------------------
(* Properties. *)

\* Every variable stays in its type; the connection served is open.
IterTypeOK ==
  /\ NetTypeOK /\ ipc \in {"accept", "read", "write", "close", "done", "dead"}
  /\ cur \in Clients \cup {NoConn} /\ line \in Lines /\ rest \in Seq(Lines)
  /\ behind \in [Clients -> Seq(Seq(Lines))]
  /\ \A c \in Clients : Len(behind[c]) = Len(echoed[c])
  /\ eof \in BOOLEAN /\ accepts \in 0..MaxAccepts
  /\ ipc # "dead" =>
       {c \in Clients : server[c] = "open"} = IF ipc \in {"accept", "done"} THEN {} ELSE {cur}

Own(c, n) == \A k \in 1..n : echoed[c][k] = <<c, k>>

\* What is behind the n-th answer to c: nothing with the stdio server, else
\* pieces of c's chunks before the n-th, of the chunks of clients that were
\* closed, or of what the buffer held at the start.
Leftover(c, n) ==
  IF Stdio THEN behind[c][n] = <<>>
  ELSE \A i \in DOMAIN behind[c][n] : LET x == behind[c][n][i] IN
         \/ x = NoChunk
         \/ x[1] = c /\ x[2] \in 1..(n - 1)
         \/ x[1] \in Clients \ {c} /\ server[x[1]] = "closed"

\* The answers to a client begin with its own chunks in order, each once; only
\* the stdio server adds one line, at the end of a client's input: the
\* client's last line again or, to one that sent nothing, what another
\* connection left in the buffer (tcp_echo_stdsvr.c:62-68).  The first server
\* adds to every answer what is left in the buffer, which is never anything
\* of a client that waits (tcp_echo_server.c:59-63).
OncePlusLast ==
  /\ IterTypeOK
  /\ \A c \in Clients : LET n == Len(echoed[c]) IN
       \/ Own(c, n)
       \/ /\ Stdio /\ peer[c] # "up" /\ n = nsent[c] + 1 /\ Own(c, n - 1)
          /\ echoed[c][n] = <<c, n - 1>> \/ (n = 1 /\ echoed[c][n][1] # c)
  /\ \A c \in Clients : \A n \in DOMAIN behind[c] : Leftover(c, n)

\* The first program as an echo service that pads its answers.
Padded == INSTANCE PaddedService WITH
  Blank <- NoChunk, sent <- nsent,
  fin <- [c \in Clients |-> peer[c] \notin {"idle", "up"}],
  away <- [c \in Clients |-> peer[c] \in {"gone", "rst", "broken"}],
  closed <- [c \in Clients |-> server[c] = "closed"]

\* The first program is no echo service, since it sends more than it was sent;
\* it is one that pads its answers with stale bytes, to one client after
\* another, and closes a connection only when the client has an answer to all
\* it sent or went away (tcp_echo_server.c:50-66).
EchoOfTurns ==
  /\ program = "tcp_echo_server" => Padded!PInit
  /\ [][program = "tcp_echo_server" => Padded!PNext]_(Padded!pvars)

\* A client waits for those before it, but not for ever: once connected it is
\* served to its end, unless five were or the server ended
\* (tcp_echo_server.c:50-66).
ServedInTurn == \A c \in Clients :
  peer[c] # "idle" ~> server[c] = "closed" \/ ipc \in {"done", "dead"}
=============================================================================

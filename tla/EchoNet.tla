------------------------------ MODULE EchoNet ------------------------------
(***************************************************************************)
(* The clients of the echo servers, as tcp_echo_multi_proc_client.c runs   *)
(* them (a writer that ends with shutdown(), a reader that goes on until   *)
(* EOF), and the kernel's buffers between them and a server.  A client is  *)
(* one connection; a chunk is what one read() returns, <<c, k>> being the  *)
(* k-th chunk of client c.                                                 *)
(***************************************************************************)
EXTENDS Naturals, Sequences, Tcp

CONSTANTS
  Clients,
  NoConn,     \* no connection
  MaxMsgs,    \* bound: chunks a client sends
  SndBuf,     \* chunks a socket buffers before write() blocks
  MayKill     \* client processes may exit at any time

ASSUME EchoAssumption ==
  NoConn \notin Clients /\ MaxMsgs \in Nat /\ SndBuf \in Nat \ {0} /\ MayKill \in BOOLEAN

VARIABLES
  peer,      \* state of each connection (Tcp)
  nsent,     \* chunks each client has sent
  nread,     \* chunks the server has read from it
  echoed,    \* chunks written back to it
  got,       \* how many of them it has read
  backlog,   \* completed connections not yet accepted
  server     \* the server's side: "new", "open" or "closed"

net == <<peer, nsent, nread, echoed, got, backlog, server>>

Chunks == Clients \X Nat

\* What a server may write: a chunk, or a buffer nothing was read into yet.
NoChunk == <<NoConn, 0>>
Lines == Chunks \cup {NoChunk}

NetInit ==
  /\ peer = [c \in Clients |-> "idle"]
  /\ nsent = [c \in Clients |-> 0] /\ nread = [c \in Clients |-> 0]
  /\ echoed = [c \in Clients |-> <<>>] /\ got = [c \in Clients |-> 0]
  /\ backlog = <<>> /\ server = [c \in Clients |-> "new"]

Connect(c) ==
  /\ peer[c] = "idle"
  /\ peer' = [peer EXCEPT ![c] = "up"]
  /\ backlog' = Append(backlog, c)
  /\ UNCHANGED <<nsent, nread, echoed, got, server>>

ClientWrite(c) ==
  /\ peer[c] = "up" /\ server[c] # "closed" /\ nsent[c] < MaxMsgs
  /\ nsent' = [nsent EXCEPT ![c] = @ + 1]
  /\ UNCHANGED <<peer, nread, echoed, got, backlog, server>>

Shutdown(c) ==
  /\ peer[c] = "up" /\ server[c] # "closed"
  /\ peer' = [peer EXCEPT ![c] = "fin"]
  /\ UNCHANGED <<nsent, nread, echoed, got, backlog, server>>

Kill(c) ==
  /\ MayKill /\ Reads(peer[c]) /\ server[c] # "closed"
  /\ peer' = [peer EXCEPT ![c] = CloseBy(peer[c], got[c] < Len(echoed[c]))]
  /\ UNCHANGED <<nsent, nread, echoed, got, backlog, server>>

\* The reader takes what is buffered.
ClientRead(c) ==
  /\ Reads(peer[c]) /\ got[c] < Len(echoed[c])
  /\ got' = [got EXCEPT ![c] = Len(echoed[c])]
  /\ UNCHANGED <<peer, nsent, nread, echoed, backlog, server>>

Client(c) == Connect(c) \/ ClientWrite(c) \/ Shutdown(c) \/ Kill(c) \/ ClientRead(c)

-----------------------------------------------------------------------------
(* What a server's calls do to a connection. *)

DataReady(c) == nread[c] < nsent[c]
EofReady(c)  == nread[c] = nsent[c] /\ AtEof(peer[c])
ErrReady(c)  == nread[c] = nsent[c] /\ peer[c] = "rst"
Readable(c)  == DataReady(c) \/ EofReady(c) \/ ErrReady(c)

Accepted(c) ==
  /\ backlog # <<>> /\ c = Head(backlog)
  /\ backlog' = Tail(backlog)
  /\ server' = [server EXCEPT ![c] = "open"]
  /\ UNCHANGED <<peer, nsent, nread, echoed, got>>

TakeData(c) ==
  /\ DataReady(c)
  /\ nread' = [nread EXCEPT ![c] = @ + 1]
  /\ UNCHANGED <<peer, nsent, echoed, got, backlog, server>>

TakeErr(c) ==
  /\ ErrReady(c)
  /\ peer' = [peer EXCEPT ![c] = "broken"]
  /\ UNCHANGED <<nsent, nread, echoed, got, backlog, server>>

\* write() waits while a live peer's buffer is full.
Room(c) == Reads(peer[c]) => Len(echoed[c]) - got[c] < SndBuf

WriteBack(c, chunk) ==
  /\ Room(c) /\ ~RaisesSigpipe(peer[c])
  /\ \E p \in AfterWrite(peer[c]) : peer' = [peer EXCEPT ![c] = p]
  /\ echoed' = [echoed EXCEPT ![c] = IF Reads(peer[c]) THEN Append(@, chunk) ELSE @]
  /\ UNCHANGED <<nsent, nread, got, backlog, server>>

\* The last descriptor of the connection is closed.
Released(c) == server' = [server EXCEPT ![c] = "closed"]

-----------------------------------------------------------------------------
NetTypeOK ==
  /\ peer \in [Clients -> PeerStates]
  /\ nsent \in [Clients -> Nat] /\ nread \in [Clients -> Nat]
  /\ echoed \in [Clients -> Seq(Lines)] /\ got \in [Clients -> Nat]
  /\ backlog \in Seq(Clients)
  /\ server \in [Clients -> {"new", "open", "closed"}]

\* The promise of an echo server, in terms of this state.
Echo == INSTANCE EchoService WITH
  sent <- nsent,
  fin <- [c \in Clients |-> peer[c] \notin {"idle", "up"}],
  away <- [c \in Clients |-> peer[c] \in {"gone", "rst", "broken"}],
  closed <- [c \in Clients |-> server[c] = "closed"]
=============================================================================

------------------------------ MODULE Transfer ------------------------------
(***************************************************************************)
(* One side sends all it has, ends its direction and then wants a farewell *)
(* the other sends when it has seen the end: file_server.c with            *)
(* file_client.c, sep_serv.c and sep_serv2.c with sep_client.c; sendfile.c *)
(* sends and does not listen, nor does hello_server.c, whose client        *)
(* hello_client.c reads once.  They end their direction in different ways: *)
(* shutdown(), shutdown() and fclose() of a duplicate, fclose() of the     *)
(* only descriptor, close().  Each end sees the other as a peer of Tcp.    *)
(***************************************************************************)
EXTENDS Naturals, Tcp, Programs

CONSTANTS
  MaxFile,     \* bound: pieces in the file
  SendCap,     \* pieces in the 1024 bytes of sendfile()
  SockBuf,     \* pieces a socket buffers before write() blocks
  MayDie       \* either process may be killed at any time

ASSUME TransferAssumption ==
  MaxFile \in Nat /\ SendCap \in Nat /\ SockBuf \in Nat \ {0} /\ MayDie \in BOOLEAN

VARIABLES
  spc,         \* server: "open", "send", "end", "hear", "close", "done", "dead"
  cpc,         \* client: "read", "thank", "close", "done", "dead"
  file,        \* pieces the server has to send
  sent, got,   \* pieces written, pieces read
  client,      \* the client as the server sees it
  serv,        \* the server as the client sees it
  sfds,        \* descriptors of the connection the server holds
  thanks       \* the farewell: "none", "flight", "heard" or "refused"

xfer == <<spc, cpc, file, sent, got, client, serv, sfds, thanks>>

XferPrograms == {"file_server", "sep_serv", "sep_serv2", "sendfile", "hello_server"}
OnePiece == program \in {"sep_serv", "sep_serv2", "hello_server"}

XferFresh ==
  /\ spc = "open" /\ cpc = "read" /\ file = 0 /\ sent = 0 /\ got = 0
  /\ client = "up" /\ serv = "up" /\ sfds = 1 /\ thanks = "none"

XferInit == program \in XferPrograms /\ XferFresh

IsReset(p) == p \in {"rst", "broken"}

\* One piece for the lines of sep_serv.c, which one fflush() writes.
Planned == IF program = "sendfile" /\ file > SendCap THEN SendCap ELSE file

\* The server's last descriptor of the connection is closed.
ServerLeaves == serv' = CloseBy(serv, thanks = "flight") /\ sfds' = 0

-----------------------------------------------------------------------------
(* The server. *)

\* fdopen(), with a dup() in sep_serv2.c, or fopen().
Open ==
  /\ spc = "open"
  /\ file' \in IF OnePiece THEN {1} ELSE 0..MaxFile
  /\ sfds' = IF program = "sep_serv2" THEN 2 ELSE 1
  /\ spc' = "send"
  /\ UNCHANGED <<cpc, sent, got, client, serv, thanks>>

\* No such file: fread() of a null pointer, exit(1) in sendfile.c.
OpenFails ==
  /\ spc = "open" /\ program \in {"file_server", "sendfile"}
  /\ spc' = "dead" /\ ServerLeaves
  /\ UNCHANGED <<cpc, file, sent, got, client, thanks>>

\* An error ends sendfile(); the others do not look at what write() returns.
SendPiece ==
  /\ spc = "send" /\ sent < Planned
  /\ Reads(client) => sent - got < SockBuf
  /\ ~RaisesSigpipe(client)
  /\ client' \in AfterWrite(client)
  /\ sent' = sent + 1
  /\ spc' = IF program = "sendfile" /\ IsReset(client) THEN "end" ELSE "send"
  /\ UNCHANGED <<cpc, file, got, serv, sfds, thanks>>

SendDies ==
  /\ spc = "send" /\ sent < Planned /\ RaisesSigpipe(client)
  /\ spc' = "dead" /\ ServerLeaves
  /\ UNCHANGED <<cpc, file, sent, got, client, thanks>>

\* Deviation: a piece that does not fill the buffer is not written.
SendEndShort ==
  /\ spc = "send" /\ sent + 1 >= Planned
  /\ spc' = "end"
  /\ UNCHANGED <<cpc, file, sent, got, client, serv, sfds, thanks>>

SendEnd ==
  /\ spc = "send" /\ sent = Planned
  /\ spc' = "end"
  /\ UNCHANGED <<cpc, file, sent, got, client, serv, sfds, thanks>>

\* Deviation: no shutdown(), only the duplicate is closed.
HalfCloseNone ==
  /\ spc = "end" /\ program \in {"file_server", "sep_serv2"}
  /\ sfds' = 1
  /\ spc' = "hear"
  /\ UNCHANGED <<cpc, file, sent, got, client, serv, thanks>>

\* shutdown() of a connection that was reset fails, which file_server.c looks
\* at.
HalfClose ==
  /\ spc = "end" /\ program \in {"file_server", "sep_serv2"}
  /\ IF program = "file_server" /\ IsReset(client)
     THEN spc' = "dead" /\ ServerLeaves
     ELSE spc' = "hear" /\ serv' = "fin" /\ sfds' = 1
  /\ UNCHANGED <<cpc, file, sent, got, client, thanks>>

FullClose ==
  /\ spc = "end" /\ program \in {"sep_serv", "sendfile", "hello_server"}
  /\ ServerLeaves
  /\ spc' = IF program = "sep_serv" THEN "hear" ELSE "done"
  /\ UNCHANGED <<cpc, file, sent, got, client, thanks>>

\* Deviation: the stream is closed before anything is read from it.
HearNothing ==
  /\ spc = "hear"
  /\ spc' = "close"
  /\ UNCHANGED <<cpc, file, sent, got, client, serv, sfds, thanks>>

\* read() takes the farewell as it comes, fgets() waits for the end of its
\* line, which is that of the input.  The descriptor of sep_serv.c is closed.
Hear ==
  /\ spc = "hear"
  /\ \/ sfds = 0 /\ UNCHANGED <<client, thanks>>
     \/ /\ sfds > 0 /\ thanks = "flight"
        /\ program = "file_server" \/ AtEof(client) \/ IsReset(client)
        /\ thanks' = "heard" /\ UNCHANGED client
     \/ /\ sfds > 0 /\ thanks # "flight"
        /\ AtEof(client) \/ IsReset(client)
        /\ client' = IF client = "rst" THEN "broken" ELSE client
        /\ UNCHANGED thanks
  /\ spc' = "close"
  /\ UNCHANGED <<cpc, file, sent, got, serv, sfds>>

CloseServer ==
  /\ spc = "close"
  /\ IF sfds > 0 THEN ServerLeaves ELSE UNCHANGED <<serv, sfds>>
  /\ spc' = "done"
  /\ UNCHANGED <<cpc, file, sent, got, client, thanks>>

KillServer ==
  /\ MayDie /\ spc \notin {"done", "dead"}
  /\ spc' = "dead" /\ ServerLeaves
  /\ UNCHANGED <<cpc, file, sent, got, client, thanks>>

-----------------------------------------------------------------------------
(* The client. *)

ReadPiece ==
  /\ cpc = "read" /\ got < sent
  /\ got' = got + 1
  /\ cpc' = IF program = "hello_server" THEN "close" ELSE "read"
  /\ UNCHANGED <<spc, file, sent, client, serv, sfds, thanks>>

ReadPiecesEnd ==
  /\ cpc = "read" /\ got = sent /\ AtEof(serv)
  /\ cpc' = IF program = "hello_server" THEN "close" ELSE "thank"
  /\ UNCHANGED <<spc, file, sent, got, client, serv, sfds, thanks>>

Thank ==
  /\ cpc = "thank"
  /\ thanks' = IF Reads(serv) THEN "flight" ELSE "refused"
  /\ serv' \in AfterWrite(serv)
  /\ cpc' = "close"
  /\ UNCHANGED <<spc, file, sent, got, client, sfds>>

CloseClient ==
  /\ cpc = "close"
  /\ client' = CloseBy(client, got < sent)
  /\ cpc' = "done"
  /\ UNCHANGED <<spc, file, sent, got, serv, sfds, thanks>>

KillClient ==
  /\ MayDie /\ cpc \notin {"done", "dead"}
  /\ client' = CloseBy(client, got < sent)
  /\ cpc' = "dead"
  /\ UNCHANGED <<spc, file, sent, got, serv, sfds, thanks>>

Sender ==
  \/ Open \/ OpenFails \/ SendPiece \/ SendDies \/ SendEnd
  \/ HalfClose \/ FullClose \/ Hear \/ CloseServer
Receiver == ReadPiece \/ ReadPiecesEnd \/ Thank \/ CloseClient

XferNext ==
  program \in XferPrograms /\ (Sender \/ KillServer \/ Receiver \/ KillClient)

XferSpec == XferInit /\ [][XferNext /\ UNCHANGED program]_<<xfer, program>>

\* Both processes run.
XferFair ==
  /\ WF_xfer(program \in XferPrograms /\ Sender)
  /\ WF_xfer(program \in XferPrograms /\ Receiver)

-----------------------------------------------------------------------------
(* Properties. *)

\* Every variable stays in its type; only sep_serv2.c has two descriptors.
XferTypeOK ==
  /\ spc \in {"open", "send", "end", "hear", "close", "done", "dead"}
  /\ cpc \in {"read", "thank", "close", "done", "dead"}
  /\ file \in 0..MaxFile \cup {1} /\ sent \in 0..file /\ got \in 0..sent
  /\ client \in PeerStates /\ serv \in PeerStates /\ sfds \in 0..2
  /\ sfds = 2 => program = "sep_serv2"
  /\ thanks \in {"none", "flight", "heard", "refused"}

\* A receiver that came to the end of the input has the whole file, or what one
\* sendfile() takes of it, unless the server was ended: it cannot tell
\* (file_client.c:49, file_server.c:61-73).  And where the direction is ended
\* with shutdown() a farewell that was sent is heard before the server closes;
\* where the descriptor is closed it never is (sep_serv2.c:66-72,
\* sep_serv.c:66).
WholeAndHeard ==
  /\ XferTypeOK
  /\ cpc \in {"thank", "close", "done"} /\ spc # "dead" => got = Planned
  /\ spc = "done" => IF program \in {"file_server", "sep_serv2"}
                     THEN thanks \in {"none", "heard"} ELSE thanks # "heard"

\* A full socket holds back the server's write(), an open input its read().
ServerWaits ==
  \/ spc = "send" /\ sent < Planned /\ Reads(client) /\ sent - got >= SockBuf
  \/ /\ spc = "hear" /\ sfds > 0 /\ ~AtEof(client) /\ ~IsReset(client)
     /\ ~(thanks = "flight" /\ program = "file_server")

\* The client has read all there is, and no end of the input.
ClientWaits == cpc = "read" /\ got = sent /\ ~AtEof(serv)

\* A process held back in a call waits for one that still runs and is not held
\* back itself: an end, however it came, reaches the other side, and the end of
\* the pieces is told before the farewell is waited for (file_server.c:68-73,
\* sep_serv2.c:66-69).
NeitherStuck ==
  /\ ServerWaits => cpc \notin {"done", "dead"} /\ ~ClientWaits
  /\ ClientWaits => spc \notin {"done", "dead"} /\ ~ServerWaits

\* What a transfer promises of every state: the pieces and the farewell, and
\* that the two ends do not wait for each other (file_server.c:61-77).
TransferSound == WholeAndHeard /\ NeitherStuck

\* Both processes come to their end: neither waits for an EOF the other's open
\* descriptors hold back (sep_serv2.c:66-69).
BothEnd == program \in XferPrograms => <>(spc \in {"done", "dead"} /\ cpc \in {"done", "dead"})
=============================================================================

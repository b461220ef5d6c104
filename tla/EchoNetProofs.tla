--------------------------- MODULE EchoNetProofs ---------------------------
(***************************************************************************)
(* Lemmas about the connections of EchoNet that the proofs about an echo   *)
(* server share: what each call preserves, and which step of EchoService   *)
(* it is.                                                                  *)
(***************************************************************************)
EXTENDS EchoNet, TLAPS

\* A connection waits in the backlog once, before the server has touched it.
BacklogInv ==
  \A i \in 1..Len(backlog) :
    /\ peer[backlog[i]] # "idle" /\ server[backlog[i]] = "new"
    /\ \A j \in 1..Len(backlog) : backlog[i] = backlog[j] => i = j

ConnInv ==
  \A c \in Clients :
    /\ nread[c] <= nsent[c]
    /\ peer[c] = "idle" => nsent[c] = 0 /\ server[c] = "new"
    /\ server[c] = "new" => nread[c] = 0 /\ echoed[c] = <<>>

NetInv == NetTypeOK /\ BacklogInv /\ ConnInv

\* Nothing but the server's side may change, and only of connections that
\* were accepted.
ServerOnly ==
  /\ UNCHANGED <<peer, nsent, nread, echoed, got, backlog>>
  /\ server' \in [Clients -> {"new", "open", "closed"}]
  /\ \A c \in Clients : server[c] = "new" <=> server'[c] = "new"

LEMMA NetInitInv == NetInit => NetInv
BY DEF NetInit, NetInv, NetTypeOK, BacklogInv, ConnInv, PeerStates

LEMMA NetFrame ==
  ASSUME NetInv, UNCHANGED net
  PROVE  NetInv'
BY DEF NetInv, NetTypeOK, BacklogInv, ConnInv, net

LEMMA CloseByFacts ==
  ASSUME NEW p \in {"up", "fin"}, NEW u \in BOOLEAN
  PROVE  CloseBy(p, u) \in {"gone", "rst", "broken"}
BY DEF CloseBy

LEMMA AfterWriteFacts ==
  ASSUME NEW p \in PeerStates, NEW q \in AfterWrite(p)
  PROVE  /\ q \in PeerStates
         /\ q = "idle" <=> p = "idle"
         /\ q \in {"up", "fin"} => q = p
         /\ p \in {"up", "fin"} => q = p
BY DEF AfterWrite, PeerStates

LEMMA KillFacts ==
  ASSUME NetInv, NEW c \in Clients, Kill(c)
  PROVE  \E p \in {"gone", "rst", "broken"} : peer' = [peer EXCEPT ![c] = p]
<1>1. peer[c] \in {"up", "fin"}  BY DEF Kill, Reads
<1>2. (got[c] < Len(echoed[c])) \in BOOLEAN  OBVIOUS
<1>3. CloseBy(peer[c], got[c] < Len(echoed[c])) \in {"gone", "rst", "broken"}
  BY <1>1, <1>2, CloseByFacts, Zenon
<1>. QED  BY <1>3 DEF Kill

\* What is in the backlog stays so while no peer goes back to "idle".
LEMMA BacklogKeeps ==
  ASSUME NetInv, UNCHANGED <<backlog, server>>,
         \A d \in Clients : peer'[d] = "idle" => peer[d] = "idle"
  PROVE  BacklogInv'
<1>1. \A i \in 1..Len(backlog) : backlog[i] \in Clients
  BY DEF NetInv, NetTypeOK
<1>. QED  BY <1>1 DEF NetInv, BacklogInv

\* A connection that was made changes its state on the client's side.
LEMMA PeerKeeps ==
  ASSUME NetInv, NEW c \in Clients, NEW p \in PeerStates \ {"idle"},
         peer[c] # "idle", peer' = [peer EXCEPT ![c] = p],
         UNCHANGED <<nsent, nread, echoed, got, backlog, server>>
  PROVE  NetInv'
<1>1. \A d \in Clients : peer'[d] = "idle" => peer[d] = "idle"
  BY DEF NetInv, NetTypeOK
<1>2. NetTypeOK'  BY DEF NetInv, NetTypeOK
<1>3. BacklogInv'  BY <1>1, BacklogKeeps
<1>4. ConnInv'  BY <1>1 DEF NetInv, ConnInv
<1>. QED  BY <1>2, <1>3, <1>4 DEF NetInv

LEMMA ClientKeeps ==
  ASSUME NetInv, NEW c \in Clients, Client(c)
  PROVE  NetInv'
<1>. USE DEF NetInv
<1>1. CASE Connect(c)
  <2>1. NetTypeOK' /\ ConnInv'
    BY <1>1 DEF Connect, NetTypeOK, ConnInv, PeerStates
  <2>2. BacklogInv'
    <3>1. /\ Len(backlog') = Len(backlog) + 1 /\ backlog'[Len(backlog) + 1] = c
          /\ \A i \in 1..Len(backlog) : backlog'[i] = backlog[i] /\ backlog[i] \in Clients
      BY <1>1 DEF Connect, NetTypeOK
    <3>2. Len(backlog) \in Nat  BY DEF NetTypeOK
    <3>3. \A i \in 1..Len(backlog) : backlog[i] # c
      BY <1>1 DEF Connect, BacklogInv
    <3>4. \A i \in 1..Len(backlog) : peer'[backlog[i]] # "idle" /\ server'[backlog[i]] = "new"
      BY <1>1, <3>1, <3>3 DEF Connect, NetTypeOK, BacklogInv
    <3>5. peer'[c] # "idle" /\ server'[c] = "new"
      BY <1>1 DEF Connect, NetTypeOK, ConnInv
    <3>. QED  BY <3>1, <3>2, <3>3, <3>4, <3>5 DEF BacklogInv
  <2>. QED  BY <2>1, <2>2
<1>2. CASE ClientWrite(c)
  <2>1. NetTypeOK' /\ BacklogInv'
    BY <1>2, BacklogKeeps DEF ClientWrite, NetTypeOK
  <2>2. ConnInv'
    BY <1>2 DEF ClientWrite, NetTypeOK, ConnInv
  <2>. QED  BY <2>1, <2>2
<1>3. CASE Shutdown(c)
  <2>1. peer' = [peer EXCEPT ![c] = "fin"] /\ peer[c] # "idle"
    BY <1>3 DEF Shutdown
  <2>2. UNCHANGED <<nsent, nread, echoed, got, backlog, server>>
    BY <1>3 DEF Shutdown
  <2>. QED  BY <2>1, <2>2, PeerKeeps DEF PeerStates
<1>4. CASE Kill(c)
  <2>1. PICK p \in {"gone", "rst", "broken"} : peer' = [peer EXCEPT ![c] = p]
    BY <1>4, KillFacts
  <2>2. peer[c] # "idle" /\ UNCHANGED <<nsent, nread, echoed, got, backlog, server>>
    BY <1>4 DEF Kill, Reads
  <2>. QED  BY <2>1, <2>2, PeerKeeps DEF PeerStates
<1>5. CASE ClientRead(c)
  <2>1. NetTypeOK' /\ BacklogInv'
    BY <1>5, BacklogKeeps DEF ClientRead, NetTypeOK
  <2>2. ConnInv'
    BY <1>5 DEF ClientRead, ConnInv
  <2>. QED  BY <2>1, <2>2
<1>. QED  BY <1>1, <1>2, <1>3, <1>4, <1>5 DEF Client

LEMMA AcceptKeeps ==
  ASSUME NetInv, NEW c \in Clients, Accepted(c)
  PROVE  NetInv' /\ peer[c] # "idle" /\ server[c] = "new"
<1>1. /\ backlog \in Seq(Clients) /\ backlog # <<>> /\ c = backlog[1]
      /\ backlog' = Tail(backlog) /\ server' = [server EXCEPT ![c] = "open"]
  BY DEF Accepted, NetInv, NetTypeOK
<1>2. /\ c \in Clients /\ 1 \in 1..Len(backlog)
      /\ Len(backlog') = Len(backlog) - 1
      /\ \A i \in 1..Len(backlog') : backlog'[i] = backlog[i + 1] /\ i + 1 \in 1..Len(backlog)
  BY <1>1
<1>3. peer[c] # "idle" /\ server[c] = "new"
  BY <1>1, <1>2 DEF NetInv, BacklogInv
<1>4. NetTypeOK' /\ ConnInv'
  <2>1. backlog' \in Seq(Clients)  BY <1>1
  <2>2. NetTypeOK'  BY <1>1, <1>2, <2>1 DEF Accepted, NetInv, NetTypeOK
  <2>3. ConnInv'  BY <1>1, <1>2, <1>3 DEF Accepted, NetInv, NetTypeOK, ConnInv
  <2>. QED  BY <2>2, <2>3
<1>5. BacklogInv'
  <2>1. \A i \in 1..Len(backlog') : backlog'[i] # c
    BY <1>1, <1>2 DEF NetInv, BacklogInv
  <2>2. \A i \in 1..Len(backlog') : peer'[backlog'[i]] # "idle" /\ server'[backlog'[i]] = "new"
    BY <1>1, <1>2, <2>1 DEF Accepted, NetInv, BacklogInv, NetTypeOK
  <2>3. \A i, j \in 1..Len(backlog') : backlog'[i] = backlog'[j] => i = j
    BY <1>2 DEF NetInv, BacklogInv
  <2>. QED  BY <2>2, <2>3 DEF BacklogInv
<1>. QED  BY <1>2, <1>3, <1>4, <1>5 DEF NetInv

LEMMA TakeDataKeeps ==
  ASSUME NetInv, NEW c \in Clients, server[c] # "new", TakeData(c)
  PROVE  NetInv'
<1>1. NetTypeOK' /\ BacklogInv'
  BY BacklogKeeps DEF TakeData, NetInv, NetTypeOK
<1>2. ConnInv'
  BY DEF TakeData, DataReady, NetInv, NetTypeOK, ConnInv
<1>. QED  BY <1>1, <1>2 DEF NetInv

LEMMA TakeErrKeeps ==
  ASSUME NetInv, NEW c \in Clients, TakeErr(c)
  PROVE  NetInv'
<1>1. peer[c] # "idle" /\ peer' = [peer EXCEPT ![c] = "broken"]
  BY DEF TakeErr, ErrReady
<1>2. UNCHANGED <<nsent, nread, echoed, got, backlog, server>>
  BY DEF TakeErr
<1>. QED  BY <1>1, <1>2, PeerKeeps DEF PeerStates

LEMMA WriteBackKeeps ==
  ASSUME NetInv, NEW c \in Clients, server[c] # "new", NEW chunk \in Lines,
         WriteBack(c, chunk)
  PROVE  NetInv'
<1>1. PICK p \in AfterWrite(peer[c]) : peer' = [peer EXCEPT ![c] = p]
  BY DEF WriteBack
<1>2. p \in PeerStates /\ (p = "idle" <=> peer[c] = "idle")
  BY <1>1, AfterWriteFacts DEF NetInv, NetTypeOK
<1>3. echoed' \in [Clients -> Seq(Lines)]
  <2>1. echoed[c] \in Seq(Lines)  BY DEF NetInv, NetTypeOK
  <2>2. Append(echoed[c], chunk) \in Seq(Lines)  BY <2>1
  <2>. QED  BY <2>1, <2>2, Zenon DEF WriteBack, NetInv, NetTypeOK
<1>4. NetTypeOK'  BY <1>1, <1>2, <1>3 DEF WriteBack, NetInv, NetTypeOK
<1>5. BacklogInv'
  <2>1. backlog' = backlog /\ server' = server  BY DEF WriteBack
  <2>2. \A i \in 1..Len(backlog) : backlog[i] \in Clients
    BY DEF NetInv, NetTypeOK
  <2>3. \A d \in Clients : peer[d] # "idle" => peer'[d] # "idle"
    BY <1>1, <1>2 DEF NetInv, NetTypeOK
  <2>. QED  BY <2>1, <2>2, <2>3 DEF NetInv, BacklogInv
<1>6. ConnInv'
  BY <1>1, <1>2 DEF WriteBack, NetInv, ConnInv, NetTypeOK
<1>. QED  BY <1>4, <1>5, <1>6 DEF NetInv

LEMMA ServerKeeps ==
  ASSUME NetInv, ServerOnly
  PROVE  NetInv'
BY DEF NetInv, NetTypeOK, BacklogInv, ConnInv, ServerOnly

-----------------------------------------------------------------------------
(* Which step of the echo service each call is. *)

\* Nothing more is owed to the client.
Served(c) ==
  \/ peer[c] = "fin" /\ Len(echoed[c]) = nsent[c]
  \/ peer[c] \in {"gone", "rst", "broken"}

Refines == [Echo!SNext]_(Echo!svars)

LEMMA InitRefines == NetInit => Echo!SInit
<1>. SUFFICES ASSUME NetInit PROVE Echo!SInit  OBVIOUS
<1>1. \A c \in Clients : /\ peer[c] \in {"idle", "up"}
                         /\ peer[c] \notin {"gone", "rst", "broken"}
                         /\ server[c] # "closed"
  BY DEF NetInit
<1>2. \A c \in Clients : /\ (peer[c] \notin {"idle", "up"}) = FALSE
                         /\ (peer[c] \in {"gone", "rst", "broken"}) = FALSE
                         /\ (server[c] = "closed") = FALSE
  BY <1>1
<1>3. [c \in Clients |-> peer[c] \notin {"idle", "up"}] = [c \in Clients |-> FALSE]
  BY <1>2, Zenon
<1>4. [c \in Clients |-> peer[c] \in {"gone", "rst", "broken"}] = [c \in Clients |-> FALSE]
  BY <1>2, Zenon
<1>5. [c \in Clients |-> server[c] = "closed"] = [c \in Clients |-> FALSE]
  BY <1>2, Zenon
<1>. QED  BY <1>3, <1>4, <1>5 DEF NetInit, Echo!SInit

LEMMA FrameRefines == UNCHANGED net => Refines
BY DEF net, Refines, Echo!svars

LEMMA ClientRefines ==
  ASSUME NetInv, NEW c \in Clients, Client(c)
  PROVE  Refines
<1>. USE DEF NetInv, NetTypeOK
<1>1. CASE Connect(c)
  <2>1. /\ \A d \in Clients : peer'[d] \notin {"idle", "up"} <=> peer[d] \notin {"idle", "up"}
        /\ \A d \in Clients : peer'[d] \in {"gone", "rst", "broken"} <=> peer[d] \in {"gone", "rst", "broken"}
    BY <1>1 DEF Connect
  <2>. QED  BY <1>1, <2>1 DEF Connect, Refines, Echo!svars
<1>2. CASE ClientWrite(c)
  <2>1. Echo!Send(c)  BY <1>2 DEF ClientWrite, Echo!Send
  <2>. QED  BY <2>1 DEF Refines, Echo!SNext
<1>3. CASE Shutdown(c)
  <2>1. /\ \A d \in Clients : peer'[d] \notin {"idle", "up"} <=> (d = c \/ peer[d] \notin {"idle", "up"})
        /\ \A d \in Clients : peer'[d] \in {"gone", "rst", "broken"} <=> peer[d] \in {"gone", "rst", "broken"}
        /\ peer[c] \in {"idle", "up"}
    BY <1>3 DEF Shutdown
  <2>2. [d \in Clients |-> peer'[d] \notin {"idle", "up"}]
          = [[d \in Clients |-> peer[d] \notin {"idle", "up"}] EXCEPT ![c] = TRUE]
    BY <2>1
  <2>3. [d \in Clients |-> peer'[d] \in {"gone", "rst", "broken"}]
          = [d \in Clients |-> peer[d] \in {"gone", "rst", "broken"}]
    BY <2>1
  <2>4. ~[d \in Clients |-> peer[d] \notin {"idle", "up"}][c]
    BY <2>1
  <2>5. Echo!Finish(c)
    BY <1>3, <2>2, <2>3, <2>4, Zenon DEF Shutdown, Echo!Finish
  <2>. QED  BY <2>5 DEF Refines, Echo!SNext
<1>4. CASE Kill(c)
  <2>1. PICK p \in {"gone", "rst", "broken"} : peer' = [peer EXCEPT ![c] = p]
    BY <1>4, KillFacts
  <2>2. Echo!Leave(c)  BY <1>4, <2>1 DEF Kill, Reads, Echo!Leave
  <2>. QED  BY <2>2 DEF Refines, Echo!SNext
<1>5. CASE ClientRead(c)
  BY <1>5 DEF ClientRead, Refines, Echo!svars
<1>. QED  BY <1>1, <1>2, <1>3, <1>4, <1>5 DEF Client

LEMMA AcceptRefines ==
  ASSUME NetInv, NEW c \in Clients, Accepted(c)
  PROVE  Refines
<1>1. server[c] = "new" /\ server' = [server EXCEPT ![c] = "open"]
  BY AcceptKeeps DEF Accepted
<1>2. \A d \in Clients : server'[d] = "closed" <=> server[d] = "closed"
  BY <1>1 DEF NetInv, NetTypeOK
<1>. QED  BY <1>2 DEF Accepted, Refines, Echo!svars

LEMMA TakeRefines ==
  ASSUME NetInv, NEW c \in Clients, TakeData(c) \/ TakeErr(c)
  PROVE  Refines
<1>1. CASE TakeData(c)  BY <1>1 DEF TakeData, Refines, Echo!svars
<1>2. CASE TakeErr(c)
  <2>1. /\ \A d \in Clients : peer'[d] \notin {"idle", "up"} <=> peer[d] \notin {"idle", "up"}
        /\ \A d \in Clients : peer'[d] \in {"gone", "rst", "broken"} <=> peer[d] \in {"gone", "rst", "broken"}
    BY <1>2 DEF TakeErr, ErrReady, NetInv, NetTypeOK
  <2>. QED  BY <1>2, <2>1 DEF TakeErr, Refines, Echo!svars
<1>. QED  BY <1>1, <1>2

\* Writing the next chunk is EchoNext, or nothing when the client is away.
LEMMA WriteBackRefines ==
  ASSUME NetInv, NEW c \in Clients, NEW chunk, WriteBack(c, chunk),
         server[c] = "open",
         Reads(peer[c]) => chunk = <<c, Len(echoed[c]) + 1>> /\ Len(echoed[c]) < nsent[c]
  PROVE  Refines
<1>1. PICK p \in AfterWrite(peer[c]) : peer' = [peer EXCEPT ![c] = p]
  BY DEF WriteBack
<1>2. peer[c] \in PeerStates  BY DEF NetInv, NetTypeOK
<1>3. CASE Reads(peer[c])
  <2>1. peer' = peer
    BY <1>1, <1>2, <1>3, AfterWriteFacts DEF Reads, NetInv, NetTypeOK
  <2>2. Echo!EchoNext(c)
    BY <1>3, <2>1 DEF WriteBack, Reads, Echo!EchoNext
  <2>. QED  BY <2>2 DEF Refines, Echo!SNext
<1>4. CASE ~Reads(peer[c])
  <2>1. echoed' = echoed  BY <1>4 DEF WriteBack, NetInv, NetTypeOK
  <2>2. /\ p \notin {"idle", "up"} <=> peer[c] \notin {"idle", "up"}
        /\ p \in {"gone", "rst", "broken"} <=> peer[c] \in {"gone", "rst", "broken"}
    BY <1>1, <1>2, <1>4 DEF AfterWrite, Reads, PeerStates
  <2>3. /\ \A d \in Clients : peer'[d] \notin {"idle", "up"} <=> peer[d] \notin {"idle", "up"}
        /\ \A d \in Clients : peer'[d] \in {"gone", "rst", "broken"} <=> peer[d] \in {"gone", "rst", "broken"}
    BY <1>1, <2>2 DEF NetInv, NetTypeOK
  <2>. QED  BY <2>1, <2>3 DEF WriteBack, Refines, Echo!svars
<1>. QED  BY <1>3, <1>4

LEMMA CloseRefines ==
  ASSUME NetInv, NEW c \in Clients, Served(c) \/ echoed[c] = <<>>,
         UNCHANGED <<peer, nsent, nread, echoed, got, backlog>>,
         server' = [server EXCEPT ![c] = "closed"] \/ server' = server
  PROVE  Refines
<1>1. CASE server' = server  BY <1>1 DEF Refines, Echo!svars
<1>2. CASE server' = [server EXCEPT ![c] = "closed"] /\ server[c] = "closed"
  BY <1>2 DEF Refines, Echo!svars, NetInv, NetTypeOK
<1>3. CASE server' = [server EXCEPT ![c] = "closed"] /\ server[c] # "closed"
  <2>1. Echo!CloseConn(c)
    BY <1>3 DEF Echo!CloseConn, Served, NetInv, NetTypeOK
  <2>. QED  BY <2>1 DEF Refines, Echo!SNext
<1>. QED  BY <1>1, <1>2, <1>3
=============================================================================

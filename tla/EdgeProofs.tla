----------------------------- MODULE EdgeProofs -----------------------------
(***************************************************************************)
(* The servers with edge-triggered descriptors, for any number of clients, *)
(* descriptors and chunks: no edge is lost, epoll_lt_et.c is an echo       *)
(* service, what tcp_echo_epoll_et_server.c returns is in order, and a     *)
(* connection of epoll_oneshot.c is in one pair of hands.                  *)
(***************************************************************************)
EXTENDS MCEdge, OneShot, EchoNetProofs, FiniteSetTheorems

\* An open descriptor has a connection of its own, and what the kernel has on
\* its list is open.
TabInv ==
  /\ \A f \in Opened : server[fdtab[f]] = "open"
  /\ \A f, g \in Opened : fdtab[f] = fdtab[g] => f = g
  /\ rdy \subseteq {Listen} \cup Opened

EdgeInv == NetInv /\ EdgeTypeOK /\ TabInv

\* Nothing else became readable, nothing lost what it had.
Same(f) == Ready(f)' <=> Ready(f)

-----------------------------------------------------------------------------
(* The ready list. *)

LEMMA OpenedConn ==
  ASSUME EdgeInv
  PROVE  /\ \A f \in Opened : f \in Fds /\ f # Listen /\ fdtab[f] \in Clients
         /\ \A f \in Fds : f \in Opened \/ fdtab[f] = NoConn
         /\ NoConn \notin Clients
BY EchoAssumption, EdgeAssumption DEF EdgeInv, EdgeTypeOK, Opened, Fds, Listen

\* The kernel's own state is unchanged, or the connections are.
LEMMA EdgeFrame ==
  ASSUME EdgeInv, UNCHANGED <<net, fdtab, rdy>>, batch' \subseteq batch
  PROVE  EdgeInv' /\ Opened' = Opened /\ \A f \in AllFds : Same(f)
<1>1. NetInv' /\ NetTypeOK'  BY NetFrame DEF EdgeInv, NetInv
<1>2. Opened' = Opened  BY DEF Opened
<1>3. EdgeTypeOK' /\ TabInv'  BY <1>1, <1>2 DEF EdgeInv, EdgeTypeOK, TabInv, net
<1>. QED
  BY <1>1, <1>2, <1>3 DEF EdgeInv, Same, Ready, Readable, DataReady, EofReady, ErrReady, net

LEMMA ReportKeeps ==
  ASSUME EdgeInv, NEW L \in SUBSET AllFds, Report(L)
  PROVE  /\ EdgeInv' /\ Opened' = Opened /\ \A f \in AllFds : Same(f)
         /\ batch' = {f \in rdy : Ready(f)} /\ rdy' = batch' \cap L /\ batch = {}
<1>1. NetInv' /\ NetTypeOK'  BY NetFrame DEF EdgeInv, NetInv, Report
<1>2. Opened' = Opened  BY DEF Opened, Report
<1>3. EdgeTypeOK' /\ TabInv'
  BY <1>1, <1>2 DEF EdgeInv, EdgeTypeOK, TabInv, net, Report
<1>. QED
  BY <1>1, <1>2, <1>3
  DEF EdgeInv, Same, Ready, Readable, DataReady, EofReady, ErrReady, net, Report

\* A client's step makes its own descriptor readable only, and puts it on the
\* list when it does.
LEMMA ClientReady ==
  ASSUME EdgeInv, NEW c \in Clients, Client(c), UNCHANGED fdtab,
         NEW f \in Opened
  PROVE  /\ Ready(f) => Ready(f)'
         /\ fdtab[f] # c \/ ClientRead(c) \/ Connect(c) => Same(f)
         /\ Kill(c) /\ peer[c] = "fin" => Same(f)
<1>1. fdtab[f] \in Clients /\ f # Listen  BY OpenedConn
<1>2. PICK d \in Clients : d = fdtab[f]  BY <1>1
<1>3. /\ peer \in [Clients -> PeerStates] /\ nsent \in [Clients -> Nat] /\ nread \in [Clients -> Nat]
      /\ nread[d] <= nsent[d] /\ peer[d] # "idle"
  BY <1>2 DEF EdgeInv, NetInv, NetTypeOK, ConnInv, TabInv
<1>4. nread' = nread
  BY DEF Client, Connect, ClientWrite, Shutdown, Kill, ClientRead
<1>5. Ready(f) <=> Readable(d)  BY <1>1, <1>2 DEF Ready
<1>6. Ready(f)' <=> Readable(d)'  BY <1>1, <1>2 DEF Ready
<1>. USE DEF Readable, DataReady, EofReady, ErrReady, AtEof
<1>7. CASE peer'[d] = peer[d] /\ nsent'[d] = nsent[d]
  BY <1>4, <1>5, <1>6, <1>7 DEF Same
<1>8. CASE ClientWrite(c) /\ c = d
  BY <1>2, <1>3, <1>4, <1>5, <1>6, <1>8
  DEF ClientWrite, ClientRead, Connect, Kill, Reads
<1>9. CASE Shutdown(c) /\ c = d
  BY <1>2, <1>3, <1>4, <1>5, <1>6, <1>9
  DEF Shutdown, ClientRead, Connect, Kill, Reads
<1>10. CASE Kill(c) /\ c = d
  <2>1. PICK p \in {"gone", "rst", "broken"} : peer' = [peer EXCEPT ![c] = p]
    BY <1>10, KillFacts DEF EdgeInv
  <2>2. peer[c] = "fin" => p # "rst"
    BY <1>3, <1>10, <2>1 DEF Kill, CloseBy
  <2>3. nsent' = nsent /\ peer[c] \in {"up", "fin"}  BY <1>10 DEF Kill, Reads
  <2>4. (~Connect(c) /\ ~ClientRead(c)) \/ Same(f)
    <3>1. Connect(c) => peer[c] = "idle"  BY DEF Connect
    <3>2. ClientRead(c) => peer' = peer  BY DEF ClientRead
    <3>. QED  BY <1>3, <1>10, <2>1, <2>3, <3>1, <3>2
  <2>. QED  BY <1>2, <1>3, <1>4, <1>5, <1>6, <1>10, <2>1, <2>2, <2>3, <2>4 DEF Same
<1>11. \/ peer'[d] = peer[d] /\ nsent'[d] = nsent[d]
       \/ c = d /\ (ClientWrite(c) \/ Shutdown(c) \/ Kill(c))
  BY <1>3 DEF Client, Connect, ClientWrite, Shutdown, Kill, ClientRead
<1>. QED  BY <1>7, <1>8, <1>9, <1>10, <1>11

LEMMA ArrivesKeeps ==
  ASSUME EdgeInv, NEW c \in Clients, NEW W, Arrives(c, W)
  PROVE  /\ EdgeInv' /\ Opened' = Opened /\ UNCHANGED <<fdtab, batch>>
         /\ rdy \subseteq rdy' /\ rdy' \subseteq rdy \cup {Listen} \cup W
         /\ \A f \in {Listen} \cup Opened : Ready(f) => Ready(f)'
         /\ \A f \in {Listen} \cup (Opened \cap W) : Ready(f)' => Ready(f) \/ f \in rdy'
<1>1. Client(c) /\ UNCHANGED <<fdtab, batch>>  BY DEF Arrives, Client
<1>2. NetInv' /\ NetTypeOK'  BY <1>1, ClientKeeps DEF EdgeInv, NetInv
<1>3. Opened' = Opened  BY <1>1 DEF Opened
<1>4. rdy \subseteq rdy' /\ rdy' \subseteq rdy \cup {Listen} \cup (FdsOf(c) \cap W)
  BY DEF Arrives
<1>5. FdsOf(c) = {f \in Opened : fdtab[f] = c}
  BY OpenedConn DEF FdsOf, Opened
<1>6. UNCHANGED server
  BY <1>1 DEF Client, Connect, ClientWrite, Shutdown, Kill, ClientRead
<1>7. Opened \subseteq Fds  BY DEF Opened
<1>8. EdgeTypeOK' /\ TabInv'
  BY <1>1, <1>2, <1>3, <1>4, <1>5, <1>6, <1>7 DEF EdgeInv, EdgeTypeOK, TabInv, AllFds
<1>9. ASSUME NEW f \in Opened
      PROVE  (Ready(f) => Ready(f)') /\ (f \in W => (Ready(f)' => Ready(f) \/ f \in rdy'))
  <2>1. Ready(f) => Ready(f)'  BY <1>1, ClientReady
  <2>2. \/ Same(f)
        \/ fdtab[f] = c /\ ~ClientRead(c) /\ ~Connect(c) /\ ~(Kill(c) /\ peer[c] = "fin")
    BY <1>1, ClientReady
  <2>3. fdtab[f] = c /\ ~ClientRead(c) /\ ~Connect(c) /\ ~(Kill(c) /\ peer[c] = "fin")
          => (f \in W => f \in rdy')
    BY <1>5, <1>7 DEF Arrives
  <2>. QED  BY <2>1, <2>2, <2>3 DEF Same
<1>10. (Ready(Listen) => Ready(Listen)') /\ (Ready(Listen)' => Ready(Listen) \/ Listen \in rdy')
  <2>1. CASE Connect(c) /\ rdy' = rdy \cup {Listen}
    BY <2>1 DEF Connect, Ready, EdgeInv, NetInv, NetTypeOK
  <2>2. CASE ~(Connect(c) /\ rdy' = rdy \cup {Listen})
    <3>1. backlog' = backlog
      BY <2>2 DEF Arrives, ClientWrite, Shutdown, Kill, ClientRead
    <3>. QED  BY <3>1 DEF Ready
  <2>. QED  BY <2>1, <2>2
<1>. QED  BY <1>1, <1>2, <1>3, <1>4, <1>8, <1>9, <1>10 DEF EdgeInv
\* The new descriptor is on the list if its connection has something to read.
LEMMA AddKeeps ==
  ASSUME EdgeInv, Event(Listen), AcceptAndAdd
  PROVE  /\ EdgeInv' /\ rdy \subseteq rdy' /\ batch' = batch \ {Listen} /\ Listen \in batch
         /\ \E f \in Fds : /\ f \notin Opened /\ Opened' = Opened \cup {f}
                           /\ Ready(f)' => f \in rdy'
                           /\ \E c \in Clients : Accepted(c)
         /\ \A g \in Opened : Same(g) /\ fdtab'[g] = fdtab[g]
         /\ Ready(Listen)' => Ready(Listen)
         /\ UNCHANGED <<peer, nsent, nread, echoed, got>>
<1>1. PICK f \in Fds, c \in Clients :
        /\ LowestFree(f) /\ Accepted(c) /\ fdtab' = [fdtab EXCEPT ![f] = c]
        /\ rdy' = IF Readable(c) THEN rdy \cup {f} ELSE rdy
  BY DEF AcceptAndAdd
<1>2. NetInv' /\ NetTypeOK' /\ server[c] = "new"
  BY <1>1, AcceptKeeps DEF EdgeInv, NetInv
<1>3. f \notin Opened /\ fdtab[f] = NoConn  BY <1>1 DEF LowestFree, Opened
<1>4. fdtab'[f] = c /\ \A g \in Opened : fdtab'[g] = fdtab[g] /\ fdtab[g] # c /\ fdtab[g] \in Clients
  BY <1>1, <1>2, <1>3, OpenedConn DEF EdgeInv, EdgeTypeOK, TabInv, Opened
<1>5. Opened' = Opened \cup {f}
  BY <1>1, <1>3, OpenedConn DEF EdgeInv, EdgeTypeOK, Opened
<1>6. /\ UNCHANGED <<peer, nsent, nread, echoed, got>>
      /\ server' = [server EXCEPT ![c] = "open"] /\ backlog # <<>>
  BY <1>1 DEF Accepted
<1>7. batch' = batch \ {Listen} /\ Listen \in batch  BY DEF Event
<1>8. EdgeTypeOK'
  BY <1>1, <1>2, <1>7 DEF EdgeInv, EdgeTypeOK, AllFds
<1>9. TabInv'
  <2>1. \A g \in Opened' : server'[fdtab'[g]] = "open"
    BY <1>4, <1>5, <1>6 DEF EdgeInv, TabInv, NetInv, NetTypeOK
  <2>2. \A g, h \in Opened' : fdtab'[g] = fdtab'[h] => g = h
    BY <1>4, <1>5 DEF EdgeInv, TabInv
  <2>3. rdy' \subseteq {Listen} \cup Opened'
    BY <1>1, <1>5, <1>7 DEF EdgeInv, TabInv
  <2>. QED  BY <2>1, <2>2, <2>3 DEF TabInv
<1>10. Ready(f)' => f \in rdy'
  <2>1. f # Listen  BY EdgeAssumption DEF Fds, Listen
  <2>2. Ready(f)' => Readable(c)
    BY <1>4, <1>6, <2>1 DEF Ready, Readable, DataReady, EofReady, ErrReady
  <2>. QED  BY <1>1, <2>2
<1>11. \A g \in Opened : Same(g)
  BY <1>4, <1>6, OpenedConn DEF Same, Ready, Readable, DataReady, EofReady, ErrReady
<1>12. Ready(Listen)  BY <1>6 DEF Ready
<1>. QED
  BY <1>1, <1>2, <1>3, <1>4, <1>5, <1>6, <1>7, <1>8, <1>9, <1>10, <1>11, <1>12 DEF EdgeInv

LEMMA CloseFdKeeps ==
  ASSUME EdgeInv, NEW f \in Opened, CloseFd(f), UNCHANGED batch
  PROVE  /\ EdgeInv' /\ Opened' = Opened \ {f} /\ rdy' = rdy \ {f}
         /\ \A g \in {Listen} \cup (Opened \ {f}) : Same(g)
         /\ \A g \in Opened \ {f} : fdtab'[g] = fdtab[g]
         /\ UNCHANGED <<peer, nsent, nread, echoed, got, backlog>>
<1>1. PICK c \in Clients : c = fdtab[f]  BY OpenedConn
<1>2. /\ server' = [server EXCEPT ![c] = "closed"] /\ fdtab' = [fdtab EXCEPT ![f] = NoConn]
      /\ rdy' = rdy \ {f} /\ UNCHANGED <<peer, nsent, nread, echoed, got, backlog>>
  BY <1>1 DEF CloseFd, Released
<1>3. server[c] = "open"  BY <1>1 DEF EdgeInv, TabInv
<1>4. ServerOnly
  BY <1>2, <1>3 DEF ServerOnly, EdgeInv, NetInv, NetTypeOK
<1>5. NetInv' /\ NetTypeOK'  BY <1>4, ServerKeeps DEF EdgeInv, NetInv
<1>6. Opened' = Opened \ {f} /\ \A g \in Opened \ {f} : fdtab'[g] = fdtab[g]
  BY <1>2 DEF EdgeInv, EdgeTypeOK, Opened
<1>7. \A g \in Opened \ {f} : fdtab[g] # c /\ fdtab[g] \in Clients
  BY <1>1, OpenedConn DEF EdgeInv, TabInv
<1>8. EdgeTypeOK'  BY <1>2, <1>5 DEF EdgeInv, EdgeTypeOK
<1>9. TabInv'
  <2>1. \A g \in Opened' : server'[fdtab'[g]] = "open"
    BY <1>2, <1>6, <1>7 DEF EdgeInv, TabInv, NetInv, NetTypeOK
  <2>. QED  BY <1>2, <1>6, <2>1 DEF EdgeInv, TabInv
<1>10. \A g \in {Listen} \cup (Opened \ {f}) : Same(g)
  BY <1>2, <1>6 DEF Same, Ready, Readable, DataReady, EofReady, ErrReady
<1>. QED  BY <1>2, <1>5, <1>6, <1>8, <1>9, <1>10 DEF EdgeInv

\* What is done to one connection leaves the descriptors of the others.
OnlyOf(c) ==
  /\ \A d \in Clients : d # c => peer'[d] = peer[d] /\ nread'[d] = nread[d]
  /\ UNCHANGED <<nsent, got, backlog, server>>

LEMMA ConnKeeps ==
  ASSUME EdgeInv, NEW f \in Opened, NetInv', OnlyOf(fdtab[f]), UNCHANGED <<fdtab, batch>>,
         rdy' \in {rdy, rdy \cup {f}}
  PROVE  /\ EdgeInv' /\ Opened' = Opened
         /\ \A g \in {Listen} \cup (Opened \ {f}) : Same(g)
<1>1. Opened' = Opened  BY DEF Opened
<1>2. EdgeTypeOK'  BY DEF EdgeInv, EdgeTypeOK, NetInv, Opened, AllFds
<1>3. TabInv'  BY <1>1 DEF EdgeInv, TabInv, OnlyOf
<1>4. \A g \in Opened \ {f} : fdtab[g] # fdtab[f] /\ fdtab[g] \in Clients
  BY OpenedConn DEF EdgeInv, TabInv
<1>5. \A g \in {Listen} \cup (Opened \ {f}) : Same(g)
  BY <1>4 DEF Same, Ready, Readable, DataReady, EofReady, ErrReady, OnlyOf
<1>. QED  BY <1>1, <1>2, <1>3, <1>5 DEF EdgeInv

LEMMA TakeOnly ==
  ASSUME EdgeInv, NEW c \in Clients, server[c] = "open", TakeData(c) \/ TakeErr(c)
  PROVE  NetInv' /\ OnlyOf(c)
<1>1. NetInv'  BY TakeDataKeeps, TakeErrKeeps DEF EdgeInv
<1>. QED  BY <1>1 DEF TakeData, TakeErr, OnlyOf, EdgeInv, NetInv, NetTypeOK

LEMMA WriteOnly ==
  ASSUME EdgeInv, NEW c \in Clients, server[c] = "open", NEW chunk \in Chunks, WriteBack(c, chunk)
  PROVE  /\ NetInv' /\ OnlyOf(c) /\ UNCHANGED nread
         /\ \E p \in AfterWrite(peer[c]) : peer' = [peer EXCEPT ![c] = p]
<1>1. NetInv'  BY WriteBackKeeps DEF EdgeInv, Lines
<1>. QED  BY <1>1 DEF WriteBack, OnlyOf, EdgeInv, NetInv, NetTypeOK
-----------------------------------------------------------------------------
(* epoll_lt_et.c. *)

LtTypes ==
  /\ level \in BOOLEAN /\ alive \in BOOLEAN
  /\ wpc \in {"next", "read", "write"} /\ cur \in AllFds

\* The handler's descriptor is no longer in the batch; a level-triggered one
\* was put back on the list when it was reported.
AtWork ==
  /\ batch \subseteq {Listen} \cup Opened
  /\ wpc # "next" => cur \in Opened \ batch
  /\ level => batch \cap Fds \subseteq rdy /\ (wpc # "next" => cur \in rdy)

Kept ==
  /\ \A f \in Opened : Ready(f) => f \in rdy \cup batch \/ (wpc # "next" /\ cur = f)
  /\ \A f \in batch : Ready(f)

\* What was read from a client that still reads was sent back to it, but for
\* the chunk in the handler's hands.
InHand(c) == IF wpc = "write" /\ fdtab[cur] = c THEN 1 ELSE 0
Counts == \A c \in Clients : Reads(peer[c]) => nread[c] = Len(echoed[c]) + InHand(c)

LtInv == EdgeInv /\ LtTypes /\ AtWork /\ (alive => Kept) /\ Counts

LEMMA LtInit == Init => LtInv
<1>. SUFFICES ASSUME Init PROVE LtInv  OBVIOUS
<1>1. NetInv /\ NetTypeOK  BY NetInitInv DEF Init, EdgeInit, NetInv
<1>2. Opened = {}  BY DEF Init, EdgeInit, Opened
<1>3. EdgeInv  BY <1>1, <1>2 DEF Init, EdgeInit, EdgeInv, EdgeTypeOK, TabInv
<1>4. Counts  BY DEF Init, EdgeInit, NetInit, Counts, Reads
<1>. QED
  BY <1>2, <1>3, <1>4 DEF Init, EdgeInit, LtInv, LtTypes, AtWork, Kept, AllFds

\* Steps that leave the connections alone.
LEMMA CountsFrame ==
  ASSUME Counts, UNCHANGED <<peer, nread, echoed>>, \A c \in Clients : InHand(c)' = InHand(c)
  PROVE  Counts'
BY DEF Counts

LEMMA LtClient ==
  ASSUME LtInv, NEW c \in Clients, ClientStep(c)
  PROVE  LtInv' /\ Refines
<1>1. Arrives(c, Fds) /\ UNCHANGED <<level, wpc, cur, alive>> /\ Client(c)
  BY DEF ClientStep, handler, Arrives, Client
<1>2. /\ EdgeInv' /\ Opened' = Opened /\ UNCHANGED <<fdtab, batch>> /\ rdy \subseteq rdy'
      /\ \A f \in {Listen} \cup Opened : Ready(f) => Ready(f)'
      /\ \A f \in {Listen} \cup Opened : Ready(f)' => Ready(f) \/ f \in rdy'
  BY <1>1, ArrivesKeeps DEF LtInv, Opened
<1>3. LtTypes' /\ AtWork'  BY <1>1, <1>2 DEF LtInv, LtTypes, AtWork
<1>4. alive' => Kept'
  <2>1. batch \subseteq {Listen} \cup Opened  BY DEF LtInv, AtWork
  <2>. QED  BY <1>1, <1>2, <2>1 DEF LtInv, Kept
<1>5. Counts'
  <2>1. UNCHANGED <<nread, echoed>>
    BY <1>1 DEF Client, Connect, ClientWrite, Shutdown, Kill, ClientRead
  <2>2. \A d \in Clients : InHand(d)' = InHand(d)  BY <1>1, <1>2 DEF InHand
  <2>3. \A d \in Clients : Reads(peer'[d]) => Reads(peer[d]) \/ peer[d] = "idle"
    <3>1. CASE Kill(c)
      <4>1. PICK p \in {"gone", "rst", "broken"} : peer' = [peer EXCEPT ![c] = p]
        BY <3>1, KillFacts DEF LtInv, EdgeInv
      <4>. QED  BY <4>1 DEF Reads, LtInv, EdgeInv, NetInv, NetTypeOK
    <3>. QED
      BY <1>1, <3>1 DEF Client, Connect, ClientWrite, Shutdown, ClientRead, Reads, LtInv,
        EdgeInv, NetInv, NetTypeOK
  <2>4. \A d \in Clients : peer[d] = "idle" => nread[d] = 0 /\ echoed[d] = <<>> /\ InHand(d) = 0
    <3>1. \A d \in Clients : peer[d] = "idle" => server[d] = "new"
      BY DEF LtInv, EdgeInv, NetInv, ConnInv
    <3>2. \A d \in Clients : server[d] = "new" => nread[d] = 0 /\ echoed[d] = <<>>
      BY DEF LtInv, EdgeInv, NetInv, ConnInv
    <3>3. wpc = "write" => server[fdtab[cur]] = "open"
      BY DEF LtInv, AtWork, EdgeInv, TabInv
    <3>. QED  BY <3>1, <3>2, <3>3 DEF InHand
  <2>. QED  BY <2>1, <2>2, <2>3, <2>4 DEF LtInv, Counts
<1>6. Refines  BY <1>1, ClientRefines DEF LtInv, EdgeInv
<1>. QED  BY <1>2, <1>3, <1>4, <1>5, <1>6 DEF LtInv

\* The steps between two connections.
LEMMA LtBetween ==
  ASSUME LtInv, alive,
         EpollWait \/ Accept \/ AcceptFail \/ (\E f \in Fds : Handle(f)) \/ ReadAgain
  PROVE  LtInv' /\ Refines
<1>. USE DEF LtInv
<1>1. CASE EpollWait
  <2>1. PICK L \in SUBSET AllFds : L = (IF level THEN Fds ELSE {}) /\ Report(L)
    BY <1>1 DEF EpollWait, AllFds
  <2>2. /\ EdgeInv' /\ Opened' = Opened /\ \A f \in AllFds : Same(f)
        /\ batch' = {f \in rdy : Ready(f)} /\ rdy' = batch' \cap L /\ batch = {}
    BY <2>1, ReportKeeps
  <2>3. UNCHANGED <<level, wpc, cur, alive>> /\ wpc = "next" /\ UNCHANGED <<net, fdtab>>
    BY <1>1, <2>1 DEF EpollWait, handler, Report
  <2>4. LtTypes' /\ AtWork'  BY <2>1, <2>2, <2>3 DEF LtTypes, AtWork, EdgeInv, TabInv
  <2>5. Opened \subseteq AllFds /\ rdy \subseteq AllFds
    BY DEF Opened, AllFds, EdgeInv, EdgeTypeOK
  <2>6. Kept'
    BY <2>2, <2>3, <2>5 DEF Kept, Same
  <2>7. Counts'  BY <2>3, CountsFrame DEF InHand, net
  <2>. QED  BY <2>2, <2>3, <2>4, <2>6, <2>7, FrameRefines
<1>2. CASE Accept
  <2>1. /\ EdgeInv' /\ rdy \subseteq rdy' /\ batch' = batch \ {Listen}
        /\ \A g \in Opened : Same(g) /\ fdtab'[g] = fdtab[g]
        /\ UNCHANGED <<peer, nsent, nread, echoed, got>>
    BY <1>2, AddKeeps DEF Accept
  <2>2. PICK f \in Fds : /\ f \notin Opened /\ Opened' = Opened \cup {f}
                         /\ Ready(f)' => f \in rdy'
                         /\ \E c \in Clients : Accepted(c)
    BY <1>2, AddKeeps DEF Accept
  <2>3. UNCHANGED <<level, wpc, cur, alive>> /\ wpc = "next"
    BY <1>2 DEF Accept, handler
  <2>4. LtTypes' /\ AtWork'  BY <2>1, <2>2, <2>3 DEF LtTypes, AtWork
  <2>5. Kept'
    <3>1. \A g \in batch' : g \in Opened  BY <2>1 DEF AtWork
    <3>2. \A g \in Opened : g # Listen  BY OpenedConn
    <3>3. \A g \in batch' : Ready(g)'  BY <2>1, <3>1 DEF Kept, Same
    <3>4. \A g \in Opened : Ready(g)' => g \in rdy' \cup batch'
      BY <2>1, <2>3, <3>2 DEF Kept, Same
    <3>. QED  BY <2>2, <3>3, <3>4 DEF Kept
  <2>6. Counts'
    <3>1. \A c \in Clients : InHand(c)' = InHand(c)  BY <2>3 DEF InHand
    <3>. QED  BY <2>1, <3>1, CountsFrame
  <2>7. Refines
    <3>1. PICK c \in Clients : Accepted(c)  BY <2>2
    <3>. QED  BY <3>1, AcceptRefines DEF EdgeInv
  <2>. QED  BY <2>1, <2>4, <2>5, <2>6, <2>7
<1>3. CASE AcceptFail
  <2>1. UNCHANGED <<net, fdtab, rdy, level, wpc, cur>> /\ batch' = batch \ {Listen}
        /\ alive' = FALSE /\ wpc = "next"
    BY <1>3 DEF AcceptFail, Event
  <2>2. EdgeInv' /\ Opened' = Opened  BY <2>1, EdgeFrame
  <2>3. LtTypes' /\ AtWork'  BY <2>1, <2>2 DEF LtTypes, AtWork
  <2>4. Counts'  BY <2>1, CountsFrame DEF InHand, net
  <2>. QED  BY <2>1, <2>2, <2>3, <2>4, FrameRefines
<1>4. ASSUME NEW f \in Fds, Handle(f) PROVE LtInv' /\ Refines
  <2>1. /\ UNCHANGED <<net, fdtab, rdy, level, alive>> /\ batch' = batch \ {f} /\ f \in batch
        /\ wpc = "next" /\ wpc' = "read" /\ cur' = f /\ f # Listen
    BY <1>4 DEF Handle, Event
  <2>2. EdgeInv' /\ Opened' = Opened /\ \A g \in AllFds : Same(g)
    BY <2>1, EdgeFrame
  <2>3. f \in Opened  BY <2>1 DEF AtWork
  <2>4. LtTypes' /\ AtWork'  BY <2>1, <2>2, <2>3 DEF LtTypes, AtWork, AllFds
  <2>5. Kept'
    <3>1. Opened \subseteq AllFds /\ batch \subseteq AllFds
      BY DEF Opened, AllFds, EdgeInv, EdgeTypeOK
    <3>. QED  BY <2>1, <2>2, <3>1 DEF Kept, Same
  <2>6. Counts'  BY <2>1, CountsFrame DEF InHand, net
  <2>. QED  BY <2>1, <2>2, <2>4, <2>5, <2>6, FrameRefines
<1>5. CASE ReadAgain
  <2>1. /\ UNCHANGED <<net, fdtab, rdy, batch, level, cur, alive>> /\ ~level
        /\ wpc = "read" /\ wpc' = "next" /\ ~Readable(fdtab[cur])
    BY <1>5 DEF ReadAgain, Conn, edge
  <2>2. EdgeInv' /\ Opened' = Opened /\ \A g \in AllFds : Same(g)
    BY <2>1, EdgeFrame
  <2>3. LtTypes' /\ AtWork'  BY <2>1, <2>2 DEF LtTypes, AtWork
  <2>4. Kept'
    <3>1. Opened \subseteq AllFds /\ batch \subseteq AllFds /\ cur \in Opened /\ cur # Listen
      BY <2>1, OpenedConn DEF Opened, AllFds, EdgeInv, EdgeTypeOK, AtWork
    <3>2. ~Ready(cur)  BY <2>1, <3>1 DEF Ready
    <3>. QED  BY <2>1, <2>2, <3>1, <3>2 DEF Kept, Same
  <2>5. Counts'  BY <2>1, CountsFrame DEF InHand, net
  <2>. QED  BY <2>1, <2>2, <2>3, <2>4, <2>5, FrameRefines
<1>. QED  BY <1>1, <1>2, <1>3, <1>4, <1>5

\* The steps at a connection.
LEMMA LtRead ==
  ASSUME LtInv, alive, ReadData \/ ReadEof \/ ReadErr
  PROVE  LtInv' /\ Refines
<1>. USE DEF LtInv
<1>1. wpc = "read" /\ cur \in Opened /\ cur \notin batch
  BY DEF ReadData, ReadEof, ReadErr, AtWork
<1>2. PICK f \in Opened : f = cur  BY <1>1
<1>3. PICK c \in Clients : c = fdtab[f]  BY OpenedConn
<1>4. server[c] = "open" /\ f # Listen /\ f \in AllFds
  BY <1>3, OpenedConn DEF EdgeInv, TabInv, AllFds
<1>5. \A d \in Clients : InHand(d) = 0  BY <1>1 DEF InHand
<1>6. CASE ReadData \/ ReadErr
  <2>1. /\ TakeData(c) \/ TakeErr(c)
        /\ UNCHANGED <<edge, level, cur>>
    BY <1>2, <1>3, <1>6 DEF ReadData, ReadErr, Conn
  <2>2. NetInv' /\ OnlyOf(c)  BY <1>4, <2>1, TakeOnly
  <2>3. UNCHANGED <<fdtab, rdy, batch>>  BY <2>1 DEF edge
  <2>4. EdgeInv' /\ Opened' = Opened /\ \A g \in {Listen} \cup (Opened \ {f}) : Same(g)
    BY <1>3, <2>2, <2>3, ConnKeeps
  <2>5. Refines  BY <2>1, TakeRefines DEF EdgeInv
  <2>6. wpc' \in {"read", "write"} /\ alive' \in BOOLEAN
    BY <1>6 DEF ReadData, ReadErr, LtTypes
  <2>7. LtTypes' /\ AtWork'
    BY <1>1, <2>1, <2>3, <2>4, <2>6 DEF LtTypes, AtWork
  <2>8. Kept'
    <3>1. \A g \in batch : g \in {Listen} \cup (Opened \ {f})
      BY <1>1, <1>2 DEF AtWork
    <3>. QED  BY <1>2, <2>1, <2>3, <2>4, <2>6, <3>1 DEF Kept, Same
  <2>9. Counts'
    <3>1. CASE ReadData
      <4>1. /\ nread' = [nread EXCEPT ![c] = @ + 1] /\ wpc' = "write"
            /\ UNCHANGED <<peer, echoed>>
        BY <1>2, <1>3, <3>1 DEF ReadData, Conn, TakeData
      <4>2. \A d \in Clients : InHand(d)' = IF d = c THEN 1 ELSE 0
        BY <1>2, <1>3, <2>1, <2>3, <4>1 DEF InHand
      <4>. QED
        BY <1>5, <4>1, <4>2 DEF Counts, EdgeInv, NetInv, NetTypeOK
    <3>2. CASE ReadErr
      <4>1. /\ peer' = [peer EXCEPT ![c] = "broken"] /\ wpc' = "read"
            /\ UNCHANGED <<nread, echoed>>
        BY <1>1, <1>2, <1>3, <3>2 DEF ReadErr, Conn, TakeErr
      <4>2. \A d \in Clients : InHand(d)' = 0  BY <4>1 DEF InHand
      <4>. QED
        BY <1>5, <4>1, <4>2 DEF Counts, Reads, EdgeInv, NetInv, NetTypeOK
    <3>. QED  BY <1>6, <3>1, <3>2
  <2>. QED  BY <2>4, <2>5, <2>7, <2>8, <2>9
<1>7. CASE ReadEof
  <2>1. /\ EofReady(c) /\ CloseFd(f) /\ wpc' = "next"
        /\ UNCHANGED <<batch, level, cur, alive>>
    BY <1>2, <1>3, <1>7 DEF ReadEof, Conn
  <2>2. /\ EdgeInv' /\ Opened' = Opened \ {f} /\ rdy' = rdy \ {f}
        /\ \A g \in {Listen} \cup (Opened \ {f}) : Same(g)
        /\ UNCHANGED <<peer, nsent, nread, echoed, got, backlog>>
    BY <1>1, <1>2, <2>1, CloseFdKeeps
  <2>3. LtTypes' /\ AtWork'
    BY <1>1, <1>2, <2>1, <2>2 DEF LtTypes, AtWork
  <2>4. Kept'
    <3>1. \A g \in batch : g \in {Listen} \cup (Opened \ {f})
      BY <1>1, <1>2 DEF AtWork
    <3>. QED  BY <1>2, <2>1, <2>2, <3>1 DEF Kept, Same
  <2>5. \A d \in Clients : InHand(d)' = 0  BY <2>1 DEF InHand
  <2>6. Counts'  BY <1>5, <2>2, <2>5, CountsFrame
  <2>7. Served(c)
    BY <1>5, <2>1 DEF Served, EofReady, AtEof, Reads, Counts, EdgeInv, NetInv, NetTypeOK
  <2>8. server' = [server EXCEPT ![c] = "closed"]
    BY <1>3, <2>1 DEF CloseFd, Released
  <2>9. Refines  BY <2>2, <2>7, <2>8, CloseRefines DEF EdgeInv
  <2>. QED  BY <2>2, <2>3, <2>4, <2>6, <2>9
<1>. QED  BY <1>6, <1>7

LEMMA LtWrite ==
  ASSUME LtInv, alive, Write \/ WriteFails
  PROVE  LtInv' /\ Refines
<1>. USE DEF LtInv
<1>1. wpc = "write" /\ cur \in Opened /\ cur \notin batch
  BY DEF Write, WriteFails, AtWork
<1>2. PICK f \in Opened : f = cur  BY <1>1
<1>3. PICK c \in Clients : c = fdtab[f]  BY OpenedConn
<1>4. server[c] = "open" /\ f # Listen /\ f \in AllFds
  BY <1>3, OpenedConn DEF EdgeInv, TabInv, AllFds
<1>5. \A d \in Clients : InHand(d) = IF d = c THEN 1 ELSE 0
  BY <1>1, <1>2, <1>3 DEF InHand
<1>6. CASE Write
  <2>1. /\ peer[c] # "rst" /\ WriteBack(c, <<c, nread[c]>>)
        /\ rdy' \in {rdy, rdy \cup {f}} /\ wpc' \in {"next", "read"}
        /\ (level <=> wpc' = "next")
        /\ UNCHANGED <<fdtab, batch, level, cur, alive>>
    BY <1>2, <1>3, <1>6 DEF Write, Conn, Woken, LtTypes
  <2>2. <<c, nread[c]>> \in Chunks  BY DEF Chunks, EdgeInv, NetInv, NetTypeOK
  <2>3. /\ NetInv' /\ OnlyOf(c) /\ UNCHANGED nread
        /\ \E p \in AfterWrite(peer[c]) : peer' = [peer EXCEPT ![c] = p]
    BY <1>4, <2>1, <2>2, WriteOnly
  <2>4. EdgeInv' /\ Opened' = Opened /\ \A g \in {Listen} \cup (Opened \ {f}) : Same(g)
    BY <1>3, <2>1, <2>3, ConnKeeps
  <2>5. LtTypes' /\ AtWork'
    BY <1>1, <1>2, <2>1, <2>4 DEF LtTypes, AtWork
  <2>6. Kept'
    <3>1. \A g \in batch : g \in {Listen} \cup (Opened \ {f})
      BY <1>1, <1>2 DEF AtWork
    <3>2. level => f \in rdy'  BY <1>1, <1>2, <2>1 DEF AtWork
    <3>. QED  BY <1>2, <2>1, <2>4, <3>1, <3>2 DEF Kept, Same
  <2>7. /\ nread[c] \in Nat /\ nsent[c] \in Nat /\ nread[c] <= nsent[c]
        /\ echoed[c] \in Seq(Lines) /\ Len(echoed[c]) \in Nat /\ peer[c] \in PeerStates
    BY DEF EdgeInv, NetInv, NetTypeOK, ConnInv
  <2>8. Reads(peer[c]) => nread[c] = Len(echoed[c]) + 1
    BY <1>5 DEF Counts
  <2>9. Refines
    BY <1>4, <2>1, <2>7, <2>8, WriteBackRefines DEF EdgeInv
  <2>10. Counts'
    <3>1. \A d \in Clients : InHand(d)' = 0  BY <2>1 DEF InHand
    <3>2. Reads(peer'[c]) => Reads(peer[c])
      <4>1. PICK p \in AfterWrite(peer[c]) : peer' = [peer EXCEPT ![c] = p]  BY <2>3
      <4>2. peer'[c] = p  BY <4>1 DEF EdgeInv, NetInv, NetTypeOK
      <4>. QED  BY <2>7, <4>1, <4>2, AfterWriteFacts DEF Reads
    <3>3. Reads(peer[c]) => Len(echoed'[c]) = Len(echoed[c]) + 1
      BY <2>1, <2>2, <2>7 DEF WriteBack, EdgeInv, NetInv, NetTypeOK
    <3>4. \A d \in Clients : d # c => echoed'[d] = echoed[d] /\ peer'[d] = peer[d]
      BY <2>1, <2>3 DEF WriteBack, OnlyOf
    <3>. QED  BY <1>5, <2>3, <2>7, <2>8, <3>1, <3>2, <3>3, <3>4 DEF Counts
  <2>. QED  BY <2>4, <2>5, <2>6, <2>9, <2>10
<1>7. CASE WriteFails
  <2>1. UNCHANGED <<net, edge, level, wpc, cur>> /\ alive' = FALSE
    BY <1>7 DEF WriteFails
  <2>2. EdgeInv' /\ Opened' = Opened  BY <2>1, EdgeFrame DEF edge
  <2>3. LtTypes' /\ AtWork'  BY <2>1, <2>2 DEF LtTypes, AtWork, edge
  <2>4. Counts'  BY <2>1, CountsFrame DEF InHand, net, edge
  <2>. QED  BY <2>1, <2>2, <2>3, <2>4, FrameRefines
<1>. QED  BY <1>6, <1>7

LEMMA LtNext == LtInv /\ [Next]_vars => LtInv' /\ Refines
<1>. SUFFICES ASSUME LtInv, [Next]_vars PROVE LtInv' /\ Refines  OBVIOUS
<1>1. CASE Loop
  BY <1>1, LtBetween, LtRead, LtWrite DEF Loop
<1>2. ASSUME NEW c \in Clients, ClientStep(c) PROVE LtInv' /\ Refines
  BY <1>2, LtClient
<1>3. CASE UNCHANGED vars
  <2>1. UNCHANGED <<net, fdtab, rdy, batch, level, wpc, cur, alive>>
    BY <1>3 DEF vars, edge, handler
  <2>2. EdgeInv' /\ Opened' = Opened /\ \A f \in AllFds : Same(f)
    BY <2>1, EdgeFrame DEF LtInv
  <2>3. LtTypes' /\ AtWork'  BY <2>1, <2>2 DEF LtInv, LtTypes, AtWork
  <2>4. Opened \subseteq AllFds /\ batch \subseteq AllFds
    BY DEF LtInv, Opened, AllFds, EdgeInv, EdgeTypeOK
  <2>5. alive' => Kept'  BY <2>1, <2>2, <2>4 DEF LtInv, Kept, Same
  <2>6. Counts'  BY <2>1, CountsFrame DEF LtInv, InHand, net
  <2>. QED  BY <2>1, <2>2, <2>3, <2>5, <2>6, FrameRefines DEF LtInv
<1>. QED  BY <1>1, <1>2, <1>3 DEF Next

LEMMA LtKept == LtInv => EdgeKept
BY OpenedConn DEF LtInv, EdgeKept, TypeOK, LtTypes, AtWork, Kept, EdgeInv, TabInv

-----------------------------------------------------------------------------
(* tcp_echo_epoll_et_server.c. *)

\* Both programs see the same clients and the same epoll instance.
LEMMA SameNet ==
  /\ EtServer!EdgeInit <=> EdgeInit
  /\ \A c \in Clients : EtServer!Arrives(c, EtServer!Fds) <=> Arrives(c, Fds)
  /\ EtServer!Report({EtServer!Listen}) <=> Report({Listen})
  /\ \A f : (EtServer!Event(f) <=> Event(f)) /\ (EtServer!CloseFd(f) <=> CloseFd(f))
  /\ EtServer!AcceptAndAdd <=> AcceptAndAdd
<1>1. EtServer!EdgeInit <=> EdgeInit
  BY DEF EtServer!EdgeInit, EdgeInit, EtServer!NetInit, NetInit, EtServer!Fds, Fds
<1>2. \A c \in Clients : EtServer!Arrives(c, EtServer!Fds) <=> Arrives(c, Fds)
  BY DEF EtServer!Arrives, Arrives, EtServer!Connect, Connect, EtServer!ClientWrite, ClientWrite,
    EtServer!Shutdown, Shutdown, EtServer!Kill, Kill, EtServer!ClientRead, ClientRead,
    EtServer!FdsOf, FdsOf, EtServer!Fds, Fds, EtServer!Listen, Listen, EtServer!Reads, Reads,
    EtServer!CloseBy, CloseBy
<1>3. EtServer!Report({EtServer!Listen}) <=> Report({Listen})
  BY DEF EtServer!Report, Report, EtServer!Ready, Ready, EtServer!Listen, Listen,
    EtServer!Readable, Readable, EtServer!DataReady, DataReady, EtServer!EofReady, EofReady,
    EtServer!ErrReady, ErrReady, EtServer!AtEof, AtEof, EtServer!net, net
<1>4. \A f : (EtServer!Event(f) <=> Event(f)) /\ (EtServer!CloseFd(f) <=> CloseFd(f))
  BY DEF EtServer!Event, Event, EtServer!CloseFd, CloseFd, EtServer!Released, Released
<1>5. EtServer!AcceptAndAdd <=> AcceptAndAdd
  BY DEF EtServer!AcceptAndAdd, AcceptAndAdd, EtServer!LowestFree, LowestFree,
    EtServer!Accepted, Accepted, EtServer!Fds, Fds,
    EtServer!Readable, Readable, EtServer!DataReady, DataReady, EtServer!EofReady, EofReady,
    EtServer!ErrReady, ErrReady, EtServer!AtEof, AtEof
<1>. QED  BY <1>1, <1>2, <1>3, <1>4, <1>5

LEMMA SameCalls ==
  ASSUME NEW c
  PROVE  /\ EtServer!TakeData(c) <=> TakeData(c)
         /\ EtServer!TakeErr(c) <=> TakeErr(c)
         /\ EtServer!Readable(c) <=> Readable(c)
         /\ EtServer!EofReady(c) <=> EofReady(c)
         /\ \A chunk : EtServer!WriteBack(c, chunk) <=> WriteBack(c, chunk)
         /\ EtServer!RaisesSigpipe(peer[c]) <=> RaisesSigpipe(peer[c])
<1>. USE DEF EtServer!DataReady, DataReady, EtServer!EofReady, EofReady,
       EtServer!ErrReady, ErrReady, EtServer!AtEof, AtEof
<1>1. /\ EtServer!TakeData(c) <=> TakeData(c)
      /\ EtServer!TakeErr(c) <=> TakeErr(c)
      /\ EtServer!Readable(c) <=> Readable(c)
      /\ EtServer!EofReady(c) <=> EofReady(c)
  BY DEF EtServer!TakeData, TakeData, EtServer!TakeErr, TakeErr, EtServer!Readable, Readable
<1>2. \A chunk : EtServer!WriteBack(c, chunk) <=> WriteBack(c, chunk)
  BY DEF EtServer!WriteBack, WriteBack, EtServer!Room, Room, EtServer!Reads, Reads,
    EtServer!AfterWrite, AfterWrite, EtServer!RaisesSigpipe, RaisesSigpipe
<1>. QED  BY <1>1, <1>2 DEF EtServer!RaisesSigpipe, RaisesSigpipe

EtTypes ==
  /\ wpc \in {"next", "read", "write"} /\ cur \in AllFds /\ alive \in BOOLEAN
  /\ buf \in Lines
  /\ batch \subseteq {Listen} \cup Opened /\ (wpc # "next" => cur \in Opened \ batch)
  /\ Listen \in batch => Listen \in rdy

EtListed == \A f \in Opened \cup {Listen} : Ready(f) =>
  f \in rdy \cup batch \/ (wpc # "next" /\ cur = f)

\* What was sent back was read before; the chunk in the buffer is newer than
\* all of that, unless a reset was read, and then nothing is sent.
Older == \A c \in Clients :
  /\ \A k \in DOMAIN echoed[c] : echoed[c][k][1] = c /\ echoed[c][k][2] <= nread[c]
  /\ \A j, k \in DOMAIN echoed[c] : j < k => echoed[c][j][2] < echoed[c][k][2]
Fresh == wpc = "write" => LET c == fdtab[cur] IN
  \/ peer[c] = "broken"
  \/ /\ buf = <<c, nread[c]>>
     /\ \A k \in DOMAIN echoed[c] : echoed[c][k][2] < nread[c]

EtInv == EdgeInv /\ EtTypes /\ (alive => EtListed) /\ Older /\ Fresh

LEMMA EtInit == EtServer!Init => EtInv
<1>. SUFFICES ASSUME EtServer!Init PROVE EtInv  OBVIOUS
<1>1. EdgeInit /\ wpc = "next" /\ cur = Listen /\ buf = NoChunk /\ alive = TRUE
  BY SameNet DEF EtServer!Init, EtServer!Listen, Listen, EtServer!NoChunk, NoChunk
<1>2. NetInv /\ NetTypeOK  BY <1>1, NetInitInv DEF EdgeInit, NetInv
<1>3. Opened = {}  BY <1>1 DEF EdgeInit, Opened
<1>4. EdgeInv  BY <1>1, <1>2, <1>3 DEF EdgeInit, EdgeInv, EdgeTypeOK, TabInv
<1>5. Older /\ Fresh  BY <1>1 DEF EdgeInit, NetInit, Older, Fresh
<1>. QED
  BY <1>1, <1>3, <1>4, <1>5 DEF EdgeInit, NetInit, EtInv, EtTypes, EtListed, Ready, AllFds, Lines

\* Steps that leave the chunks alone and do not start a round.
LEMMA FreshFrame ==
  ASSUME EtInv, UNCHANGED <<nread, echoed>>, wpc' = "write" => wpc = "write" /\ UNCHANGED <<fdtab, cur, buf>>,
         \A c \in Clients : peer[c] = "broken" => peer'[c] = "broken"
  PROVE  Older' /\ Fresh'
<1>1. wpc = "write" => fdtab[cur] \in Clients
  BY OpenedConn DEF EtInv, EtTypes
<1>. QED  BY <1>1 DEF EtInv, Older, Fresh

LEMMA EtClient ==
  ASSUME EtInv, NEW c \in Clients, EtServer!ClientStep(c)
  PROVE  EtInv'
<1>1. Arrives(c, Fds) /\ UNCHANGED <<wpc, cur, buf, alive>>
  BY SameNet DEF EtServer!ClientStep, EtServer!handler
<1>2. /\ EdgeInv' /\ Opened' = Opened /\ UNCHANGED <<fdtab, batch>> /\ rdy \subseteq rdy'
      /\ \A f \in {Listen} \cup Opened : Ready(f)' => Ready(f) \/ f \in rdy'
  BY <1>1, ArrivesKeeps DEF EtInv, Opened
<1>3. EtTypes'  BY <1>1, <1>2 DEF EtInv, EtTypes
<1>4. alive' => EtListed'  BY <1>1, <1>2 DEF EtInv, EtListed
<1>5. Client(c) /\ UNCHANGED <<nread, echoed>>
  BY <1>1 DEF Arrives, Client, Connect, ClientWrite, Shutdown, Kill, ClientRead
<1>6. \A d \in Clients : peer[d] = "broken" => peer'[d] = "broken"
  BY <1>5 DEF Client, Connect, ClientWrite, Shutdown, Kill, ClientRead, Reads, EtInv, EdgeInv,
    NetInv, NetTypeOK
<1>7. Older' /\ Fresh'  BY <1>1, <1>2, <1>5, <1>6, FreshFrame
<1>. QED  BY <1>2, <1>3, <1>4, <1>7 DEF EtInv

LEMMA EtBetween ==
  ASSUME EtInv, alive,
         \/ EtServer!EpollWait \/ EtServer!Accept \/ EtServer!AcceptFail
         \/ (\E f \in EtServer!Fds : EtServer!Handle(f)) \/ EtServer!ReadAgain
  PROVE  EtInv'
<1>. USE DEF EtInv
<1>0. Opened \subseteq AllFds /\ batch \subseteq AllFds /\ rdy \subseteq AllFds /\ Listen \in AllFds
  BY DEF Opened, AllFds, EdgeInv, EdgeTypeOK
<1>1. CASE EtServer!EpollWait
  <2>1. PICK L \in SUBSET AllFds : L = {Listen} /\ Report(L)
    BY <1>1, SameNet DEF EtServer!EpollWait, AllFds
  <2>2. /\ EdgeInv' /\ Opened' = Opened /\ \A f \in AllFds : Same(f)
        /\ batch' = {f \in rdy : Ready(f)} /\ rdy' = batch' \cap L /\ batch = {}
    BY <2>1, ReportKeeps
  <2>3. UNCHANGED <<wpc, cur, buf, alive>> /\ wpc = "next" /\ UNCHANGED <<net, fdtab>>
    BY <1>1, <2>1 DEF EtServer!EpollWait, EtServer!handler, Report
  <2>4. EtTypes'  BY <2>1, <2>2, <2>3 DEF EtTypes, EdgeInv, TabInv
  <2>5. EtListed'  BY <1>0, <2>2, <2>3 DEF EtListed, Same
  <2>6. Older' /\ Fresh'  BY <2>3, FreshFrame DEF net
  <2>. QED  BY <2>2, <2>4, <2>5, <2>6
<1>2. CASE EtServer!Accept
  <2>0. Event(Listen) /\ AcceptAndAdd
    BY <1>2, SameNet DEF EtServer!Accept, EtServer!Listen, Listen
  <2>1. /\ EdgeInv' /\ rdy \subseteq rdy' /\ batch' = batch \ {Listen} /\ Listen \in batch
        /\ \A g \in Opened : Same(g) /\ fdtab'[g] = fdtab[g]
        /\ UNCHANGED <<peer, nsent, nread, echoed, got>>
    BY <2>0, AddKeeps
  <2>2. PICK f \in Fds : /\ f \notin Opened /\ Opened' = Opened \cup {f}
                         /\ Ready(f)' => f \in rdy'
    BY <2>0, AddKeeps
  <2>3. UNCHANGED <<wpc, cur, buf, alive>> /\ wpc = "next"
    BY <1>2 DEF EtServer!Accept, EtServer!handler
  <2>4. EtTypes'  BY <2>1, <2>2, <2>3 DEF EtTypes
  <2>5. \A g \in Opened : g # Listen  BY OpenedConn
  <2>6. \A g \in Opened : Ready(g)' => g \in rdy' \cup batch'
    BY <2>1, <2>3, <2>5 DEF EtListed, Same
  <2>7. Listen \in rdy'  BY <2>1 DEF EtTypes
  <2>8. EtListed'  BY <2>2, <2>6, <2>7 DEF EtListed
  <2>9. Older' /\ Fresh'  BY <2>1, <2>3, FreshFrame
  <2>. QED  BY <2>1, <2>4, <2>8, <2>9
<1>3. CASE EtServer!AcceptFail
  <2>1. UNCHANGED <<net, fdtab, rdy, wpc, cur, buf>> /\ batch' = batch \ {Listen}
        /\ alive' = FALSE /\ wpc = "next"
    BY <1>3, SameNet DEF EtServer!AcceptFail, Event, EtServer!Listen, Listen, EtServer!net, net
  <2>2. EdgeInv' /\ Opened' = Opened  BY <2>1, EdgeFrame
  <2>3. EtTypes'  BY <2>1, <2>2 DEF EtTypes
  <2>4. Older' /\ Fresh'  BY <2>1, FreshFrame DEF net
  <2>. QED  BY <2>1, <2>2, <2>3, <2>4
<1>4. ASSUME NEW f \in EtServer!Fds, EtServer!Handle(f) PROVE EtInv'
  <2>1. /\ UNCHANGED <<net, fdtab, rdy, buf, alive>> /\ batch' = batch \ {f} /\ f \in batch
        /\ wpc = "next" /\ wpc' = "read" /\ cur' = f /\ f # Listen
    BY <1>4, SameNet DEF EtServer!Handle, Event, EtServer!Listen, Listen, EtServer!net, net
  <2>2. EdgeInv' /\ Opened' = Opened /\ \A g \in AllFds : Same(g)
    BY <2>1, EdgeFrame
  <2>3. f \in Opened  BY <2>1 DEF EtTypes
  <2>4. EtTypes'  BY <1>0, <2>1, <2>2, <2>3 DEF EtTypes
  <2>5. EtListed'  BY <1>0, <2>1, <2>2 DEF EtListed, Same
  <2>6. Older' /\ Fresh'  BY <2>1, FreshFrame DEF net
  <2>. QED  BY <2>2, <2>4, <2>5, <2>6
<1>5. CASE EtServer!ReadAgain
  <2>1. /\ UNCHANGED <<net, fdtab, rdy, batch, cur, buf, alive>>
        /\ wpc = "read" /\ wpc' = "next" /\ ~Readable(fdtab[cur])
    BY <1>5, SameCalls DEF EtServer!ReadAgain, EtServer!Conn, EtServer!edge, EtServer!net, net
  <2>2. EdgeInv' /\ Opened' = Opened /\ \A g \in AllFds : Same(g)
    BY <2>1, EdgeFrame
  <2>3. EtTypes'  BY <2>1, <2>2 DEF EtTypes
  <2>4. EtListed'
    <3>1. cur \in Opened /\ cur # Listen  BY <2>1, OpenedConn DEF EtTypes
    <3>2. ~Ready(cur)  BY <2>1, <3>1 DEF Ready
    <3>. QED  BY <1>0, <2>1, <2>2, <3>2 DEF EtListed, Same
  <2>5. Older' /\ Fresh'  BY <2>1, FreshFrame DEF net
  <2>. QED  BY <2>2, <2>3, <2>4, <2>5
<1>. QED  BY <1>1, <1>2, <1>3, <1>4, <1>5

LEMMA EtRead ==
  ASSUME EtInv, alive, EtServer!ReadData \/ EtServer!ReadEof \/ EtServer!ReadErr
  PROVE  EtInv'
<1>. USE DEF EtInv
<1>1. wpc = "read" /\ cur \in Opened /\ cur \notin batch
  BY DEF EtServer!ReadData, EtServer!ReadEof, EtServer!ReadErr, EtTypes
<1>2. PICK f \in Opened : f = cur  BY <1>1
<1>3. PICK c \in Clients : c = fdtab[f]  BY OpenedConn
<1>4. server[c] = "open" /\ f # Listen /\ f \in AllFds
  BY <1>3, OpenedConn DEF EdgeInv, TabInv, AllFds
<1>5. CASE EtServer!ReadData \/ EtServer!ReadErr
  <2>1. /\ TakeData(c) \/ TakeErr(c)
        /\ UNCHANGED <<fdtab, rdy, batch, cur, alive>>
    BY <1>2, <1>3, <1>5, SameCalls
    DEF EtServer!ReadData, EtServer!ReadErr, EtServer!Conn, EtServer!edge
  <2>2. wpc' = "write"  BY <1>5 DEF EtServer!ReadData, EtServer!ReadErr
  <2>3. NetInv' /\ OnlyOf(c)  BY <1>4, <2>1, TakeOnly
  <2>4. EdgeInv' /\ Opened' = Opened /\ \A g \in {Listen} \cup (Opened \ {f}) : Same(g)
    BY <1>3, <2>1, <2>3, ConnKeeps
  <2>5. EtListed'
    BY <1>2, <2>1, <2>2, <2>4 DEF EtListed, Same
  <2>6. /\ nread \in [Clients -> Nat] /\ echoed \in [Clients -> Seq(Lines)]
        /\ \A d \in Clients : \A k \in DOMAIN echoed[d] :
             echoed[d][k] \in Clients \X Nat \/ echoed[d][k] = <<NoConn, 0>>
    BY DEF EdgeInv, NetInv, NetTypeOK, Chunks, Lines, NoChunk
  <2>7. \A d \in Clients : \A k \in DOMAIN echoed[d] : echoed[d][k][2] \in Nat
    BY <2>6
  <2>8. CASE EtServer!ReadData
    <3>1. /\ buf' = <<c, nread[c] + 1>> /\ nread' = [nread EXCEPT ![c] = @ + 1]
          /\ UNCHANGED echoed
      BY <1>2, <1>3, <2>8, SameCalls DEF EtServer!ReadData, EtServer!Conn, TakeData
    <3>2. EtTypes'
      <4>1. buf' \in Chunks  BY <2>6, <3>1 DEF Chunks
      <4>. QED  BY <2>1, <2>2, <2>4, <1>1, <4>1 DEF EtTypes, Lines
    <3>3. nread'[c] = nread[c] + 1 /\ \A d \in Clients : nread[d] <= nread'[d] /\ nread[d] \in Nat /\ nread'[d] \in Nat
      BY <2>6, <3>1
    <3>4. Older'  BY <2>7, <3>1, <3>3 DEF Older
    <3>5. Fresh'
      <4>1. \A k \in DOMAIN echoed[c] : echoed[c][k][2] < nread'[c]
        BY <2>7, <3>3 DEF Older
      <4>. QED  BY <1>2, <1>3, <2>1, <3>1, <3>3, <4>1 DEF Fresh
    <3>. QED  BY <2>4, <2>5, <3>2, <3>4, <3>5
  <2>9. CASE EtServer!ReadErr
    <3>1. /\ UNCHANGED <<nread, echoed, buf>> /\ peer'[c] = "broken"
      BY <1>2, <1>3, <2>9, SameCalls
      DEF EtServer!ReadErr, EtServer!Conn, TakeErr, EdgeInv, NetInv, NetTypeOK
    <3>2. EtTypes'  BY <1>1, <2>1, <2>2, <2>4, <3>1 DEF EtTypes
    <3>3. Older'  BY <3>1 DEF Older
    <3>4. Fresh'  BY <1>2, <1>3, <2>1, <3>1 DEF Fresh
    <3>. QED  BY <2>4, <2>5, <3>2, <3>3, <3>4
  <2>. QED  BY <1>5, <2>8, <2>9
<1>6. CASE EtServer!ReadEof
  <2>1. CloseFd(f) /\ wpc' = "next" /\ UNCHANGED <<batch, cur, buf, alive>>
    BY <1>2, <1>6, SameNet DEF EtServer!ReadEof
  <2>2. /\ EdgeInv' /\ Opened' = Opened \ {f} /\ rdy' = rdy \ {f}
        /\ \A g \in {Listen} \cup (Opened \ {f}) : Same(g)
        /\ UNCHANGED <<peer, nsent, nread, echoed, got, backlog>>
    BY <1>1, <1>2, <2>1, CloseFdKeeps
  <2>3. EtTypes'  BY <1>1, <1>2, <1>4, <2>1, <2>2 DEF EtTypes
  <2>4. EtListed'  BY <1>2, <1>4, <2>1, <2>2 DEF EtListed, Same
  <2>5. Older' /\ Fresh'  BY <2>1, <2>2, FreshFrame
  <2>. QED  BY <2>2, <2>3, <2>4, <2>5
<1>. QED  BY <1>5, <1>6

LEMMA EtWrite ==
  ASSUME EtInv, alive, EtServer!Write \/ EtServer!WriteAgain \/ EtServer!WriteSigpipe
  PROVE  EtInv'
<1>. USE DEF EtInv
<1>1. wpc = "write" /\ cur \in Opened /\ cur \notin batch
  BY DEF EtServer!Write, EtServer!WriteAgain, EtServer!WriteSigpipe, EtTypes
<1>2. PICK f \in Opened : f = cur  BY <1>1
<1>3. PICK c \in Clients : c = fdtab[f]  BY OpenedConn
<1>4. server[c] = "open" /\ f # Listen /\ f \in AllFds
  BY <1>3, OpenedConn DEF EdgeInv, TabInv, AllFds
<1>5. CASE EtServer!Write
  <2>1. /\ WriteBack(c, buf) /\ rdy' \in {rdy, rdy \cup {f}} /\ wpc' = "read"
        /\ UNCHANGED <<fdtab, batch, cur, buf, alive>>
    BY <1>2, <1>3, <1>5, SameCalls DEF EtServer!Write, EtServer!Conn, EtServer!Woken
  <2>2. buf = <<c, nread[c]>> /\ \A k \in DOMAIN echoed[c] : echoed[c][k][2] < nread[c]
    BY <1>1, <1>2, <1>3, <2>1 DEF Fresh, WriteBack, RaisesSigpipe
  <2>3. buf \in Chunks  BY <2>2 DEF Chunks, EdgeInv, NetInv, NetTypeOK
  <2>4. NetInv' /\ OnlyOf(c) /\ UNCHANGED nread
    BY <1>4, <2>1, <2>3, WriteOnly
  <2>5. EdgeInv' /\ Opened' = Opened /\ \A g \in {Listen} \cup (Opened \ {f}) : Same(g)
    BY <1>3, <2>1, <2>4, ConnKeeps
  <2>6. EtTypes'  BY <1>1, <2>1, <2>5 DEF EtTypes
  <2>7. EtListed'  BY <1>2, <2>1, <2>5 DEF EtListed, Same
  <2>8. /\ \A d \in Clients : d # c => echoed'[d] = echoed[d]
        /\ echoed'[c] \in {echoed[c], Append(echoed[c], <<c, nread[c]>>)}
        /\ echoed[c] \in Seq(Lines) /\ nread[c] \in Nat
    BY <2>1, <2>2 DEF WriteBack, EdgeInv, NetInv, NetTypeOK
  <2>9. Older'
    <3>1. CASE echoed'[c] = echoed[c]
      <4>1. \A d \in Clients : echoed'[d] = echoed[d]  BY <2>8, <3>1
      <4>. QED  BY <2>4, <4>1 DEF Older
    <3>2. CASE echoed'[c] = Append(echoed[c], <<c, nread[c]>>)
      <4>1. /\ DOMAIN echoed[c] = 1..Len(echoed[c]) /\ Len(echoed[c]) \in Nat
            /\ DOMAIN echoed'[c] = 1..(Len(echoed[c]) + 1)
            /\ echoed'[c][Len(echoed[c]) + 1] = <<c, nread[c]>>
            /\ \A k \in DOMAIN echoed[c] : echoed'[c][k] = echoed[c][k]
        BY <2>8, <3>2
      <4>2. \A k \in DOMAIN echoed'[c] : k \in DOMAIN echoed[c] \/ k = Len(echoed[c]) + 1
        BY <4>1
      <4>3. \A k \in DOMAIN echoed'[c] : echoed'[c][k][1] = c /\ echoed'[c][k][2] <= nread[c]
        BY <2>8, <4>1, <4>2 DEF Older
      <4>4. \A j, k \in DOMAIN echoed'[c] : j < k => echoed'[c][j][2] < echoed'[c][k][2]
        <5>1. TAKE j, k \in DOMAIN echoed'[c]
        <5>2. CASE k \in DOMAIN echoed[c]
          <6>1. j < k => j \in DOMAIN echoed[c]  BY <4>1, <5>2
          <6>. QED  BY <4>1, <5>2, <6>1 DEF Older
        <5>3. CASE k = Len(echoed[c]) + 1
          <6>1. j < k => j \in DOMAIN echoed[c]  BY <4>1, <5>3
          <6>. QED  BY <2>2, <4>1, <5>3, <6>1
        <5>. QED  BY <4>2, <5>2, <5>3
      <4>. QED  BY <2>4, <2>8, <4>3, <4>4 DEF Older
    <3>. QED  BY <2>8, <3>1, <3>2
  <2>10. Fresh'  BY <2>1 DEF Fresh
  <2>. QED  BY <2>5, <2>6, <2>7, <2>9, <2>10
<1>6. CASE EtServer!WriteAgain \/ EtServer!WriteSigpipe
  <2>1. /\ UNCHANGED <<net, fdtab, rdy, batch, cur, buf>>
        /\ \/ wpc' = "read" /\ alive' = alive
           \/ wpc' = wpc /\ alive' = FALSE
    BY <1>6 DEF EtServer!WriteAgain, EtServer!WriteSigpipe, EtServer!net, net, EtServer!edge
  <2>2. EdgeInv' /\ Opened' = Opened /\ \A g \in AllFds : Same(g)
    BY <2>1, EdgeFrame
  <2>3. EtTypes'  BY <1>1, <2>1, <2>2 DEF EtTypes
  <2>4. alive' => EtListed'
    <3>1. Opened \cup {Listen} \subseteq AllFds  BY DEF Opened, AllFds
    <3>. QED  BY <1>1, <2>1, <2>2, <3>1 DEF EtListed, Same
  <2>5. Older' /\ Fresh'  BY <1>1, <2>1, FreshFrame DEF net
  <2>. QED  BY <2>2, <2>3, <2>4, <2>5
<1>. QED  BY <1>5, <1>6

LEMMA EtNext == EtInv /\ EtServer!Next => EtInv'
BY EtClient, EtBetween, EtRead, EtWrite DEF EtServer!Next, EtServer!Loop

LEMMA EtFrame == EtInv /\ UNCHANGED <<vars, buf>> => EtInv'
<1>. SUFFICES ASSUME EtInv, UNCHANGED <<vars, buf>> PROVE EtInv'  OBVIOUS
<1>1. UNCHANGED <<net, fdtab, rdy, batch, wpc, cur, buf, alive>>  BY DEF vars, edge, handler
<1>2. EdgeInv' /\ Opened' = Opened /\ \A g \in AllFds : Same(g)
  BY <1>1, EdgeFrame DEF EtInv
<1>3. EtTypes'  BY <1>1, <1>2 DEF EtInv, EtTypes
<1>4. Opened \cup {Listen} \subseteq AllFds  BY DEF Opened, AllFds
<1>5. alive' => EtListed'  BY <1>1, <1>2, <1>4 DEF EtInv, EtListed, Same
<1>6. Older' /\ Fresh'  BY <1>1, FreshFrame DEF net
<1>. QED  BY <1>2, <1>3, <1>5, <1>6 DEF EtInv

-----------------------------------------------------------------------------
(* epoll_oneshot.c. *)

ShotTypes ==
  /\ armed \in SUBSET AllFds /\ arg \in Fds \cup {NoFd} /\ raced \in BOOLEAN
  /\ left \subseteq {c \in Clients : server[c] # "new"}
  /\ tpc \in [Workers -> {"none", "start", "recv", "rearm", "close"}]
  /\ wfd \in [Workers -> Fds \cup {NoFd}]

Watch == armed \ {Listen} \subseteq Opened /\ rdy \ {Listen} \subseteq armed

\* The thread w is at the descriptor f, or will be when it has read main's
\* struct.
Busy(w) == tpc[w] \in {"recv", "rearm", "close"}
At(w, f) == (tpc[w] = "start" /\ arg = f) \/ (Busy(w) /\ wfd[w] = f)

\* The descriptors of the connections that were left behind.
Behind == {f \in Opened : fdtab[f] \in left}

\* Until an argument is overwritten: what is in the batch or in the hands of a
\* thread is open, and an open descriptor is in one pair of hands, or in none
\* and left behind.
Hands ==
  /\ batch \subseteq {Listen} \cup Opened
  /\ \A w \in Workers : (tpc[w] = "start" => arg \in Opened) /\ (Busy(w) => wfd[w] \in Opened)
  /\ \A w, v \in Workers : \A f \in Opened : At(w, f) /\ At(v, f) => w = v
  /\ \A f \in Opened :
       /\ f \in armed => f \notin batch
       /\ f \in Behind => f \notin armed \cup batch
       /\ f \in armed \cup batch \cup Behind <=> \A w \in Workers : ~At(w, f)

ShotInv == EdgeInv /\ ShotTypes /\ Watch /\ ArmedKept /\ (~raced => Hands)

LEMMA ShotInitInv == ShotInit => ShotInv
<1>. SUFFICES ASSUME ShotInit PROVE ShotInv  OBVIOUS
<1>1. NetInv /\ NetTypeOK  BY NetInitInv DEF ShotInit, EdgeInit, NetInv
<1>2. Opened = {}  BY DEF ShotInit, EdgeInit, Opened
<1>3. EdgeInv  BY <1>1, <1>2 DEF ShotInit, EdgeInit, EdgeInv, EdgeTypeOK, TabInv
<1>4. \A w \in Workers : tpc[w] = "none"  BY DEF ShotInit
<1>5. Hands  BY <1>2, <1>4 DEF ShotInit, EdgeInit, Hands, Busy
<1>. QED
  BY <1>2, <1>3, <1>5 DEF ShotInit, EdgeInit, ShotInv, ShotTypes, Watch, ArmedKept, AllFds

\* What an open descriptor is; Listen is none.
LEMMA ShotFds ==
  ASSUME ShotInv
  PROVE  /\ Opened \subseteq Fds /\ Fds \subseteq AllFds /\ Listen \notin Fds /\ NoFd \notin Fds
         /\ Opened \subseteq AllFds
BY EdgeAssumption DEF Opened, Fds, AllFds, Listen, NoFd

\* Steps that leave the descriptors alone, and the threads where they are.
LEMMA HandsFrame ==
  ASSUME Hands, Opened' = Opened, Behind' = Behind, UNCHANGED <<armed, batch>>,
         \A w \in Workers : \A f \in Opened : At(w, f)' <=> At(w, f),
         \A w \in Workers : (tpc'[w] = "start" => arg' \in Opened) /\ (Busy(w)' => wfd'[w] \in Opened)
  PROVE  Hands'
BY DEF Hands

\* A reset makes the client's own descriptor readable, and puts it on the list
\* when it is armed.
LEMMA ResetKeeps ==
  ASSUME ShotInv, NEW c \in Clients, Reset(c)
  PROVE  /\ EdgeInv' /\ Opened' = Opened /\ UNCHANGED <<fdtab, batch, server>>
         /\ rdy \subseteq rdy' /\ rdy' \subseteq rdy \cup armed
         /\ \A f \in Opened \cap armed : Ready(f)' => Ready(f) \/ f \in rdy'
<1>. USE DEF ShotInv
<1>1. /\ peer[c] \in {"up", "fin"} /\ rdy' = rdy \cup (FdsOf(c) \cap armed)
      /\ UNCHANGED <<nsent, nread, echoed, got, backlog, server, fdtab, batch>>
  BY DEF Reset, Reads
<1>2. PICK p \in {"gone", "rst", "broken"} : peer' = [peer EXCEPT ![c] = p]
  BY <1>1, CloseByFacts, Zenon DEF Reset
<1>3. NetInv' /\ NetTypeOK'
  BY <1>1, <1>2, PeerKeeps DEF EdgeInv, NetInv, PeerStates
<1>4. Opened' = Opened  BY <1>1 DEF Opened
<1>5. FdsOf(c) = {f \in Opened : fdtab[f] = c}
  BY OpenedConn DEF FdsOf, Opened
<1>6. EdgeTypeOK' /\ TabInv'
  BY <1>1, <1>3, <1>4, <1>5, ShotFds DEF EdgeInv, EdgeTypeOK, TabInv
<1>7. ASSUME NEW f \in Opened \cap armed PROVE Ready(f)' => Ready(f) \/ f \in rdy'
  <2>1. CASE fdtab[f] = c  BY <1>1, <1>5, <2>1
  <2>2. CASE fdtab[f] # c
    <3>1. fdtab[f] \in Clients /\ f # Listen  BY OpenedConn
    <3>2. peer'[fdtab[f]] = peer[fdtab[f]]
      BY <1>2, <2>2, <3>1 DEF EdgeInv, NetInv, NetTypeOK
    <3>. QED  BY <1>1, <3>1, <3>2 DEF Ready, Readable, DataReady, EofReady, ErrReady
  <2>. QED  BY <2>1, <2>2
<1>. QED  BY <1>1, <1>3, <1>4, <1>6, <1>7 DEF EdgeInv

\* The kernel: a report disarms.
LEMMA ShotKernel ==
  ASSUME ShotInv, ShotWait \/ (\E c \in Clients : ShotClient(c))
  PROVE  ShotInv'
<1>. USE DEF ShotInv
<1>1. CASE ShotWait
  <2>1. /\ EdgeInv' /\ Opened' = Opened /\ \A f \in AllFds : Same(f)
        /\ batch' = {f \in rdy : Ready(f)} /\ rdy' = {} /\ batch = {}
    BY <1>1, ReportKeeps DEF ShotWait
  <2>2. /\ armed' = (armed \ batch') \cup {Listen}
        /\ UNCHANGED <<arg, tpc, wfd, raced, left, net, fdtab>>
    BY <1>1 DEF ShotWait, Report
  <2>3. ShotTypes' /\ Watch'
    BY <2>1, <2>2 DEF ShotTypes, Watch, AllFds, net
  <2>4. ArmedKept'
    BY <2>1, <2>2, ShotFds DEF ArmedKept, Same
  <2>5. ASSUME ~raced PROVE Hands'
    <3>1. batch' \subseteq {Listen} \cup Opened  BY <2>1 DEF EdgeInv, TabInv
    <3>2. \A f \in Opened : f \in armed' \cup batch' <=> f \in armed \cup batch
      BY <2>1, <2>2, ShotFds DEF Watch
    <3>3. \A f \in Opened : f \in armed' => f \notin batch'
      BY <2>2, ShotFds
    <3>4. \A w \in Workers : \A f : At(w, f)' <=> At(w, f)
      BY <2>2 DEF At, Busy
    <3>5. \A w \in Workers : (tpc'[w] = "start" => arg' \in Opened') /\ (Busy(w)' => wfd'[w] \in Opened')
      BY <2>1, <2>2, <2>5 DEF Hands, Busy
    <3>6. Behind' = Behind  BY <2>1, <2>2 DEF Behind
    <3>. QED  BY <2>1, <2>5, <3>1, <3>2, <3>3, <3>4, <3>5, <3>6 DEF Hands
  <2>. QED  BY <2>1, <2>2, <2>3, <2>4, <2>5
<1>2. ASSUME NEW c \in Clients, ShotClient(c) PROVE ShotInv'
  <2>1. (Arrives(c, armed) \/ Reset(c)) /\ UNCHANGED <<armed, arg, tpc, wfd, raced, left>>
    BY <1>2 DEF ShotClient, work
  <2>2. UNCHANGED server
    BY <2>1 DEF Arrives, Connect, ClientWrite, Shutdown, Kill, ClientRead, Reset
  <2>3. /\ EdgeInv' /\ Opened' = Opened /\ UNCHANGED <<fdtab, batch>>
        /\ rdy \subseteq rdy' /\ rdy' \subseteq rdy \cup {Listen} \cup armed
        /\ \A f \in Opened \cap armed : Ready(f)' => Ready(f) \/ f \in rdy'
    BY <2>1, ArrivesKeeps, ResetKeeps
  <2>4. ShotTypes' /\ Watch' /\ ArmedKept'
    BY <2>1, <2>2, <2>3 DEF ShotTypes, Watch, ArmedKept
  <2>5. Behind' = Behind  BY <2>1, <2>3 DEF Behind
  <2>6. ~raced => Hands'
    BY <2>1, <2>3, <2>5, HandsFrame DEF Hands, At, Busy
  <2>. QED  BY <2>1, <2>3, <2>4, <2>6
<1>. QED  BY <1>1, <1>2

\* main: a new descriptor is armed and in no hands, a thread takes a reported
\* one over.
LEMMA ShotMain ==
  ASSUME ShotInv,
         ShotAccept \/ ShotAcceptFail \/ (\E f \in Fds : CreateThread(f) \/ CreateFails(f))
  PROVE  ShotInv'
<1>. USE DEF ShotInv
<1>1. CASE ShotAccept
  <2>1. /\ EdgeInv' /\ rdy \subseteq rdy' /\ batch' = batch \ {Listen}
        /\ \A g \in Opened : Same(g) /\ fdtab'[g] = fdtab[g]
    BY <1>1, AddKeeps DEF ShotAccept
  <2>2. PICK f \in Fds : /\ f \notin Opened /\ Opened' = Opened \cup {f}
                         /\ Ready(f)' => f \in rdy'
    BY <1>1, AddKeeps DEF ShotAccept
  <2>3. /\ armed' = armed \cup {g \in Fds : fdtab'[g] # fdtab[g]} /\ arg' \in {arg, NoFd} /\ Races
        /\ UNCHANGED <<tpc, wfd, left>>
    BY <1>1 DEF ShotAccept
  <2>4. {g \in Fds : fdtab'[g] # fdtab[g]} = {f}
    <3>1. \A g \in Fds : g \in Opened' <=> fdtab'[g] # NoConn  BY DEF Opened
    <3>2. \A g \in Fds : g \in Opened <=> fdtab[g] # NoConn  BY DEF Opened
    <3>. QED  BY <2>1, <2>2, <3>1, <3>2
  <2>5. \A g \in rdy' : g \in rdy \cup {f}
    BY <1>1, <2>4, <2>2 DEF ShotAccept, AcceptAndAdd
  <2>6. PICK c \in Clients : /\ server[c] = "new" /\ server' = [server EXCEPT ![c] = "open"]
                             /\ \E g \in Fds : fdtab' = [fdtab EXCEPT ![g] = c]
    BY <1>1, AcceptKeeps DEF ShotAccept, AcceptAndAdd, Accepted, EdgeInv, NetInv
  <2>9. ShotTypes'
    <3>1. \A d \in Clients : server[d] # "new" => server'[d] # "new"
      BY <2>6 DEF EdgeInv, NetInv, NetTypeOK
    <3>. QED  BY <2>3, <2>4, <3>1, ShotFds DEF ShotTypes, Races
  <2>10. Behind' = Behind
    <3>1. fdtab'[f] # fdtab[f] /\ f \in Opened'  BY <2>2 DEF Opened
    <3>2. fdtab'[f] = c  BY <2>6, <3>1 DEF EdgeInv, EdgeTypeOK
    <3>3. c \notin left  BY <2>6 DEF ShotTypes
    <3>. QED  BY <2>1, <2>2, <2>3, <3>2, <3>3 DEF Behind
  <2>7. Watch' /\ ArmedKept'
    BY <2>1, <2>2, <2>3, <2>4, <2>5 DEF Watch, ArmedKept, Same
  <2>8. ASSUME ~raced' PROVE Hands'
    <3>1. ~raced /\ (arg' = arg \/ \A w \in Workers : tpc[w] # "start")
      BY <2>3, <2>8 DEF Races
    <3>2. \A w \in Workers : \A g : At(w, g)' <=> At(w, g)
      BY <2>3, <3>1 DEF At, Busy
    <3>3. \A w \in Workers : ~At(w, f)
      BY <2>2, <3>1 DEF Hands, At
    <3>4. \A w \in Workers : (tpc'[w] = "start" => arg' \in Opened') /\ (Busy(w)' => wfd'[w] \in Opened')
      BY <2>2, <2>3, <3>1 DEF Hands, Busy
    <3>5. f \notin batch /\ f # Listen  BY <2>2, <3>1, ShotFds DEF Hands
    <3>6. \A g \in Opened : g # Listen  BY ShotFds
    <3>7. batch' \subseteq {Listen} \cup Opened'  BY <2>1, <2>2, <3>1 DEF Hands
    <3>8. \A w, v \in Workers : \A g \in Opened' : At(w, g)' /\ At(v, g)' => w = v
      BY <2>2, <3>1, <3>2, <3>3 DEF Hands
    <3>9. \A g \in Opened' : /\ g \in armed' => g \notin batch'
                             /\ g \in armed' \cup batch' \cup Behind' <=> \A w \in Workers : ~At(w, g)'
      BY <2>1, <2>2, <2>3, <2>4, <2>10, <3>1, <3>2, <3>3, <3>5, <3>6 DEF Hands
    <3>10. \A g \in Opened' : g \in Behind' => g \notin armed' \cup batch'
      BY <2>1, <2>2, <2>3, <2>4, <2>10, <3>1 DEF Hands, Behind
    <3>. QED  BY <3>4, <3>7, <3>8, <3>9, <3>10 DEF Hands
  <2>. QED  BY <2>1, <2>9, <2>7, <2>8
<1>2. CASE ShotAcceptFail
  <2>1. /\ UNCHANGED <<net, fdtab, rdy, armed, arg, tpc, wfd, raced, left>>
        /\ batch' = batch \ {Listen}
    BY <1>2 DEF ShotAcceptFail, Event, work
  <2>2. EdgeInv' /\ Opened' = Opened /\ \A g \in AllFds : Same(g)
    BY <2>1, EdgeFrame
  <2>3. ShotTypes' /\ Watch' /\ ArmedKept'
    BY <2>1, <2>2, ShotFds DEF ShotTypes, Watch, ArmedKept, Same, net
  <2>4. Behind' = Behind  BY <2>1, <2>2 DEF Behind
  <2>5. ~raced => Hands'
    BY <2>1, <2>2, <2>4, ShotFds DEF Hands, At, Busy
  <2>. QED  BY <2>1, <2>2, <2>3, <2>5
<1>3. ASSUME NEW f \in Fds, CreateThread(f) PROVE ShotInv'
  <2>1. /\ UNCHANGED <<net, fdtab, rdy, armed, wfd, left>> /\ batch' = batch \ {f} /\ f \in batch
        /\ f # Listen /\ arg' = f /\ Races
    BY <1>3 DEF CreateThread, Event
  <2>2. PICK w \in Workers : tpc[w] = "none" /\ tpc' = [tpc EXCEPT ![w] = "start"]
    BY <1>3 DEF CreateThread
  <2>3. EdgeInv' /\ Opened' = Opened /\ \A g \in AllFds : Same(g)
    BY <2>1, EdgeFrame
  <2>4. ShotTypes' /\ Watch' /\ ArmedKept'
    BY <2>1, <2>2, <2>3, ShotFds DEF ShotTypes, Watch, ArmedKept, Same, Races, net
  <2>5. ASSUME ~raced' PROVE Hands'
    <3>1. ~raced /\ (arg = f \/ \A v \in Workers : tpc[v] # "start")
      BY <2>1, <2>5 DEF Races
    <3>2. f \in Opened  BY <2>1, <3>1 DEF Hands
    <3>3. \A v \in Workers : ~At(v, f)  BY <2>1, <3>1, <3>2 DEF Hands
    <3>4. \A v \in Workers : tpc[v] # "start"  BY <3>1, <3>3 DEF At
    <3>5. \A v \in Workers : tpc'[v] = IF v = w THEN "start" ELSE tpc[v]
      BY <2>2 DEF ShotTypes
    <3>6. \A v \in Workers : \A g : At(v, g)' <=> At(v, g) \/ (v = w /\ g = f)
      BY <2>1, <2>2, <3>4, <3>5 DEF At, Busy
    <3>7. \A v \in Workers : (tpc'[v] = "start" => arg' \in Opened') /\ (Busy(v)' => wfd'[v] \in Opened')
      BY <2>1, <2>3, <3>1, <3>2, <3>5 DEF Hands, Busy
    <3>8. \A g : ~At(w, g)  BY <2>2 DEF At, Busy
    <3>11. Behind' = Behind  BY <2>1, <2>3 DEF Behind
    <3>9. \A u, v \in Workers : \A g \in Opened' : At(u, g)' /\ At(v, g)' => u = v
      BY <2>3, <3>1, <3>3, <3>6, <3>8 DEF Hands
    <3>10. \A g \in Opened' : /\ g \in armed' => g \notin batch'
                              /\ g \in armed' \cup batch' \cup Behind' <=> \A v \in Workers : ~At(v, g)'
      BY <2>1, <2>2, <2>3, <3>1, <3>2, <3>6, <3>11 DEF Hands
    <3>12. \A g \in Opened' : g \in Behind' => g \notin armed' \cup batch'
      BY <2>1, <2>3, <3>1, <3>11 DEF Hands
    <3>. QED  BY <2>1, <2>3, <3>1, <3>7, <3>9, <3>10, <3>12 DEF Hands
  <2>. QED  BY <2>3, <2>4, <2>5
<1>4. ASSUME NEW f \in Fds, CreateFails(f) PROVE ShotInv'
  <2>1. /\ UNCHANGED <<net, fdtab, rdy, armed, tpc, wfd>> /\ batch' = batch \ {f} /\ f \in batch
        /\ f # Listen /\ arg' = f /\ Races /\ left' = left \cup ({fdtab[f]} \cap Clients)
    BY <1>4 DEF CreateFails, Event
  <2>2. EdgeInv' /\ Opened' = Opened /\ \A g \in AllFds : Same(g)
    BY <2>1, EdgeFrame
  <2>3. \A c \in left' : c \in Clients /\ server[c] # "new"
    <3>1. fdtab[f] \in Clients => f \in Opened  BY OpenedConn DEF Opened
    <3>. QED  BY <2>1, <3>1 DEF ShotTypes, EdgeInv, TabInv
  <2>4. ShotTypes' /\ Watch' /\ ArmedKept'
    BY <2>1, <2>2, <2>3, ShotFds DEF ShotTypes, Watch, ArmedKept, Same, Races, net
  <2>5. ASSUME ~raced' PROVE Hands'
    <3>1. ~raced /\ (arg = f \/ \A v \in Workers : tpc[v] # "start")
      BY <2>1, <2>5 DEF Races
    <3>2. f \in Opened /\ f \notin armed  BY <2>1, <3>1 DEF Hands
    <3>3. \A v \in Workers : ~At(v, f)  BY <2>1, <3>1, <3>2 DEF Hands
    <3>4. \A v \in Workers : tpc[v] # "start"  BY <3>1, <3>3 DEF At
    <3>5. \A v \in Workers : \A g : At(v, g)' <=> At(v, g)
      BY <2>1, <3>4 DEF At, Busy
    <3>6. Behind' = Behind \cup {f}
      <4>1. \A g \in Opened : fdtab[g] = fdtab[f] => g = f  BY <3>2 DEF EdgeInv, TabInv
      <4>. QED  BY <2>1, <2>2, <3>2, <4>1, OpenedConn DEF Behind
    <3>7. \A v \in Workers : (tpc'[v] = "start" => arg' \in Opened') /\ (Busy(v)' => wfd'[v] \in Opened')
      BY <2>1, <2>2, <3>1, <3>4 DEF Hands, Busy
    <3>8. \A u, v \in Workers : \A g \in Opened' : At(u, g)' /\ At(v, g)' => u = v
      BY <2>2, <3>1, <3>5 DEF Hands
    <3>9. \A g \in Opened' :
            /\ g \in armed' => g \notin batch'
            /\ g \in Behind' => g \notin armed' \cup batch'
            /\ g \in armed' \cup batch' \cup Behind' <=> \A v \in Workers : ~At(v, g)'
      BY <2>1, <2>2, <3>1, <3>2, <3>3, <3>5, <3>6 DEF Hands
    <3>. QED  BY <2>1, <2>2, <3>1, <3>7, <3>8, <3>9 DEF Hands
  <2>. QED  BY <2>2, <2>4, <2>5
<1>. QED  BY <1>1, <1>2, <1>3, <1>4

\* A thread: it finds its descriptor, reads, and ends with its descriptor
\* armed or closed.
LEMMA ShotReads ==
  ASSUME ShotInv, NEW w \in Workers, Start(w) \/ RecvData(w) \/ RecvAgain(w) \/ RecvEof(w) \/ RecvErr(w)
  PROVE  ShotInv'
<1>. USE DEF ShotInv
<1>1. CASE RecvData(w)
  <2>1. fdtab[wfd[w]] \in Clients /\ wfd[w] \in Opened /\ server[fdtab[wfd[w]]] = "open"
    BY <1>1, OpenedConn DEF RecvData, Live, Fd, EdgeInv, TabInv
  <2>2. PICK f \in Opened, c \in Clients : f = wfd[w] /\ c = fdtab[f]  BY <2>1
  <2>3. /\ TakeData(c) /\ DataReady(c)
        /\ UNCHANGED <<fdtab, rdy, batch, armed, arg, tpc, wfd, raced, left>>
    BY <1>1, <2>2 DEF RecvData, Fd, TakeData, edge, work
  <2>4. NetInv' /\ OnlyOf(c)  BY <2>1, <2>2, <2>3, TakeOnly
  <2>5. EdgeInv' /\ Opened' = Opened /\ \A g \in {Listen} \cup (Opened \ {f}) : Same(g)
    BY <2>2, <2>3, <2>4, ConnKeeps
  <2>6. Ready(f)  BY <2>2, <2>3, ShotFds DEF Ready, Readable
  <2>7. ShotTypes' /\ Watch'  BY <2>3, <2>4, <2>5 DEF ShotTypes, Watch, OnlyOf
  <2>8. ArmedKept'  BY <2>3, <2>5, <2>6 DEF ArmedKept, Same
  <2>10. Behind' = Behind  BY <2>3, <2>5 DEF Behind
  <2>9. ~raced => Hands'  BY <2>3, <2>5, <2>10, HandsFrame DEF Hands, At, Busy
  <2>. QED  BY <2>3, <2>5, <2>7, <2>8, <2>9
<1>2. CASE Start(w) \/ RecvAgain(w) \/ RecvEof(w) \/ (RecvErr(w) /\ ~Live(w))
  <2>1. UNCHANGED <<net, fdtab, rdy, batch, armed, arg, raced, left>>
    BY <1>2 DEF Start, RecvAgain, RecvEof, RecvErr, edge
  <2>2. EdgeInv' /\ Opened' = Opened /\ \A g \in AllFds : Same(g)
    BY <2>1, EdgeFrame
  <2>3. Watch' /\ ArmedKept' /\ Behind' = Behind
    BY <2>1, <2>2, ShotFds DEF Watch, ArmedKept, Same, Behind
  <2>7. UNCHANGED server  BY <2>1 DEF net
  <2>4. CASE Start(w)
    <3>1. /\ tpc[w] = "start" /\ tpc' = [tpc EXCEPT ![w] = "recv"]
          /\ wfd' = [wfd EXCEPT ![w] = arg]
      BY <2>4 DEF Start, Step
    <3>2. ShotTypes'  BY <2>1, <2>7, <3>1 DEF ShotTypes
    <3>3. \A v \in Workers : /\ tpc'[v] = IF v = w THEN "recv" ELSE tpc[v]
                             /\ wfd'[v] = IF v = w THEN arg ELSE wfd[v]
      BY <3>1 DEF ShotTypes
    <3>4. \A v \in Workers : \A g : At(v, g)' <=> At(v, g)
      BY <2>1, <3>1, <3>3 DEF At, Busy
    <3>5. ASSUME ~raced PROVE Hands'
      BY <2>1, <2>2, <2>3, <3>1, <3>3, <3>4, <3>5, HandsFrame DEF Hands, Busy
    <3>. QED  BY <2>1, <2>2, <2>3, <3>2, <3>5
  <2>5. CASE RecvAgain(w) \/ RecvEof(w)
    <3>1. PICK to \in {"rearm", "close"} : tpc[w] = "recv" /\ tpc' = [tpc EXCEPT ![w] = to]
      BY <2>5 DEF RecvAgain, RecvEof, Step
    <3>2. UNCHANGED wfd  BY <2>5 DEF RecvAgain, RecvEof
    <3>3. ShotTypes'  BY <2>1, <2>7, <3>1, <3>2 DEF ShotTypes
    <3>4. \A v \in Workers : tpc'[v] = IF v = w THEN to ELSE tpc[v]
      BY <3>1 DEF ShotTypes
    <3>5. \A v \in Workers : /\ Busy(v)' <=> Busy(v)
                             /\ tpc'[v] = "start" <=> tpc[v] = "start"
      BY <3>1, <3>4 DEF Busy
    <3>6. ASSUME ~raced PROVE Hands'
      BY <2>1, <2>2, <2>3, <3>2, <3>5, <3>6, HandsFrame DEF Hands, At
    <3>. QED  BY <2>1, <2>2, <2>3, <3>3, <3>6
  <2>6. CASE RecvErr(w) /\ ~Live(w)
    <3>1. tpc[w] = "recv" /\ tpc' = [tpc EXCEPT ![w] = "none"] /\ UNCHANGED wfd /\ wfd[w] \notin Opened
      BY <2>6 DEF RecvErr, Step, Live, Fd
    <3>2. ShotTypes'  BY <2>1, <2>7, <3>1 DEF ShotTypes
    <3>3. raced  BY <3>1 DEF Hands, Busy
    <3>. QED  BY <2>1, <2>2, <2>3, <3>2, <3>3
  <2>. QED  BY <1>2, <2>4, <2>5, <2>6
<1>3. CASE RecvErr(w) /\ Live(w)
  <2>1. PICK f \in Opened, c \in Clients : f = wfd[w] /\ c = fdtab[f] /\ server[c] = "open"
    BY <1>3, OpenedConn DEF Live, Fd, EdgeInv, TabInv
  <2>2. /\ TakeErr(c) /\ ErrReady(c) /\ left' = left \cup {c}
        /\ tpc[w] = "recv" /\ tpc' = [tpc EXCEPT ![w] = "none"]
        /\ UNCHANGED <<fdtab, rdy, batch, armed, arg, wfd, raced>>
    BY <1>3, <2>1 DEF RecvErr, Fd, TakeErr, Step, edge
  <2>3. NetInv' /\ OnlyOf(c)  BY <2>1, <2>2, TakeOnly
  <2>4. EdgeInv' /\ Opened' = Opened /\ \A g \in {Listen} \cup (Opened \ {f}) : Same(g)
    BY <2>1, <2>2, <2>3, ConnKeeps
  <2>5. Ready(f)  BY <2>1, <2>2, ShotFds DEF Ready, Readable
  <2>6. ShotTypes' /\ Watch'  BY <2>1, <2>2, <2>3, <2>4 DEF ShotTypes, Watch, OnlyOf
  <2>7. ArmedKept'  BY <2>2, <2>4, <2>5 DEF ArmedKept, Same
  <2>8. ASSUME ~raced PROVE Hands'
    <3>1. \A v \in Workers : tpc'[v] = IF v = w THEN "none" ELSE tpc[v]
      BY <2>2 DEF ShotTypes
    <3>2. \A v \in Workers : \A g : At(v, g)' <=> At(v, g) /\ v # w
      BY <2>2, <3>1 DEF At, Busy
    <3>3. \A g : At(w, g) <=> g = f  BY <2>1, <2>2 DEF At, Busy
    <3>4. \A v \in Workers : At(v, f) => v = w  BY <2>1, <2>8, <3>3 DEF Hands
    <3>5. Behind' = Behind \cup {f}
      <4>1. \A g \in Opened : fdtab[g] = c => g = f  BY <2>1 DEF EdgeInv, TabInv
      <4>. QED  BY <2>1, <2>2, <2>4, <4>1 DEF Behind
    <3>6. f \notin armed \cup batch  BY <2>1, <2>8, <3>3 DEF Hands
    <3>7. \A v \in Workers : (tpc'[v] = "start" => arg' \in Opened') /\ (Busy(v)' => wfd'[v] \in Opened')
      BY <2>2, <2>4, <2>8, <3>1 DEF Hands, Busy
    <3>8. \A u, v \in Workers : \A g \in Opened' : At(u, g)' /\ At(v, g)' => u = v
      BY <2>4, <2>8, <3>2 DEF Hands
    <3>9. \A g \in Opened' :
            /\ g \in armed' => g \notin batch'
            /\ g \in Behind' => g \notin armed' \cup batch'
            /\ g \in armed' \cup batch' \cup Behind' <=> \A v \in Workers : ~At(v, g)'
      BY <2>2, <2>4, <2>8, <3>2, <3>3, <3>4, <3>5, <3>6 DEF Hands
    <3>. QED  BY <2>2, <2>4, <2>8, <3>7, <3>8, <3>9 DEF Hands
  <2>. QED  BY <2>2, <2>4, <2>6, <2>7, <2>8
<1>. QED  BY <1>1, <1>2, <1>3

LEMMA ShotEnds ==
  ASSUME ShotInv, NEW w \in Workers, Rearm(w) \/ Close(w)
  PROVE  ShotInv'
<1>. USE DEF ShotInv
<1>1. Busy(w) /\ tpc' = [tpc EXCEPT ![w] = "none"] /\ UNCHANGED <<batch, arg, wfd, raced, left>>
  BY DEF Rearm, Close, Step, Busy
<1>2. \A v \in Workers : tpc'[v] = IF v = w THEN "none" ELSE tpc[v]
  BY <1>1 DEF ShotTypes
<1>3. \A v \in Workers : \A g : At(v, g)' <=> At(v, g) /\ v # w
  BY <1>1, <1>2 DEF At, Busy
<1>4. PICK f : f = wfd[w]  OBVIOUS
<1>5. f # Listen /\ \A g \in Opened : g # Listen  BY <1>4, ShotFds DEF ShotTypes, NoFd, Listen
<1>6. ~raced => /\ f \in Opened /\ f \notin armed \cup batch \cup Behind
                /\ \A v \in Workers : At(v, f) <=> v = w
                /\ \A g \in Opened : g # f => ~At(w, g)
  BY <1>1, <1>4 DEF Hands, At, Busy
<1>7. \A v \in Workers : (tpc'[v] = "start" => tpc[v] = "start") /\ (Busy(v)' => Busy(v) /\ v # w)
  BY <1>2 DEF Busy
<1>8. CASE Rearm(w)
  <2>1. /\ armed' = armed \cup ({f} \cap Opened)
        /\ rdy' = rdy \cup {g \in {f} \cap Opened : Ready(g)}
        /\ UNCHANGED <<net, fdtab>>
    BY <1>4, <1>8 DEF Rearm, Fd
  <2>2. Opened' = Opened  BY <2>1 DEF Opened
  <2>3. NetInv' /\ NetTypeOK'  BY <2>1, NetFrame DEF EdgeInv, NetInv
  <2>4. EdgeInv'
    BY <1>1, <2>1, <2>2, <2>3, ShotFds DEF EdgeInv, EdgeTypeOK, TabInv, net
  <2>5. \A g \in AllFds : Same(g)
    BY <2>1 DEF Same, Ready, Readable, DataReady, EofReady, ErrReady, net
  <2>6. ShotTypes'  BY <1>1, <2>1, ShotFds DEF ShotTypes, net
  <2>7. Watch'  BY <2>1, <2>2 DEF Watch
  <2>8. ArmedKept'  BY <2>1, <2>2, <2>5, ShotFds DEF ArmedKept, Same
  <2>9. ASSUME ~raced PROVE Hands'
    <3>1. \A v \in Workers : (tpc'[v] = "start" => arg' \in Opened') /\ (Busy(v)' => wfd'[v] \in Opened')
      BY <1>1, <1>7, <2>2, <2>9 DEF Hands
    <3>2. \A u, v \in Workers : \A g \in Opened' : At(u, g)' /\ At(v, g)' => u = v
      BY <1>3, <2>2, <2>9 DEF Hands
    <3>4. Behind' = Behind  BY <1>1, <2>1, <2>2 DEF Behind
    <3>3. \A g \in Opened' : /\ g \in armed' => g \notin batch'
                             /\ g \in armed' \cup batch' \cup Behind' <=> \A v \in Workers : ~At(v, g)'
      <4>1. \A g \in Opened : g # f => \A v \in Workers : At(v, g)' <=> At(v, g)
        BY <1>3, <1>6, <2>9
      <4>2. \A v \in Workers : ~At(v, f)'  BY <1>3, <1>6, <2>9
      <4>. QED  BY <1>1, <1>6, <2>1, <2>2, <2>9, <3>4, <4>1, <4>2 DEF Hands
    <3>5. \A g \in Opened' : g \in Behind' => g \notin armed' \cup batch'
      BY <1>1, <1>6, <2>1, <2>2, <2>9, <3>4 DEF Hands
    <3>. QED  BY <1>1, <2>2, <2>9, <3>1, <3>2, <3>3, <3>5 DEF Hands
  <2>. QED  BY <1>1, <2>4, <2>6, <2>7, <2>8, <2>9
<1>9. CASE Close(w)
  <2>1. armed' = armed \ {f}  BY <1>4, <1>9 DEF Close, Fd
  <2>2. CASE f \in Opened
    <3>1. CloseFd(f)  BY <1>4, <1>9, <2>2 DEF Close, Fd, Live
    <3>2. /\ EdgeInv' /\ Opened' = Opened \ {f} /\ rdy' = rdy \ {f}
          /\ \A g \in {Listen} \cup (Opened \ {f}) : Same(g)
      BY <1>1, <2>2, <3>1, CloseFdKeeps
    <3>5. \A g \in Opened \ {f} : fdtab'[g] = fdtab[g]
      BY <1>1, <2>2, <3>1, CloseFdKeeps
    <3>6. \A d \in Clients : server[d] # "new" => server'[d] # "new"
      BY <3>1 DEF CloseFd, Released, EdgeInv, NetInv, NetTypeOK
    <3>3. ShotTypes' /\ Watch' /\ ArmedKept'
      BY <1>1, <2>1, <3>2, <3>6 DEF ShotTypes, Watch, ArmedKept, Same
    <3>4. ASSUME ~raced PROVE Hands'
      <4>1. batch' \subseteq {Listen} \cup Opened'  BY <1>1, <1>6, <3>2, <3>4 DEF Hands
      <4>2. \A v \in Workers : (tpc'[v] = "start" => arg' \in Opened') /\ (Busy(v)' => wfd'[v] \in Opened')
        <5>1. \A v \in Workers : v # w => ~At(v, f)  BY <1>6, <3>4
        <5>2. tpc'[w] = "none"  BY <1>2
        <5>. QED  BY <1>1, <1>7, <3>2, <3>4, <5>1, <5>2 DEF Hands, At
      <4>3. \A u, v \in Workers : \A g \in Opened' : At(u, g)' /\ At(v, g)' => u = v
        BY <1>3, <3>2, <3>4 DEF Hands
      <4>5. Behind' = Behind \ {f}  BY <1>1, <3>2, <3>5 DEF Behind
      <4>4. \A g \in Opened' : /\ g \in armed' => g \notin batch'
                               /\ g \in armed' \cup batch' \cup Behind' <=> \A v \in Workers : ~At(v, g)'
        <5>1. \A g \in Opened' : \A v \in Workers : At(v, g)' <=> At(v, g)
          BY <1>3, <1>6, <3>2, <3>4
        <5>. QED  BY <1>1, <2>1, <3>2, <3>4, <4>5, <5>1 DEF Hands
      <4>6. \A g \in Opened' : g \in Behind' => g \notin armed' \cup batch'
        BY <1>1, <2>1, <3>2, <3>4, <4>5 DEF Hands
      <4>. QED  BY <4>1, <4>2, <4>3, <4>4, <4>6 DEF Hands
    <3>. QED  BY <1>1, <3>2, <3>3, <3>4
  <2>3. CASE f \notin Opened
    <3>1. UNCHANGED <<net, fdtab, rdy>>  BY <1>4, <1>9, <2>3 DEF Close, Fd, Live
    <3>2. EdgeInv' /\ Opened' = Opened /\ \A g \in AllFds : Same(g)
      BY <1>1, <3>1, EdgeFrame
    <3>3. f \notin armed  BY <1>5, <2>3 DEF Watch
    <3>4. ShotTypes' /\ Watch' /\ ArmedKept'
      BY <1>1, <2>1, <3>1, <3>2, <3>3, ShotFds DEF ShotTypes, Watch, ArmedKept, Same, net
    <3>5. raced  BY <1>6, <2>3
    <3>. QED  BY <1>1, <3>2, <3>4, <3>5
  <2>. QED  BY <2>2, <2>3
<1>. QED  BY <1>8, <1>9

LEMMA ShotStep == ShotInv /\ [ShotNext]_ShotVars => ShotInv'
<1>. SUFFICES ASSUME ShotInv, [ShotNext]_ShotVars PROVE ShotInv'  OBVIOUS
<1>1. CASE ShotNext
  BY <1>1, ShotKernel, ShotMain, ShotReads, ShotEnds DEF ShotNext, Main, Woker
<1>2. CASE UNCHANGED ShotVars
  <2>1. UNCHANGED <<net, fdtab, rdy, batch, armed, arg, tpc, wfd, raced, left>>
    BY <1>2 DEF ShotVars, edge, work
  <2>2. EdgeInv' /\ Opened' = Opened /\ \A g \in AllFds : Same(g)
    BY <2>1, EdgeFrame DEF ShotInv
  <2>3. ShotTypes' /\ Watch' /\ ArmedKept'
    BY <2>1, <2>2, ShotFds DEF ShotInv, ShotTypes, Watch, ArmedKept, Same, net
  <2>4. Behind' = Behind  BY <2>1, <2>2 DEF Behind
  <2>5. ~raced => Hands'
    BY <2>1, <2>2, <2>4, HandsFrame DEF ShotInv, Hands, At, Busy
  <2>. QED  BY <2>1, <2>2, <2>3, <2>5 DEF ShotInv
<1>. QED  BY <1>1, <1>2

LEMMA ShotHands == ShotInv => HandsSound
<1>. SUFFICES ASSUME ShotInv PROVE HandsSound  OBVIOUS
<1>1. ShotTypeOK  BY DEF ShotInv, EdgeInv, ShotTypes, Watch, ShotTypeOK
<1>2. ASSUME ~raced, NEW f \in Opened
      PROVE  \/ f \in armed /\ f \notin batch /\ Serving(f) = {} /\ fdtab[f] \notin left
             \/ f \notin armed /\ f \in batch /\ Serving(f) = {} /\ fdtab[f] \notin left
             \/ /\ f \notin armed /\ f \notin batch
                /\ Cardinality(Serving(f)) = IF fdtab[f] \in left THEN 0 ELSE 1
  <2>1. Serving(f) = {w \in Workers : At(w, f)}  BY DEF Serving, At, Busy
  <2>2. f \in Behind <=> fdtab[f] \in left  BY DEF Behind
  <2>3. CASE f \in armed \cup batch
    <3>1. (f \in armed => f \notin batch) /\ f \notin Behind
      BY <1>2, <2>3 DEF ShotInv, Hands
    <3>2. \A w \in Workers : ~At(w, f)  BY <1>2, <2>3 DEF ShotInv, Hands
    <3>. QED  BY <2>1, <2>2, <2>3, <3>1, <3>2
  <2>4. CASE f \in Behind
    <3>1. f \notin armed \cup batch  BY <1>2, <2>4 DEF ShotInv, Hands
    <3>2. \A w \in Workers : ~At(w, f)  BY <1>2, <2>4 DEF ShotInv, Hands
    <3>3. Serving(f) = {}  BY <2>1, <3>2
    <3>. QED  BY <2>2, <2>4, <3>1, <3>3, FS_EmptySet
  <2>5. CASE f \notin armed \cup batch \cup Behind
    <3>1. PICK w \in Workers : At(w, f)  BY <1>2, <2>5 DEF ShotInv, Hands
    <3>2. \A v \in Workers : At(v, f) => v = w  BY <1>2, <3>1 DEF ShotInv, Hands
    <3>3. Serving(f) = {w}  BY <2>1, <3>1, <3>2
    <3>4. Cardinality({w}) = 1  BY FS_Singleton
    <3>. QED  BY <2>2, <2>5, <3>3, <3>4
  <2>. QED  BY <2>3, <2>4, <2>5
<1>. QED  BY <1>1, <1>2 DEF ShotInv, HandsSound, OneOwner

\* Until an argument is overwritten every connection of epoll_oneshot.c is in
\* exactly one pair of hands, unless it was left behind and is in none; and
\* even after that no edge is lost when it is armed again
\* (epoll_oneshot.c:65-91, :166-171).
THEOREM OneThreadPerConnection == ShotSpec => []HandsSound
<1>1. ShotSpec => []ShotInv
  BY ShotInitInv, ShotStep, PTL DEF ShotSpec
<1>. QED  BY <1>1, ShotHands, PTL

-----------------------------------------------------------------------------
(* Both programs of MCEdge. *)

RunInv == IF Mine THEN LtInv ELSE EtInv

LEMMA RunInit == EdgeRunInit => RunInv /\ (Mine => Echo!SInit)
BY LtInit, EtInit, InitRefines DEF EdgeRunInit, RunInv, Mine, Init, EdgeInit

LEMMA RunNext == RunInv /\ [EdgeRunNext]_all => RunInv' /\ (Mine => Refines)
<1>. SUFFICES ASSUME RunInv, [EdgeRunNext]_all PROVE RunInv' /\ (Mine => Refines)  OBVIOUS
<1>1. program' = program  BY DEF EdgeRunNext, all
<1>2. CASE Mine
  <2>1. [Next]_vars  BY <1>2 DEF EdgeRunNext, all
  <2>. QED  BY <1>1, <1>2, <2>1, LtNext DEF RunInv, Mine
<1>3. CASE ~Mine
  <2>1. EtServer!Next \/ UNCHANGED <<vars, buf>>  BY <1>3 DEF EdgeRunNext, all
  <2>. QED  BY <1>1, <1>3, <2>1, EtNext, EtFrame DEF RunInv, Mine
<1>. QED  BY <1>2, <1>3

LEMMA RunSafe == EdgeRunSpec => []RunInv
BY RunInit, RunNext, PTL DEF EdgeRunSpec

\* No edge is lost, under either handler of epoll_lt_et.c and in
\* tcp_echo_epoll_et_server.c: what is ready is listed, reported or at work,
\* and each reported event of epoll_lt_et.c is still true when its turn comes
\* (epoll_lt_et.c:98-167, tcp_echo_epoll_et_server.c:68-126).
THEOREM NoEdgeIsLost == EdgeRunSpec => []EdgesKept
<1>1. LtInv => EdgeKept  BY LtKept
<1>2. EtInv => EtServer!EdgeKept
  <2>1. EtInv => EtServer!TypeOK
    BY DEF EtInv, EtTypes, EdgeInv, EdgeTypeOK, NetTypeOK, EtServer!TypeOK, EtServer!EdgeTypeOK,
      EtServer!NetTypeOK, EtServer!PeerStates, PeerStates, EtServer!Lines, Lines,
      EtServer!NoChunk, NoChunk, EtServer!Chunks, Chunks,
      EtServer!Fds, Fds, EtServer!AllFds, AllFds, EtServer!Listen, Listen, EtServer!Opened, Opened
  <2>2. EtServer!Opened = Opened /\ EtServer!Listen = Listen
    BY DEF EtServer!Opened, Opened, EtServer!Fds, Fds, EtServer!Listen, Listen
  <2>3. \A f : EtServer!Ready(f) <=> Ready(f)
    BY SameCalls, <2>2 DEF EtServer!Ready, Ready
  <2>. QED  BY <2>1, <2>2, <2>3 DEF EtInv, EtListed, EtServer!EdgeKept
<1>3. RunInv => EdgesKept  BY <1>1, <1>2 DEF RunInv, EdgesKept
<1>. QED  BY <1>3, RunSafe, PTL

\* What tcp_echo_epoll_et_server.c sends to a client is the client's own, in
\* the order sent and none twice, although a full buffer loses chunks and a
\* reset has the old buffer written (tcp_echo_epoll_et_server.c:104-126).
THEOREM WhatIsLeftIsInOrder == EdgeRunSpec => []InOrder
<1>1. RunInv => InOrder
  BY DEF RunInv, InOrder, EtInv, Older, EtServer!OwnInOrder
<1>. QED  BY <1>1, RunSafe, PTL

\* epoll_lt_et.c implements the echo service under either handler
\* (epoll_lt_et.c:111-167).
THEOREM LtEtEchoes == EdgeRunSpec => EchoOfLtEt
<1>1. RunInv /\ [EdgeRunNext]_all => [Mine => Echo!SNext]_(Echo!svars)
  BY RunNext DEF Refines
<1>. QED  BY <1>1, RunInit, RunSafe, PTL DEF EdgeRunSpec, EchoOfLtEt
=============================================================================

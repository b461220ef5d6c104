-------------------------- MODULE ServerLoopProofs --------------------------
(***************************************************************************)
(* The servers of one process and one buffer, one section a module:        *)
(* EpollEcho (no event of a batch goes stale before it is handled, every   *)
(* chunk read is answered once), IterEcho (who gets which line) and        *)
(* UdpEcho (who gets which echo, whatever the network does), for any       *)
(* number of clients and messages.                                         *)
(***************************************************************************)
EXTENDS EpollEcho, MCIterative, EchoNetProofs

-----------------------------------------------------------------------------
(* EpollEcho. *)

Opened == {f \in Fds : fdtab[f] # NoConn}

\* An open descriptor has a connection of its own; only open ones are reported.
Table ==
  /\ \A f \in Opened : server[fdtab[f]] = "open"
  /\ \A f, g \in Opened : fdtab[f] = fdtab[g] => f = g
  /\ batch \subseteq {Listen} \cup Opened
  /\ interest[Listen] = "in"

\* Who waits for EPOLLOUT has something in the buffer, or was reset.
Filled == \A f \in Opened :
  interest[f] = "out" => buf \in Chunks \/ peer[fdtab[f]] = "broken"

StillFires == \A f \in batch : Fires(f) /\ interest[f] = reported[f]

EpInv ==
  /\ NetInv /\ TypeOK /\ Table /\ Filled /\ OneAnswerPerRead
  /\ alive => StillFires

-----------------------------------------------------------------------------
LEMMA Numbers == Fds \subseteq Nat /\ Listen \notin Fds /\ AllFds = Fds \cup {Listen}
BY EpollAssumption DEF Fds, Listen, AllFds

LEMMA OpenConn ==
  ASSUME TypeOK, NEW f \in Opened
  PROVE  f \in Fds /\ f # Listen /\ f \in AllFds /\ fdtab[f] \in Clients
BY Numbers DEF TypeOK, Opened

LEMMA EpInit == Init => EpInv
<1>. SUFFICES ASSUME Init PROVE EpInv  OBVIOUS
<1>1. NetInv /\ NetTypeOK  BY NetInitInv DEF Init, NetInv
<1>2. Opened = {}  BY DEF Init, Opened
<1>3. TypeOK  BY <1>1, Numbers DEF Init, TypeOK, Lines
<1>4. Table /\ Filled /\ StillFires
  BY <1>2, Numbers DEF Init, Table, Filled, StillFires
<1>5. OneAnswerPerRead  BY DEF Init, OneAnswerPerRead
<1>. QED  BY <1>1, <1>3, <1>4, <1>5 DEF EpInv

-----------------------------------------------------------------------------
(* The clients. *)

\* What a client does leaves the server's descriptors firing.
LEMMA ClientFires ==
  ASSUME EpInv, NEW c \in Clients, ClientStep(c), NEW f \in {Listen} \cup Opened, Fires(f)
  PROVE  Fires(f)'
<1>1. Client(c) /\ UNCHANGED <<fdtab, interest>>  BY DEF ClientStep, loop
<1>2. CASE f = Listen
  <2>1. backlog' # <<>>
    <3>1. backlog # <<>>  BY <1>2 DEF Fires
    <3>2. backlog \in Seq(Clients)  BY DEF EpInv, NetInv, NetTypeOK
    <3>3. Len(Append(backlog, c)) # 0  BY <3>2
    <3>4. backlog' = backlog \/ backlog' = Append(backlog, c)
      BY <1>1 DEF Client, Connect, ClientWrite, Shutdown, Kill, ClientRead
    <3>. QED  BY <3>1, <3>3, <3>4
  <2>. QED  BY <1>1, <1>2, <2>1 DEF Fires
<1>3. CASE f \in Opened
  <2>1. PICK d \in Clients : d = fdtab[f]  BY <1>3, OpenConn DEF EpInv
  <2>2. f # Listen /\ fdtab'[f] = d /\ interest'[f] = interest[f]
    BY <1>1, <1>3, <2>1, OpenConn DEF EpInv
  <2>3. /\ peer \in [Clients -> PeerStates] /\ nsent \in [Clients -> Nat] /\ nread \in [Clients -> Nat]
        /\ got \in [Clients -> Nat] /\ Len(echoed[d]) \in Nat
        /\ peer[d] # "idle"
    <3>1. server[d] = "open"  BY <1>3, <2>1 DEF EpInv, Table
    <3>2. echoed[d] \in Seq(Lines)  BY DEF EpInv, NetInv, NetTypeOK
    <3>. QED  BY <3>1, <3>2 DEF EpInv, NetInv, NetTypeOK, ConnInv
  <2>4. UNCHANGED <<nread, echoed>>
    BY <1>1 DEF Client, Connect, ClientWrite, Shutdown, Kill, ClientRead
  <2>5. CASE Kill(c)
    <3>1. PICK p \in {"gone", "rst", "broken"} : peer' = [peer EXCEPT ![c] = p]
      BY <2>5, KillFacts DEF EpInv
    <3>2. peer[c] = "fin" => p # "rst"  BY <2>3, <2>5, <3>1 DEF Kill, CloseBy
    <3>3. UNCHANGED <<nsent, got>> /\ peer[c] \in {"up", "fin"}  BY <2>5 DEF Kill, Reads
    <3>4. Readable(d) => Readable(d)'
      BY <2>3, <2>4, <3>1, <3>2, <3>3 DEF Readable, DataReady, EofReady, ErrReady, AtEof
    <3>5. Room(d) => Room(d)'
      BY <2>3, <2>4, <3>1, <3>3 DEF Room, Reads
    <3>. QED  BY <2>1, <2>2, <3>4, <3>5 DEF Fires
  <2>6. CASE ~Kill(c)
    <3>1. \/ UNCHANGED <<peer, nsent>> /\ got'[d] \in {got[d], Len(echoed[d])}
          \/ /\ peer'[d] = peer[d] \/ (peer[d] = "up" /\ peer'[d] = "fin")
             /\ UNCHANGED <<nsent, got>>
          \/ UNCHANGED <<peer, got>> /\ (nsent'[d] = nsent[d] \/ (peer[d] = "up" /\ nsent'[d] = nsent[d] + 1))
      BY <1>1, <2>3, <2>6 DEF Client, Connect, ClientWrite, Shutdown, ClientRead
    <3>2. Readable(d) => Readable(d)'
      BY <2>3, <2>4, <3>1 DEF Readable, DataReady, EofReady, ErrReady, AtEof
    <3>3. Room(d) => Room(d)'
      BY <2>3, <2>4, <3>1, EchoAssumption DEF Room, Reads
    <3>. QED  BY <2>1, <2>2, <3>2, <3>3 DEF Fires
  <2>. QED  BY <2>5, <2>6
<1>. QED  BY <1>2, <1>3

LEMMA EpClient ==
  ASSUME EpInv, NEW c \in Clients, ClientStep(c)
  PROVE  EpInv'
<1>1. Client(c) /\ UNCHANGED <<fdtab, interest, batch, reported, buf, alive>>
  BY DEF ClientStep, loop
<1>2. NetInv' /\ NetTypeOK'  BY <1>1, ClientKeeps DEF EpInv, NetInv
<1>3. UNCHANGED <<nread, echoed, server>>
  BY <1>1 DEF Client, Connect, ClientWrite, Shutdown, Kill, ClientRead
<1>4. TypeOK'  BY <1>1, <1>2 DEF EpInv, TypeOK
<1>5. Opened' = Opened  BY <1>1 DEF Opened
<1>6. Table'  BY <1>1, <1>3, <1>5 DEF EpInv, Table
<1>7. \A d \in Clients : peer[d] # "idle" =>
        /\ peer[d] = "broken" => peer'[d] = "broken"
        /\ Reads(peer'[d]) => Reads(peer[d])
  <2>1. CASE Kill(c)
    <3>1. PICK p \in {"gone", "rst", "broken"} : peer' = [peer EXCEPT ![c] = p]
      BY <2>1, KillFacts DEF EpInv
    <3>2. Reads(peer[c])  BY <2>1 DEF Kill
    <3>. QED  BY <3>1, <3>2 DEF Reads, EpInv, NetInv, NetTypeOK
  <2>. QED
    BY <1>1, <2>1 DEF Client, Connect, ClientWrite, Shutdown, ClientRead, Reads, EpInv, NetInv,
      NetTypeOK
<1>8. \A f \in Opened : fdtab[f] \in Clients /\ peer[fdtab[f]] # "idle"
  <2>1. \A f \in Opened : fdtab[f] \in Clients /\ server[fdtab[f]] = "open"
    BY OpenConn DEF EpInv, Table
  <2>. QED  BY <2>1 DEF EpInv, NetInv, ConnInv
<1>9. Filled'  BY <1>1, <1>5, <1>7, <1>8 DEF EpInv, Filled
<1>10. OneAnswerPerRead'
  <2>1. \A f \in Fds : fdtab[f] # NoConn => f \in Opened  BY DEF Opened
  <2>. QED  BY <1>1, <1>3, <1>7, <1>8, <2>1 DEF EpInv, OneAnswerPerRead
<1>11. alive' => StillFires'
  <2>1. batch \subseteq {Listen} \cup Opened  BY DEF EpInv, Table
  <2>. QED  BY <1>1, <2>1, ClientFires DEF EpInv, StillFires
<1>. QED  BY <1>2, <1>4, <1>6, <1>9, <1>10, <1>11 DEF EpInv

-----------------------------------------------------------------------------
(* The loop between two connections. *)

\* Nothing but the batch and what is reported changes.
LEMMA EpFrame ==
  ASSUME EpInv, UNCHANGED <<net, fdtab, interest, buf>>
  PROVE  /\ NetInv' /\ NetTypeOK' /\ Opened' = Opened
         /\ Filled' /\ OneAnswerPerRead'
         /\ \A f : Fires(f)' <=> Fires(f)
<1>1. NetInv' /\ NetTypeOK'  BY NetFrame DEF EpInv, NetInv
<1>2. UNCHANGED <<peer, nsent, nread, echoed, got, backlog, server>>  BY DEF net
<1>3. Opened' = Opened  BY DEF Opened
<1>4. Filled' /\ OneAnswerPerRead'
  BY <1>2, <1>3 DEF EpInv, Filled, OneAnswerPerRead
<1>5. \A f : Fires(f)' <=> Fires(f)
  BY <1>2 DEF Fires, Readable, DataReady, EofReady, ErrReady, Room
<1>. QED  BY <1>1, <1>3, <1>4, <1>5

LEMMA EpDies ==
  ASSUME EpInv, UNCHANGED <<net, fdtab, interest, reported, buf>>,
         batch' \subseteq batch, alive' = FALSE
  PROVE  EpInv'
<1>1. NetInv' /\ NetTypeOK' /\ Opened' = Opened /\ Filled' /\ OneAnswerPerRead'  BY EpFrame
<1>2. TypeOK'  BY <1>1 DEF EpInv, TypeOK
<1>3. Table'  BY <1>1 DEF EpInv, Table, net
<1>. QED  BY <1>1, <1>2, <1>3 DEF EpInv

LEMMA EpWait ==
  ASSUME EpInv, alive, EpollWait
  PROVE  EpInv'
<1>1. /\ batch = {} /\ batch' = {f \in AllFds : Fires(f)} /\ reported' = interest
      /\ UNCHANGED <<net, fdtab, interest, buf, alive>>
  BY DEF EpollWait
<1>2. /\ NetInv' /\ NetTypeOK' /\ Opened' = Opened /\ Filled' /\ OneAnswerPerRead'
      /\ \A f : Fires(f)' <=> Fires(f)
  BY <1>1, EpFrame
<1>3. TypeOK'  BY <1>1, <1>2 DEF EpInv, TypeOK
<1>4. Table'
  <2>1. \A f \in Fds : Fires(f) => f \in Opened
    BY Numbers DEF Fires, Opened, EpInv, TypeOK
  <2>2. batch' \subseteq {Listen} \cup Opened  BY <1>1, <2>1, Numbers
  <2>. QED  BY <1>1, <1>2, <2>2 DEF EpInv, Table, net
<1>5. StillFires'  BY <1>1, <1>2 DEF StillFires
<1>. QED  BY <1>2, <1>3, <1>4, <1>5 DEF EpInv

LEMMA EpAccept ==
  ASSUME EpInv, alive, Accept
  PROVE  EpInv'
<1>1. PICK f \in Fds, c \in Clients :
        /\ LowestFree(f) /\ Accepted(c) /\ fdtab' = [fdtab EXCEPT ![f] = c]
        /\ interest' = [interest EXCEPT ![f] = "in"]
  BY DEF Accept, Modify
<1>2. batch' = batch \ {Listen} /\ UNCHANGED <<reported, buf, alive>>
  BY DEF Accept, Event
<1>3. NetInv' /\ NetTypeOK' /\ server[c] = "new"
  BY <1>1, AcceptKeeps DEF EpInv, NetInv
<1>4. /\ UNCHANGED <<peer, nsent, nread, echoed, got>>
      /\ server' = [server EXCEPT ![c] = "open"]
  BY <1>1 DEF Accepted
<1>5. f \notin Opened /\ fdtab[f] = NoConn  BY <1>1 DEF LowestFree, Opened
<1>6. /\ fdtab'[f] = c /\ interest'[f] = "in" /\ f # Listen /\ f \in AllFds /\ f \notin batch
      /\ \A g \in Opened : /\ fdtab'[g] = fdtab[g] /\ interest'[g] = interest[g]
                           /\ fdtab[g] # c /\ fdtab[g] \in Clients /\ g # f
  <2>1. f # Listen /\ f \in AllFds  BY Numbers
  <2>2. f \notin batch  BY <1>5, <2>1 DEF EpInv, Table
  <2>3. \A g \in Opened : g \in Fds /\ g \in AllFds /\ fdtab[g] \in Clients /\ fdtab[g] # c
    BY <1>3, OpenConn DEF EpInv, Table
  <2>4. fdtab \in [Fds -> Clients \cup {NoConn}] /\ interest \in [AllFds -> {"none", "in", "out"}]
    BY DEF EpInv, TypeOK
  <2>. QED  BY <1>1, <1>5, <2>1, <2>2, <2>3, <2>4
<1>7. Opened' = Opened \cup {f}
  BY <1>1, <1>5, <1>6, EchoAssumption DEF EpInv, TypeOK, Opened
<1>8. TypeOK'
  <2>1. \A g \in Fds : interest'[g] = "none" <=> fdtab'[g] = NoConn
    BY <1>1, <1>6, EchoAssumption DEF EpInv, TypeOK
  <2>. QED  BY <1>1, <1>2, <1>3, <2>1 DEF EpInv, TypeOK
<1>9. Table'
  <2>1. \A g \in Opened' : server'[fdtab'[g]] = "open"
    BY <1>4, <1>6, <1>7 DEF EpInv, Table, NetInv, NetTypeOK
  <2>2. \A g, h \in Opened' : fdtab'[g] = fdtab'[h] => g = h
    BY <1>6, <1>7 DEF EpInv, Table
  <2>3. batch' \subseteq {Listen} \cup Opened'  BY <1>2, <1>7 DEF EpInv, Table
  <2>4. interest'[Listen] = "in"  BY <1>1, <1>6, Numbers DEF EpInv, TypeOK, Table
  <2>. QED  BY <2>1, <2>2, <2>3, <2>4 DEF Table
<1>10. Filled'  BY <1>2, <1>4, <1>6, <1>7 DEF EpInv, Filled
<1>11. OneAnswerPerRead'
  <2>1. nread[c] = 0 /\ echoed[c] = <<>>  BY <1>3 DEF EpInv, NetInv, ConnInv
  <2>2. \A g \in Fds : fdtab'[g] # NoConn => g \in Opened \/ g = f
    BY <1>7 DEF Opened
  <2>3. \A g \in Opened : /\ fdtab'[g] = fdtab[g] /\ interest'[g] = interest[g]
                          /\ g \in Fds /\ fdtab[g] # NoConn
    BY <1>6 DEF Opened
  <2>4. \A g \in Fds : fdtab'[g] # NoConn /\ Reads(peer[fdtab'[g]]) =>
          nread[fdtab'[g]] = Len(echoed[fdtab'[g]]) + (IF interest'[g] = "out" THEN 1 ELSE 0)
    <3>1. ASSUME NEW g \in Opened, Reads(peer[fdtab[g]])
          PROVE  nread[fdtab[g]] = Len(echoed[fdtab[g]]) + (IF interest[g] = "out" THEN 1 ELSE 0)
      BY <2>3, <3>1 DEF EpInv, OneAnswerPerRead
    <3>2. nread[c] = Len(echoed[c]) + 0  BY <2>1
    <3>. QED  BY <1>6, <2>2, <2>3, <3>1, <3>2
  <2>. QED  BY <1>4, <2>4 DEF OneAnswerPerRead
<1>12. StillFires'
  <2>1. \A g \in batch' : g \in Opened /\ g # Listen
    BY <1>2 DEF EpInv, Table
  <2>2. \A g \in batch' : Fires(g)' <=> Fires(g)
    BY <1>4, <1>6, <2>1 DEF Fires, Readable, DataReady, EofReady, ErrReady, Room
  <2>3. \A g \in batch' : interest'[g] = interest[g]  BY <1>6, <2>1
  <2>. QED  BY <1>2, <2>2, <2>3 DEF EpInv, StillFires
<1>. QED  BY <1>3, <1>8, <1>9, <1>10, <1>11, <1>12 DEF EpInv

-----------------------------------------------------------------------------
(* The loop at a connection. *)

\* What is done to one connection leaves the others.
OnlyOf(c) ==
  /\ \A d \in Clients : d # c => peer'[d] = peer[d] /\ nread'[d] = nread[d] /\ echoed'[d] = echoed[d]
  /\ UNCHANGED <<nsent, got, backlog, server>>

\* The event of f is handled and its interest is set to e.
LEMMA EpConn ==
  ASSUME EpInv, alive, NEW f \in Opened, NEW e \in {"in", "out"},
         NetInv', OnlyOf(fdtab[f]), batch' = batch \ {f},
         interest' = [interest EXCEPT ![f] = e], UNCHANGED <<fdtab, reported, alive>>,
         buf' \in Chunks \/ buf' = buf,
         e = "out" => buf' \in Chunks \/ peer'[fdtab[f]] = "broken",
         Reads(peer'[fdtab[f]]) =>
           nread'[fdtab[f]] = Len(echoed'[fdtab[f]]) + (IF e = "out" THEN 1 ELSE 0)
  PROVE  EpInv'
<1>1. Opened' = Opened  BY DEF Opened
<1>2. /\ f \in Fds /\ f # Listen /\ f \in AllFds
      /\ \A g \in Opened : g \in Fds /\ g \in AllFds /\ fdtab[g] \in Clients
      /\ \A g \in Opened \ {f} : fdtab[g] # fdtab[f]
  BY OpenConn DEF EpInv, Table
<1>3. interest \in [AllFds -> {"none", "in", "out"}]  BY DEF EpInv, TypeOK
<1>4. interest'[f] = e /\ \A g \in AllFds \ {f} : interest'[g] = interest[g]
  BY <1>2, <1>3
<1>5. TypeOK'
  <2>1. fdtab[f] # NoConn  BY DEF Opened
  <2>2. \A g \in Fds : interest'[g] = "none" <=> fdtab'[g] = NoConn
    BY <1>2, <1>4, <2>1, Numbers DEF EpInv, TypeOK
  <2>3. NetTypeOK'  BY DEF NetInv
  <2>. QED  BY <2>2, <2>3 DEF EpInv, TypeOK, Lines
<1>6. Table'
  <2>1. interest'[Listen] = "in"  BY <1>2, <1>4, Numbers DEF EpInv, Table
  <2>. QED  BY <1>1, <2>1 DEF EpInv, Table, OnlyOf
<1>7. Filled'
  <2>1. ASSUME NEW g \in Opened \ {f}, interest'[g] = "out"
        PROVE  buf' \in Chunks \/ peer'[fdtab[g]] = "broken"
    <3>1. interest[g] = "out"  BY <1>2, <1>4, <2>1
    <3>2. peer'[fdtab[g]] = peer[fdtab[g]]  BY <1>2 DEF OnlyOf
    <3>. QED  BY <3>1, <3>2 DEF EpInv, Filled
  <2>. QED  BY <1>1, <1>4, <2>1 DEF Filled
<1>8. OneAnswerPerRead'
  <2>1. ASSUME NEW g \in Opened \ {f}, Reads(peer'[fdtab[g]])
        PROVE  nread'[fdtab[g]] = Len(echoed'[fdtab[g]]) + (IF interest'[g] = "out" THEN 1 ELSE 0)
    <3>1. PICK d \in Clients : d = fdtab[g] /\ d # fdtab[f]  BY <1>2
    <3>2. /\ peer'[d] = peer[d] /\ nread'[d] = nread[d] /\ echoed'[d] = echoed[d]
          /\ interest'[g] = interest[g]
      BY <1>2, <1>4, <3>1 DEF OnlyOf
    <3>3. g \in Fds /\ fdtab[g] # NoConn  BY DEF Opened
    <3>4. nread[d] = Len(echoed[d]) + (IF interest[g] = "out" THEN 1 ELSE 0)
      BY <2>1, <3>1, <3>2, <3>3 DEF EpInv, OneAnswerPerRead
    <3>. QED  BY <3>1, <3>2, <3>4
  <2>2. \A g \in Fds : fdtab[g] # NoConn => g \in Opened \ {f} \/ g = f  BY DEF Opened
  <2>. QED  BY <1>4, <2>1, <2>2 DEF OneAnswerPerRead
<1>9. StillFires'
  <2>1. \A g \in batch' : g = Listen \/ g \in Opened \ {f}  BY DEF EpInv, Table
  <2>2. \A g \in batch' : interest'[g] = interest[g]
    BY <1>2, <1>4, <2>1, Numbers
  <2>3. ASSUME NEW g \in batch' PROVE Fires(g)' <=> Fires(g)
    <3>1. CASE g = Listen
      BY <3>1 DEF Fires, OnlyOf
    <3>2. CASE g \in Opened \ {f}
      <4>1. PICK d \in Clients : d = fdtab[g] /\ d # fdtab[f]  BY <1>2, <3>2
      <4>2. peer'[d] = peer[d] /\ nread'[d] = nread[d] /\ echoed'[d] = echoed[d] /\ g # Listen
        BY <1>2, <3>2, <4>1, OpenConn DEF OnlyOf, EpInv
      <4>. QED
        BY <2>2, <4>1, <4>2 DEF Fires, Readable, DataReady, EofReady, ErrReady, Room, OnlyOf
    <3>. QED  BY <2>1, <3>1, <3>2
  <2>. QED  BY <2>2, <2>3 DEF EpInv, StillFires
<1>. QED  BY <1>5, <1>6, <1>7, <1>8, <1>9 DEF EpInv

\* The connection of an event, and what the invariant says of it.
LEMMA EventConn ==
  ASSUME EpInv, NEW f \in Fds, f \in batch
  PROVE  /\ f \in Opened /\ f # Listen
         /\ \E c \in Clients : /\ c = fdtab[f] /\ server[c] = "open" /\ nread[c] \in Nat
                               /\ echoed[c] \in Seq(Lines) /\ Len(echoed[c]) \in Nat
                               /\ peer[c] \in PeerStates
<1>1. f \in Opened /\ f # Listen  BY Numbers DEF EpInv, Table
<1>2. fdtab[f] \in Clients /\ server[fdtab[f]] = "open"  BY <1>1, OpenConn DEF EpInv, Table
<1>3. \A c \in Clients : /\ nread[c] \in Nat /\ echoed[c] \in Seq(Lines) /\ Len(echoed[c]) \in Nat
                         /\ peer[c] \in PeerStates
  BY DEF EpInv, NetInv, NetTypeOK
<1>. QED  BY <1>1, <1>2, <1>3

LEMMA EpRead ==
  ASSUME EpInv, alive, NEW f \in Fds, ReadData(f) \/ ReadErr(f)
  PROVE  EpInv'
<1>1. /\ f \in batch /\ reported[f] = "in" /\ batch' = batch \ {f}
      /\ interest' = [interest EXCEPT ![f] = "out"] /\ UNCHANGED <<fdtab, reported, alive>>
  BY DEF ReadData, ReadErr, Event, Modify
<1>2. f \in Opened  BY <1>1, EventConn
<1>3. PICK c \in Clients : /\ c = fdtab[f] /\ server[c] = "open" /\ nread[c] \in Nat
                           /\ echoed[c] \in Seq(Lines) /\ Len(echoed[c]) \in Nat
  BY <1>1, EventConn
<1>4. interest[f] = "in"  BY <1>1 DEF EpInv, StillFires
<1>5. Reads(peer[c]) => nread[c] = Len(echoed[c])
  <2>1. fdtab[f] # NoConn  BY <1>2 DEF Opened
  <2>2. Reads(peer[c]) => nread[c] = Len(echoed[c]) + 0
    BY <1>3, <1>4, <2>1 DEF EpInv, OneAnswerPerRead
  <2>. QED  BY <1>3, <2>2
<1>6. CASE ReadData(f)
  <2>1. TakeData(c) /\ buf' = <<c, nread[c] + 1>>  BY <1>3, <1>6 DEF ReadData
  <2>2. NetInv'  BY <1>3, <2>1, TakeDataKeeps DEF EpInv
  <2>3. nread'[c] = nread[c] + 1 /\ UNCHANGED <<peer, echoed>> /\ OnlyOf(c)
    BY <2>1 DEF TakeData, OnlyOf, EpInv, NetInv, NetTypeOK
  <2>4. buf' \in Chunks
    <3>1. nread[c] + 1 \in Nat  BY <1>3
    <3>. QED  BY <2>1, <3>1 DEF Chunks
  <2>5. Reads(peer'[c]) => nread'[c] = Len(echoed'[c]) + 1  BY <1>5, <2>3
  <2>. QED  BY <1>1, <1>2, <1>3, <2>2, <2>3, <2>4, <2>5, EpConn
<1>7. CASE ReadErr(f)
  <2>1. TakeErr(c) /\ buf' = buf  BY <1>3, <1>7 DEF ReadErr
  <2>2. NetInv'  BY <2>1, TakeErrKeeps DEF EpInv
  <2>3. peer'[c] = "broken" /\ OnlyOf(c)
    BY <2>1 DEF TakeErr, OnlyOf, EpInv, NetInv, NetTypeOK
  <2>4. ~Reads(peer'[c])  BY <2>3 DEF Reads
  <2>. QED  BY <1>1, <1>2, <1>3, <2>1, <2>2, <2>3, <2>4, EpConn
<1>. QED  BY <1>6, <1>7

LEMMA EpWrite ==
  ASSUME EpInv, alive, NEW f \in Fds, Write(f)
  PROVE  EpInv'
<1>1. /\ f \in batch /\ reported[f] = "out" /\ batch' = batch \ {f}
      /\ interest' = [interest EXCEPT ![f] = "in"] /\ UNCHANGED <<fdtab, reported, alive, buf>>
  BY DEF Write, Event, Modify
<1>2. f \in Opened  BY <1>1, EventConn
<1>3. PICK c \in Clients : /\ c = fdtab[f] /\ server[c] = "open" /\ nread[c] \in Nat
                           /\ echoed[c] \in Seq(Lines) /\ Len(echoed[c]) \in Nat
                           /\ peer[c] \in PeerStates
  BY <1>1, EventConn
<1>4. interest[f] = "out"  BY <1>1 DEF EpInv, StillFires
<1>5. WriteBack(c, buf) /\ ~RaisesSigpipe(peer[c])  BY <1>3 DEF Write, WriteBack
<1>6. buf \in Chunks
  BY <1>2, <1>3, <1>4, <1>5 DEF EpInv, Filled, RaisesSigpipe
<1>7. NetInv'  BY <1>3, <1>5, <1>6, WriteBackKeeps DEF EpInv, Lines
<1>8. OnlyOf(c) /\ nread' = nread
  BY <1>5 DEF WriteBack, OnlyOf, EpInv, NetInv, NetTypeOK
<1>9. Reads(peer'[c]) => nread'[c] = Len(echoed'[c]) + 0
  <2>1. PICK p \in AfterWrite(peer[c]) : peer' = [peer EXCEPT ![c] = p]
    BY <1>5 DEF WriteBack
  <2>2. peer'[c] = p  BY <2>1 DEF EpInv, NetInv, NetTypeOK
  <2>3. Reads(peer'[c]) => Reads(peer[c])
    BY <1>3, <2>1, <2>2, AfterWriteFacts DEF Reads
  <2>4. fdtab[f] # NoConn  BY <1>2 DEF Opened
  <2>5. Reads(peer[c]) => nread[c] = Len(echoed[c]) + 1
    BY <1>3, <1>4, <2>4 DEF EpInv, OneAnswerPerRead
  <2>6. Reads(peer[c]) => Len(echoed'[c]) = Len(echoed[c]) + 1
    BY <1>3, <1>5, <1>6 DEF WriteBack, EpInv, NetInv, NetTypeOK
  <2>. QED  BY <1>3, <1>8, <2>3, <2>5, <2>6
<1>. QED  BY <1>1, <1>2, <1>3, <1>6, <1>7, <1>8, <1>9, EpConn

LEMMA EpEof ==
  ASSUME EpInv, alive, NEW f \in Fds, ReadEof(f)
  PROVE  EpInv'
<1>1. /\ f \in batch /\ batch' = batch \ {f}
      /\ interest' = [interest EXCEPT ![f] = "none"] /\ fdtab' = [fdtab EXCEPT ![f] = NoConn]
      /\ UNCHANGED <<peer, nsent, nread, echoed, got, backlog, reported, buf, alive>>
  BY DEF ReadEof, Event, Modify
<1>2. f \in Opened /\ f # Listen  BY <1>1, EventConn
<1>3. PICK c \in Clients : c = fdtab[f] /\ server[c] = "open"  BY <1>1, EventConn
<1>4. server' = [server EXCEPT ![c] = "closed"]  BY <1>3 DEF ReadEof, Released
<1>5. ServerOnly  BY <1>1, <1>3, <1>4 DEF ServerOnly, EpInv, NetInv, NetTypeOK
<1>6. NetInv' /\ NetTypeOK'  BY <1>5, ServerKeeps DEF EpInv, NetInv
<1>7. /\ \A g \in Fds \ {f} : fdtab'[g] = fdtab[g] /\ interest'[g] = interest[g]
      /\ fdtab'[f] = NoConn /\ interest'[f] = "none" /\ interest'[Listen] = "in"
  BY <1>1, <1>2, Numbers DEF EpInv, TypeOK, Table
<1>8. Opened' = Opened \ {f}  BY <1>7 DEF Opened
<1>9. \A g \in Opened \ {f} : g \in Fds \ {f} /\ fdtab[g] # c /\ fdtab[g] \in Clients
  BY <1>2, <1>3, OpenConn DEF EpInv, Table
<1>10. TypeOK'  BY <1>1, <1>6, <1>7 DEF EpInv, TypeOK
<1>11. Table'
  <2>1. \A g \in Opened' : server'[fdtab'[g]] = "open"
    BY <1>4, <1>7, <1>8, <1>9 DEF EpInv, Table, NetInv, NetTypeOK
  <2>2. \A g, h \in Opened' : fdtab'[g] = fdtab'[h] => g = h
    BY <1>7, <1>8, <1>9 DEF EpInv, Table
  <2>3. batch' \subseteq {Listen} \cup Opened'  BY <1>1, <1>8 DEF EpInv, Table
  <2>. QED  BY <1>7, <2>1, <2>2, <2>3 DEF Table
<1>12. Filled'  BY <1>1, <1>7, <1>8, <1>9 DEF EpInv, Filled
<1>13. OneAnswerPerRead'
  BY <1>1, <1>7 DEF EpInv, OneAnswerPerRead
<1>14. StillFires'
  <2>1. \A g \in batch' : g = Listen \/ g \in Opened \ {f}  BY <1>1 DEF EpInv, Table
  <2>2. \A g \in batch' : interest'[g] = interest[g] /\ (g = Listen \/ fdtab'[g] = fdtab[g])
    BY <1>7, <1>9, <2>1 DEF EpInv, Table
  <2>3. \A g \in batch' : Fires(g)' <=> Fires(g)
    BY <1>1, <2>1, <2>2 DEF Fires, Readable, DataReady, EofReady, ErrReady, Room
  <2>. QED  BY <1>1, <2>2, <2>3 DEF EpInv, StillFires
<1>. QED  BY <1>6, <1>10, <1>11, <1>12, <1>13, <1>14 DEF EpInv

-----------------------------------------------------------------------------
LEMMA EpNext == EpInv /\ [Next]_vars => EpInv'
<1>. SUFFICES ASSUME EpInv, [Next]_vars PROVE EpInv'  OBVIOUS
<1>1. CASE Loop
  <2>1. alive  BY <1>1 DEF Loop
  <2>2. CASE AcceptFail
    BY <2>2, EpDies DEF AcceptFail, Event
  <2>3. ASSUME NEW f \in Fds, WriteSigpipe(f) PROVE EpInv'
    BY <2>3, EpDies DEF WriteSigpipe, Event
  <2>. QED
    BY <1>1, <2>1, <2>2, <2>3, EpWait, EpAccept, EpRead, EpEof, EpWrite DEF Loop
<1>2. ASSUME NEW c \in Clients, ClientStep(c) PROVE EpInv'
  BY <1>2, EpClient
<1>3. CASE UNCHANGED vars
  <2>1. UNCHANGED <<net, fdtab, interest, batch, reported, buf, alive>>
    BY <1>3 DEF vars, loop
  <2>2. /\ NetInv' /\ NetTypeOK' /\ Opened' = Opened /\ Filled' /\ OneAnswerPerRead'
        /\ \A f : Fires(f)' <=> Fires(f)
    BY <2>1, EpFrame
  <2>3. TypeOK' /\ Table'  BY <2>1, <2>2 DEF EpInv, TypeOK, Table, net
  <2>. QED  BY <2>1, <2>2, <2>3 DEF EpInv, StillFires
<1>. QED  BY <1>1, <1>2, <1>3 DEF Next

THEOREM EpollSafe == Spec => []EpInv
BY EpInit, EpNext, PTL DEF Spec

\* No call of the loop blocks: what epoll_wait() reported is still true when
\* its turn comes, whatever the events before it closed, opened or changed
\* (tcp_echo_epoll_server.c:78-127).
THEOREM EventsStayTrue == Spec => []StillTrue
<1>1. EpInv => StillTrue  BY DEF EpInv, StillFires, StillTrue
<1>. QED  BY <1>1, EpollSafe, PTL

\* A connection waits for EPOLLOUT exactly when one chunk more was read from
\* it than written back (tcp_echo_epoll_server.c:112-124).
THEOREM EachReadIsAnswered == Spec => []OneAnswerPerRead
<1>1. EpInv => OneAnswerPerRead  BY DEF EpInv
<1>. QED  BY <1>1, EpollSafe, PTL

-----------------------------------------------------------------------------
(* IterEcho. *)

\* What message holds is of a connection that was accepted, of the one being
\* served its last chunk.
LineOf(c) ==
  \/ line[1] = c /\ nread[c] >= 1 /\ line = <<c, nread[c]>>
  \/ line[1] # c /\ nread[c] = 0

\* The first n chunks were written back, or as many as it took.
Back(c, n) ==
  /\ Own(c, Len(echoed[c])) /\ Len(echoed[c]) <= n
  /\ Reads(peer[c]) => Len(echoed[c]) = n

\* One line more than the client sent, by the second server.
OneMore(c) == LET n == Len(echoed[c]) IN
  /\ Stdio /\ peer[c] # "up" /\ n = nsent[c] + 1 /\ Own(c, n - 1)
  /\ echoed[c][n] = <<c, n - 1>> \/ (n = 1 /\ echoed[c][n][1] # c)

Turn ==
  /\ ipc = "read" => Back(cur, nread[cur]) /\ LineOf(cur)
  /\ ipc = "write" =>
       \/ nread[cur] >= 1 /\ line = <<cur, nread[cur]>> /\ Back(cur, nread[cur] - 1)
       \/ /\ Stdio /\ Back(cur, nread[cur]) /\ LineOf(cur)
          /\ Reads(peer[cur]) => eof /\ peer[cur] = "fin" /\ nread[cur] = nsent[cur]

\* A piece of the buffer nobody waits for any more, and one of the first n
\* chunks of the connection being served.
Old(x) == x = NoChunk \/ (x \in Chunks /\ server[x[1]] = "closed")
Mine(x, n) == x \in Chunks /\ x[1] = cur /\ x[2] \in 1..n

Held(n) == \A i \in DOMAIN rest : Old(rest[i]) \/ Mine(rest[i], n)

\* What the buffer of the first server holds; the second one's ends with line.
Buffer ==
  /\ Stdio => rest = <<>>
  /\ ~Stdio =>
       /\ ipc = "accept" => Old(line) /\ Held(0)
       /\ ipc \in {"read", "close"} =>
            (Old(line) \/ Mine(line, nread[cur])) /\ Held(nread[cur])
       /\ ipc = "write" => Held(nread[cur] - 1)

Leftovers == \A c \in Clients : \A n \in DOMAIN behind[c] : Leftover(c, n)

IterInv ==
  /\ NetInv /\ IterTypeOK /\ Turn /\ Buffer /\ Leftovers
  /\ \A c \in Clients : line[1] = c => server[c] # "new"
  /\ \A c \in Clients : Own(c, Len(echoed[c])) \/ OneMore(c)

LEMMA Current ==
  ASSUME IterInv, ipc \in {"read", "write", "close"}
  PROVE  cur \in Clients /\ server[cur] = "open"
BY DEF IterInv, IterTypeOK

LEMMA LineTyped ==
  ASSUME NEW l \in Lines
  PROVE  \/ l = NoChunk /\ l[1] = NoConn
         \/ l \in Clients \X Nat /\ l = <<l[1], l[2]>>
BY DEF Lines, Chunks, NoChunk

\* What a client may do to a connection the server has accepted.
LEMMA ClientLeaves ==
  ASSUME NetInv, NEW c \in Clients, Client(c), NEW d \in Clients, peer[d] # "idle"
  PROVE  /\ UNCHANGED <<nread, echoed, server>>
         /\ Reads(peer'[d]) => Reads(peer[d])
         /\ peer[d] # "up" => peer'[d] # "up" /\ nsent'[d] = nsent[d]
         /\ peer[d] = "fin" /\ Reads(peer'[d]) => peer'[d] = "fin"
<1>. USE DEF NetInv, NetTypeOK
<1>1. CASE Connect(c)  BY <1>1 DEF Connect, Reads
<1>2. CASE ClientWrite(c)  BY <1>2 DEF ClientWrite
<1>3. CASE Shutdown(c)  BY <1>3 DEF Shutdown, Reads
<1>4. CASE Kill(c)
  <2>1. PICK p \in {"gone", "rst", "broken"} : peer' = [peer EXCEPT ![c] = p]
    BY <1>4, KillFacts
  <2>. QED  BY <1>4, <2>1 DEF Kill, Reads
<1>5. CASE ClientRead(c)  BY <1>5 DEF ClientRead
<1>. QED  BY <1>1, <1>2, <1>3, <1>4, <1>5 DEF Client

\* A connection nothing is written to keeps what is said of it.
LEMMA OneMoreStays ==
  ASSUME NEW d \in Clients, OneMore(d), echoed'[d] = echoed[d], program' = program,
         peer[d] # "up" => peer'[d] # "up" /\ nsent'[d] = nsent[d]
  PROVE  OneMore(d)'
BY DEF OneMore, Own, Stdio

LEMMA BackStays ==
  ASSUME NEW d \in Clients, NEW n, Back(d, n), echoed'[d] = echoed[d],
         Reads(peer'[d]) => Reads(peer[d])
  PROVE  Back(d, n)'
BY DEF Back, Own

\* What the server does without a write.
LEMMA OnlyRead ==
  ASSUME IterInv, NEW d \in Clients, UNCHANGED <<echoed, nsent, program>>,
         peer[d] # "up" => peer'[d] # "up"
  PROVE  (Own(d, Len(echoed[d])) \/ OneMore(d))'
<1>1. CASE Own(d, Len(echoed[d]))  BY <1>1 DEF Own
<1>2. CASE OneMore(d)  BY <1>2, OneMoreStays
<1>. QED  BY <1>1, <1>2 DEF IterInv

\* What was closed stays so, and what was left in an answer too.
LEMMA LeftoversStay ==
  ASSUME Leftovers, UNCHANGED <<behind, program>>,
         \A c \in Clients : server[c] = "closed" => server'[c] = "closed"
  PROVE  Leftovers'
<1>. SUFFICES ASSUME NEW c \in Clients, NEW n \in DOMAIN behind[c]  PROVE Leftover(c, n)'
  BY DEF Leftovers
<1>1. Leftover(c, n)  BY DEF Leftovers
<1>. QED  BY <1>1 DEF Leftover, Stdio

LEMMA OldStays ==
  ASSUME NEW x, Old(x), \A c \in Clients : server[c] = "closed" => server'[c] = "closed"
  PROVE  Old(x)'
BY DEF Old, Chunks

LEMMA BufferStays ==
  ASSUME Buffer, UNCHANGED <<line, rest, cur, nread, program>>,
         ipc' = ipc \/ ipc' = "dead" \/ (ipc \in {"read", "close"} /\ ipc' \in {"read", "close"}),
         \A c \in Clients : server[c] = "closed" => server'[c] = "closed"
  PROVE  Buffer'
<1>1. \A x : Old(x) => Old(x)'  BY OldStays
<1>2. \A n : Held(n) => Held(n)'  BY <1>1 DEF Held, Mine
<1>. QED  BY <1>1, <1>2 DEF Buffer, Mine, Stdio

LEMMA IterClientKeeps ==
  ASSUME IterInv, NEW c \in Clients, IterClient(c), program' = program
  PROVE  IterInv'
<1>. USE DEF IterInv
<1>1. Client(c) /\ UNCHANGED iter  BY DEF IterClient
<1>2. NetInv'  BY <1>1, ClientKeeps
<1>3. UNCHANGED <<ipc, cur, line, rest, behind, eof, accepts>>  BY <1>1 DEF iter
<1>4. UNCHANGED <<nread, echoed, server>>
  BY <1>1 DEF Client, Connect, ClientWrite, Shutdown, Kill, ClientRead
<1>5. IterTypeOK'  BY <1>2, <1>3, <1>4 DEF NetInv, IterTypeOK
<1>6. \A d \in Clients : server[d] # "new" => peer[d] # "idle"
  BY DEF NetInv, ConnInv
<1>7. Turn'
  <2>1. CASE ipc \in {"read", "write"}
    <3>1. cur \in Clients /\ peer[cur] # "idle"  BY <2>1, <1>6, Current
    <3>2. /\ Reads(peer'[cur]) => Reads(peer[cur])
          /\ peer[cur] = "fin" /\ Reads(peer'[cur]) => peer'[cur] = "fin" /\ nsent'[cur] = nsent[cur]
      BY <1>1, <3>1, ClientLeaves
    <3>3. \A n : Back(cur, n) => Back(cur, n)'  BY <1>3, <1>4, <3>1, <3>2, BackStays
    <3>4. LineOf(cur) => LineOf(cur)'  BY <1>3, <1>4 DEF LineOf
    <3>. QED  BY <1>3, <1>4, <3>2, <3>3, <3>4 DEF Turn, Stdio
  <2>2. CASE ipc \notin {"read", "write"}  BY <1>3, <2>2 DEF Turn
  <2>. QED  BY <2>1, <2>2
<1>8. ASSUME NEW d \in Clients  PROVE (Own(d, Len(echoed[d])) \/ OneMore(d))'
  <2>1. CASE Own(d, Len(echoed[d]))  BY <1>4, <2>1 DEF Own
  <2>2. CASE OneMore(d)
    <3>1. peer[d] # "idle"
      BY <2>2, <1>6 DEF OneMore, NetInv, NetTypeOK, ConnInv
    <3>. QED  BY <1>1, <1>4, <2>2, <3>1, ClientLeaves, OneMoreStays
  <2>. QED  BY <2>1, <2>2
<1>9. \A d \in Clients : line'[1] = d => server'[d] # "new"  BY <1>3, <1>4
<1>10. Buffer' /\ Leftovers'  BY <1>3, <1>4, BufferStays, LeftoversStay
<1>. QED  BY <1>2, <1>5, <1>7, <1>8, <1>9, <1>10

LEMMA AcceptKeepsIter ==
  ASSUME IterInv, NEW c \in Clients, AcceptNext(c), program' = program
  PROVE  IterInv'
<1>. USE DEF IterInv
<1>1. /\ ipc = "accept" /\ accepts < MaxAccepts /\ Accepted(c) /\ cur' = c /\ eof' = FALSE
      /\ accepts' = accepts + 1 /\ ipc' = "read" /\ UNCHANGED <<line, rest, behind>>
  BY DEF AcceptNext
<1>2. NetInv' /\ server[c] = "new"  BY <1>1, AcceptKeeps
<1>3. /\ server' = [server EXCEPT ![c] = "open"]
      /\ UNCHANGED <<peer, nsent, nread, echoed>>
  BY <1>1 DEF Accepted
<1>4. nread[c] = 0 /\ echoed[c] = <<>>  BY <1>2 DEF NetInv, ConnInv
<1>5. IterTypeOK'
  <2>1. {d \in Clients : server[d] = "open"} = {}  BY <1>1 DEF IterTypeOK
  <2>2. {d \in Clients : server'[d] = "open"} = {c}
    BY <1>3, <2>1 DEF NetInv, NetTypeOK
  <2>3. accepts' \in 0..MaxAccepts  BY <1>1, IterAssumption DEF IterTypeOK
  <2>. QED  BY <1>1, <1>2, <1>3, <2>2, <2>3 DEF IterTypeOK, NetInv
<1>6. Turn'
  <2>1. line[1] # c  BY <1>2
  <2>2. Len(echoed[c]) = 0  BY <1>4
  <2>3. Back(c, 0)' /\ LineOf(c)'  BY <1>1, <1>3, <1>4, <2>1, <2>2 DEF Back, LineOf, Own
  <2>. QED  BY <1>1, <1>3, <1>4, <2>3 DEF Turn
<1>7. \A d \in Clients : line'[1] = d => server'[d] # "new"
  BY <1>1, <1>3 DEF NetInv, NetTypeOK
<1>8. \A d \in Clients : (Own(d, Len(echoed[d])) \/ OneMore(d))'
  BY <1>3, OnlyRead
<1>9. \A d \in Clients : server[d] = "closed" => server'[d] = "closed"
  BY <1>2, <1>3 DEF NetInv, NetTypeOK
<1>10. Buffer'
  <2>1. \A x : Old(x) => Old(x)'  BY <1>9, OldStays
  <2>2. Held(0) => Held(0)'  BY <1>1, <2>1 DEF Held, Mine
  <2>. QED  BY <1>1, <1>3, <1>4, <2>1, <2>2 DEF Buffer, Stdio
<1>. QED  BY <1>1, <1>2, <1>5, <1>6, <1>7, <1>8, <1>9, <1>10, LeftoversStay

\* What shows behind a new chunk was in the buffer before.
LEMMA UncoveredPieces ==
  ASSUME NEW q \in Uncovered \cup {<<>>}, line \in Lines, rest \in Seq(Lines)
  PROVE  /\ q \in Seq(Lines)
         /\ \A i \in DOMAIN q : q[i] = line \/ \E j \in DOMAIN rest : q[i] = rest[j]
<1>. DEFINE old == <<line>> \o rest
<1>1. /\ old \in Seq(Lines) /\ Len(old) = Len(rest) + 1 /\ Len(rest) \in Nat
      /\ \A k \in 1..Len(old) : old[k] = IF k = 1 THEN line ELSE rest[k - 1]
  OBVIOUS
<1>2. CASE q = <<>>  BY <1>2
<1>3. CASE q # <<>>
  <2>1. PICK n \in 1..(Len(old) + 1) : q = SubSeq(old, n, Len(old))
    BY <1>3 DEF Uncovered
  <2>. HIDE DEF old
  <2>2. /\ q \in Seq(Lines) /\ Len(q) = Len(old) - n + 1
        /\ \A i \in 1..Len(q) : n + i - 1 \in 1..Len(old) /\ q[i] = old[n + i - 1]
    BY <1>1, <2>1
  <2>3. ASSUME NEW i \in DOMAIN q
        PROVE  q[i] = line \/ \E j \in DOMAIN rest : q[i] = rest[j]
    <3>1. i \in 1..Len(q)  BY <2>2
    <3>4. n + i - 1 \in 1..Len(old) /\ q[i] = old[n + i - 1]  BY <2>2, <3>1
    <3>2. CASE n + i - 1 = 1  BY <1>1, <3>1, <3>2, <3>4
    <3>3. CASE n + i - 1 # 1
      <4>1. n + i - 2 \in 1..Len(rest) /\ q[i] = rest[n + i - 2]
        BY <1>1, <3>1, <3>3, <3>4
      <4>. QED  BY <4>1
    <3>. QED  BY <3>2, <3>3
  <2>. QED  BY <2>2, <2>3
<1>. QED  BY <1>2, <1>3

LEMMA ReadKeepsIter ==
  ASSUME IterInv, ReadChunk, program' = program
  PROVE  IterInv'
<1>. USE DEF IterInv
<1>1. /\ ipc = "read" /\ TakeData(cur) /\ line' = <<cur, nread[cur] + 1>> /\ ipc' = "write"
      /\ rest' \in (IF Stdio THEN {<<>>} ELSE Uncovered)
      /\ UNCHANGED <<cur, behind, accepts>>
  BY DEF ReadChunk
<1>2. eof' \in BOOLEAN  BY DEF ReadChunk
<1>3. cur \in Clients /\ server[cur] = "open"  BY <1>1, Current
<1>4. NetInv'  BY <1>1, <1>3, TakeDataKeeps
<1>5. /\ nread' = [nread EXCEPT ![cur] = @ + 1] /\ UNCHANGED <<peer, nsent, echoed, server>>
  BY <1>1 DEF TakeData
<1>6. nread[cur] \in Nat /\ nread'[cur] = nread[cur] + 1  BY <1>3, <1>5 DEF NetInv, NetTypeOK
<1>7. IterTypeOK'
  <2>1. line' \in Lines  BY <1>1, <1>3, <1>6 DEF Lines, Chunks
  <2>2. rest' \in Seq(Lines)  BY <1>1, UncoveredPieces DEF IterTypeOK
  <2>. QED  BY <1>1, <1>2, <1>4, <1>5, <2>1, <2>2 DEF IterTypeOK, NetInv
<1>8. Turn'
  <2>1. Back(cur, nread[cur])  BY <1>1 DEF Turn
  <2>2. nread'[cur] - 1 = nread[cur] /\ nread'[cur] >= 1  BY <1>6
  <2>3. (nread[cur] >= 1 /\ line = <<cur, nread[cur]>> /\ Back(cur, nread[cur] - 1))'
    BY <1>1, <1>3, <1>5, <1>6, <2>1, <2>2 DEF Back, Own
  <2>. QED  BY <1>1, <2>3 DEF Turn
<1>9. \A d \in Clients : line'[1] = d => server'[d] # "new"  BY <1>1, <1>3, <1>5
<1>10. \A d \in Clients : (Own(d, Len(echoed[d])) \/ OneMore(d))'
  BY <1>5, OnlyRead
<1>11. Buffer'
  <2>1. CASE Stdio  BY <1>1, <2>1 DEF Buffer, Stdio
  <2>2. CASE ~Stdio
    <3>1. Old(line) \/ Mine(line, nread[cur])  BY <1>1, <2>2 DEF Buffer
    <3>2. Held(nread[cur])  BY <1>1, <2>2 DEF Buffer
    <3>3. ASSUME NEW i \in DOMAIN rest'
          PROVE  Old(rest'[i]) \/ Mine(rest'[i], nread[cur])
      <4>1. rest' \in Uncovered /\ line \in Lines /\ rest \in Seq(Lines)
        BY <1>1, <2>2 DEF IterTypeOK
      <4>2. rest'[i] = line \/ \E j \in DOMAIN rest : rest'[i] = rest[j]
        BY <4>1, UncoveredPieces
      <4>. QED  BY <3>1, <3>2, <4>2 DEF Held
    <3>4. nread'[cur'] - 1 = nread[cur]  BY <1>1, <1>6
    <3>6. Held(nread[cur] - 1)'
      BY <1>1, <1>5, <3>3, <3>4 DEF Held, Old, Mine
    <3>. QED  BY <1>1, <2>2, <3>6 DEF Buffer, Stdio
  <2>. QED  BY <2>1, <2>2
<1>12. Leftovers'  BY <1>1, <1>5, LeftoversStay
<1>. QED  BY <1>4, <1>7, <1>8, <1>9, <1>10, <1>11, <1>12

LEMMA EndKeepsIter ==
  ASSUME IterInv, ReadEnd \/ ReadFails, program' = program
  PROVE  IterInv'
<1>. USE DEF IterInv
<1>1. /\ ipc = "read" /\ ipc' = (IF Stdio THEN "write" ELSE "close")
      /\ UNCHANGED <<cur, line, rest, behind, accepts, nsent, nread, echoed, server>>
  BY DEF ReadEnd, ReadFails, TakeErr, net
<1>2. cur \in Clients /\ server[cur] = "open"  BY <1>1, Current
<1>3. NetInv'
  BY <1>2, TakeErrKeeps, NetFrame DEF ReadEnd, ReadFails
<1>4. \/ ReadEnd /\ EofReady(cur) /\ eof' = Stdio /\ peer' = peer
      \/ ReadFails /\ TakeErr(cur) /\ eof' = eof
  BY DEF ReadEnd, ReadFails, net
<1>5. \A d \in Clients : (Reads(peer'[d]) => Reads(peer[d])) /\ (peer[d] # "up" => peer'[d] # "up")
  BY <1>2, <1>4 DEF TakeErr, Reads, NetInv, NetTypeOK
<1>6. eof' \in BOOLEAN  BY <1>4 DEF IterTypeOK, Stdio
<1>7. IterTypeOK'  BY <1>1, <1>3, <1>6 DEF IterTypeOK, NetInv
<1>8. Turn'
  <2>1. Back(cur, nread[cur]) /\ LineOf(cur)  BY <1>1 DEF Turn
  <2>2. Back(cur, nread[cur])' /\ LineOf(cur)'
    <3>1. Back(cur, nread[cur])'  BY <1>1, <1>2, <1>5, <2>1 DEF Back, Own
    <3>. QED  BY <1>1, <2>1, <3>1 DEF LineOf
  <2>3. Stdio /\ Reads(peer'[cur]) => eof' /\ peer'[cur] = "fin" /\ nread[cur] = nsent[cur]
    <3>1. CASE ReadEnd
      BY <1>4, <3>1 DEF ReadEnd, EofReady, AtEof, Reads, net
    <3>2. CASE ReadFails
      BY <1>2, <3>2 DEF ReadFails, TakeErr, Reads, NetInv, NetTypeOK
    <3>. QED  BY <1>4, <3>1, <3>2
  <2>. QED  BY <1>1, <2>2, <2>3 DEF Turn, Stdio
<1>9. \A d \in Clients : line'[1] = d => server'[d] # "new"  BY <1>1
<1>10. \A d \in Clients : (Own(d, Len(echoed[d])) \/ OneMore(d))'
  BY <1>1, <1>5, OnlyRead
<1>11. Leftovers'  BY <1>1, LeftoversStay
<1>12. Buffer'
  <2>1. CASE Stdio  BY <1>1, <2>1 DEF Buffer, Stdio
  <2>2. CASE ~Stdio  BY <1>1, <2>2, BufferStays
  <2>. QED  BY <2>1, <2>2
<1>. QED  BY <1>3, <1>7, <1>8, <1>9, <1>10, <1>11, <1>12

\* An answer and what is behind it go together.
LEMMA WriteTyped ==
  ASSUME IterInv, WriteLine, NetInv'
  PROVE  IterTypeOK'
<1>. USE DEF IterInv
<1>1. /\ ipc = "write" /\ WriteBack(cur, line) /\ ipc' = (IF eof THEN "close" ELSE "read")
      /\ behind' = [behind EXCEPT ![cur] = IF Reads(peer[cur]) THEN Append(@, rest) ELSE @]
      /\ echoed' = [echoed EXCEPT ![cur] = IF Reads(peer[cur]) THEN Append(@, line) ELSE @]
      /\ UNCHANGED <<cur, line, rest, eof, accepts, nsent, nread, server>>
  BY DEF WriteLine, WriteAll, WriteBack
<1>2. cur \in Clients /\ echoed \in [Clients -> Seq(Lines)] /\ behind \in [Clients -> Seq(Seq(Lines))]
  BY <1>1, Current DEF NetInv, NetTypeOK, IterTypeOK
<1>3. behind' \in [Clients -> Seq(Seq(Lines))]  BY <1>1, <1>2 DEF IterTypeOK
<1>4. ASSUME NEW c \in Clients  PROVE Len(behind'[c]) = Len(echoed'[c])
  <2>1. Len(behind[c]) = Len(echoed[c])  BY DEF IterTypeOK
  <2>2. CASE c = cur /\ Reads(peer[cur])
    <3>1. behind'[c] = Append(behind[c], rest) /\ echoed'[c] = Append(echoed[c], line)
      BY <1>1, <1>2, <2>2
    <3>2. behind[c] \in Seq(Seq(Lines)) /\ echoed[c] \in Seq(Lines)  BY <1>2
    <3>. QED  BY <2>1, <3>1, <3>2
  <2>3. CASE ~(c = cur /\ Reads(peer[cur]))
    <3>1. behind'[c] = behind[c] /\ echoed'[c] = echoed[c]  BY <1>1, <1>2, <2>3
    <3>. QED  BY <2>1, <3>1
  <2>. QED  BY <2>2, <2>3
<1>. QED  BY <1>1, <1>3, <1>4 DEF IterTypeOK, NetInv

\* The answer, the number of which is that of the chunk, has behind it what
\* the buffer held.
LEMMA WriteLeaves ==
  ASSUME IterInv, WriteLine, program' = program
  PROVE  Buffer' /\ Leftovers'
<1>. USE DEF IterInv
<1>1. /\ ipc = "write" /\ WriteBack(cur, line) /\ ipc' = (IF eof THEN "close" ELSE "read")
      /\ behind' = [behind EXCEPT ![cur] = IF Reads(peer[cur]) THEN Append(@, rest) ELSE @]
      /\ UNCHANGED <<cur, line, rest, nread, server>>
  BY DEF WriteLine, WriteAll, WriteBack
<1>2. cur \in Clients /\ server[cur] = "open" /\ nread[cur] \in Nat
  BY <1>1, Current DEF NetInv, NetTypeOK
<1>3. ~Stdio => nread[cur] >= 1 /\ line = <<cur, nread[cur]>> /\ Back(cur, nread[cur] - 1)
  BY <1>1 DEF Turn
<1>4. ~Stdio => Held(nread[cur] - 1)  BY <1>1 DEF Buffer
<1>5. Buffer'
  <2>1. CASE Stdio  BY <1>1, <2>1 DEF Buffer, Stdio
  <2>2. CASE ~Stdio
    <3>1. Mine(line, nread[cur])  BY <1>2, <1>3, <2>2 DEF Mine, Chunks
    <3>2. Held(nread[cur])  BY <1>2, <1>3, <1>4, <2>2 DEF Held, Mine
    <3>3. Held(nread[cur])' /\ Mine(line, nread[cur])'
      BY <1>1, <3>1, <3>2 DEF Held, Mine, Old
    <3>. QED  BY <1>1, <2>2, <3>3 DEF Buffer, Stdio
  <2>. QED  BY <2>1, <2>2
<1>6. ASSUME NEW c \in Clients, NEW n \in DOMAIN behind'[c]
      PROVE  Leftover(c, n)'
  <2>1. behind \in [Clients -> Seq(Seq(Lines))] /\ behind[c] \in Seq(Seq(Lines))
    BY DEF IterTypeOK
  <2>2. CASE n \in DOMAIN behind[c]
    <3>1. behind'[c][n] = behind[c][n]  BY <1>1, <2>1, <2>2
    <3>2. Leftover(c, n)  BY <2>2 DEF Leftovers
    <3>. QED  BY <1>1, <3>1, <3>2 DEF Leftover, Stdio
  <2>3. CASE n \notin DOMAIN behind[c]
    <3>1. c = cur /\ Reads(peer[cur]) /\ behind'[c] = Append(behind[c], rest)
      BY <1>1, <2>1, <2>3
    <3>2. n = Len(behind[c]) + 1 /\ behind'[c][n] = rest
      BY <2>1, <2>3, <3>1
    <3>3. CASE Stdio  BY <3>2, <3>3 DEF Buffer, Leftover, Stdio
    <3>4. CASE ~Stdio
      <4>1. n = nread[cur]
        BY <1>2, <1>3, <3>1, <3>2, <3>4 DEF Back, IterTypeOK
      <4>2. ASSUME NEW i \in DOMAIN rest
            PROVE  \/ rest[i] = NoChunk
                   \/ rest[i][1] = c /\ rest[i][2] \in 1..(n - 1)
                   \/ rest[i][1] \in Clients \ {c} /\ server[rest[i][1]] = "closed"
        BY <1>2, <1>4, <3>1, <3>4, <4>1 DEF Held, Old, Mine, Chunks
      <4>. QED  BY <1>1, <3>2, <3>4, <4>2 DEF Leftover, Stdio
    <3>. QED  BY <3>3, <3>4
  <2>. QED  BY <2>2, <2>3
<1>. QED  BY <1>5, <1>6 DEF Leftovers

LEMMA WriteKeepsIter ==
  ASSUME IterInv, WriteLine, program' = program
  PROVE  IterInv'
<1>. USE DEF IterInv
<1>1. /\ ipc = "write" /\ WriteBack(cur, line) /\ ipc' = (IF eof THEN "close" ELSE "read")
      /\ behind' = [behind EXCEPT ![cur] = IF Reads(peer[cur]) THEN Append(@, rest) ELSE @]
      /\ UNCHANGED <<cur, line, rest, eof, accepts, nsent, nread, server>>
  BY DEF WriteLine, WriteAll, WriteBack
<1>2. cur \in Clients /\ server[cur] = "open"  BY <1>1, Current
<1>3. line \in Lines  BY DEF IterTypeOK
<1>4. NetInv'  BY <1>1, <1>2, <1>3, WriteBackKeeps
<1>5. IterTypeOK'  BY <1>2, <1>3, <1>4, WriteTyped
<1>6. PICK p \in AfterWrite(peer[cur]) : peer' = [peer EXCEPT ![cur] = p]
  BY <1>1 DEF WriteBack
<1>7. /\ \A d \in Clients : Reads(peer'[d]) <=> Reads(peer[d])
      /\ \A d \in Clients : Reads(peer[d]) => peer'[d] = peer[d]
      /\ \A d \in Clients : peer[d] # "up" => peer'[d] # "up"
  BY <1>2, <1>6, AfterWriteFacts DEF NetInv, NetTypeOK, Reads
<1>8. /\ \A d \in Clients \ {cur} : echoed'[d] = echoed[d]
      /\ echoed'[cur] = IF Reads(peer[cur]) THEN Append(echoed[cur], line) ELSE echoed[cur]
  BY <1>1, <1>2 DEF WriteBack, NetInv, NetTypeOK
<1>9. /\ nread[cur] \in Nat /\ nsent[cur] \in Nat /\ echoed[cur] \in Seq(Lines)
      /\ Len(echoed[cur]) \in Nat
  BY <1>2 DEF NetInv, NetTypeOK
<1>10. \A d \in Clients : line'[1] = d => server'[d] # "new"  BY <1>1
<1>11. ASSUME NEW d \in Clients \ {cur}  PROVE (Own(d, Len(echoed[d])) \/ OneMore(d))'
  <2>1. CASE Own(d, Len(echoed[d]))  BY <1>8, <2>1 DEF Own
  <2>2. CASE OneMore(d)  BY <1>1, <1>7, <1>8, <2>2, OneMoreStays
  <2>. QED  BY <2>1, <2>2
<1>12. Buffer' /\ Leftovers'  BY WriteLeaves
<1>13. CASE nread[cur] >= 1 /\ line = <<cur, nread[cur]>> /\ Back(cur, nread[cur] - 1)
  <2>1. Back(cur, nread[cur])'
    <3>1. CASE Reads(peer[cur])
      <4>1. /\ Len(echoed[cur]) = nread[cur] - 1 /\ echoed'[cur] = Append(echoed[cur], line)
            /\ Own(cur, Len(echoed[cur]))
        BY <1>8, <1>13, <3>1 DEF Back
      <4>2. /\ Len(echoed'[cur]) = nread[cur] /\ echoed'[cur][nread[cur]] = <<cur, nread[cur]>>
            /\ \A k \in 1..Len(echoed[cur]) : echoed'[cur][k] = echoed[cur][k]
        BY <1>9, <1>3, <1>13, <4>1
      <4>3. \A k \in 1..nread[cur] : k \in 1..Len(echoed[cur]) \/ k = nread[cur]
        BY <1>9, <4>1
      <4>. QED  BY <1>1, <1>9, <4>1, <4>2, <4>3 DEF Back, Own
    <3>2. CASE ~Reads(peer[cur])
      BY <1>1, <1>2, <1>7, <1>8, <1>9, <1>13, <3>2 DEF Back, Own
    <3>. QED  BY <3>1, <3>2
  <2>2. LineOf(cur)'  BY <1>1, <1>13 DEF LineOf
  <2>3. Turn'  BY <1>1, <2>1, <2>2 DEF Turn
  <2>4. Own(cur, Len(echoed[cur]))'  BY <1>1, <2>1 DEF Back
  <2>5. \A d \in Clients : (Own(d, Len(echoed[d])) \/ OneMore(d))'
    BY <1>1, <1>11, <2>4
  <2>. QED  BY <1>4, <1>5, <1>10, <1>12, <2>3, <2>5
<1>14. CASE /\ Stdio /\ Back(cur, nread[cur]) /\ LineOf(cur)
            /\ Reads(peer[cur]) => eof /\ peer[cur] = "fin" /\ nread[cur] = nsent[cur]
  <2>1. CASE Reads(peer[cur])
    <3>1. /\ eof /\ peer[cur] = "fin" /\ nread[cur] = nsent[cur] /\ Len(echoed[cur]) = nread[cur]
          /\ Own(cur, Len(echoed[cur])) /\ echoed'[cur] = Append(echoed[cur], line)
      BY <1>8, <1>14, <2>1 DEF Back
    <3>2. Turn'  BY <1>1, <3>1 DEF Turn
    <3>3. /\ Len(echoed'[cur]) = nsent[cur] + 1 /\ echoed'[cur][nsent[cur] + 1] = line
          /\ \A k \in 1..nsent[cur] : echoed'[cur][k] = <<cur, k>>
      BY <1>3, <1>9, <3>1 DEF Own
    <3>4. line = <<cur, nsent[cur]>> \/ (nsent[cur] + 1 = 1 /\ line[1] # cur)
      BY <1>9, <1>14, <3>1 DEF LineOf
    <3>5. nsent[cur] + 1 - 1 = nsent[cur]  BY <1>9
    <3>6. peer'[cur] # "up"  BY <1>2, <1>7, <3>1
    <3>7. OneMore(cur)'
      <4>1. Len(echoed'[cur]) - 1 = nsent[cur] /\ nsent'[cur] = nsent[cur] /\ Stdio'
        <5>1. Stdio'  BY <1>14 DEF Stdio
        <5>. QED  BY <1>1, <1>9, <3>3, <5>1
      <4>2. Own(cur, Len(echoed[cur]) - 1)'  BY <1>1, <3>3, <4>1 DEF Own
      <4>3. LET n == Len(echoed'[cur]) IN
              echoed'[cur][n] = <<cur, n - 1>> \/ (n = 1 /\ echoed'[cur][n][1] # cur)
        BY <3>3, <3>4, <4>1
      <4>. QED  BY <1>1, <3>3, <3>6, <4>1, <4>2, <4>3 DEF OneMore
    <3>8. \A d \in Clients : (Own(d, Len(echoed[d])) \/ OneMore(d))'
      BY <1>1, <1>11, <3>7
    <3>. QED  BY <1>4, <1>5, <1>10, <1>12, <3>2, <3>8
  <2>2. CASE ~Reads(peer[cur])
    <3>1. echoed'[cur] = echoed[cur]  BY <1>8, <2>2
    <3>2. Back(cur, nread[cur])' /\ LineOf(cur)'
      <4>1. Back(cur, nread[cur])'
        BY <1>1, <1>2, <1>7, <1>14, <2>2, <3>1 DEF Back, Own
      <4>. QED  BY <1>1, <1>14, <4>1 DEF LineOf
    <3>3. Turn'  BY <1>1, <3>2 DEF Turn
    <3>4. Own(cur, Len(echoed[cur]))'  BY <1>1, <3>2 DEF Back
    <3>5. \A d \in Clients : (Own(d, Len(echoed[d])) \/ OneMore(d))'
      BY <1>1, <1>11, <3>4
    <3>. QED  BY <1>4, <1>5, <1>10, <1>12, <3>3, <3>5
  <2>. QED  BY <2>1, <2>2
<1>. QED  BY <1>1, <1>13, <1>14 DEF Turn

\* The steps that touch no connection.
LEMMA StayKeepsIter ==
  ASSUME IterInv, AcceptFails \/ WriteNothing \/ WriteDies, program' = program
  PROVE  IterInv'
<1>. USE DEF IterInv
<1>1. UNCHANGED <<net, cur, line, rest, behind, eof, accepts>>
  BY DEF AcceptFails, WriteNothing, WriteDies
<1>2. NetInv' /\ UNCHANGED <<peer, nsent, nread, echoed, server>>  BY <1>1, NetFrame DEF net
<1>3. \/ ipc' = "dead"
      \/ WriteNothing /\ ipc = "write" /\ line = NoChunk /\ ipc' = IF eof THEN "close" ELSE "read"
  BY DEF AcceptFails, WriteNothing, WriteDies
<1>4. IterTypeOK'  BY <1>1, <1>2, <1>3 DEF IterTypeOK, NetInv
<1>5. Turn'
  <2>1. CASE ipc' = "dead"  BY <2>1 DEF Turn
  <2>2. CASE WriteNothing
    <3>1. ipc = "write" /\ line = NoChunk /\ cur \in Clients
      BY <2>2, Current DEF WriteNothing
    <3>2. line # <<cur, nread[cur]>>  BY <3>1, EchoAssumption DEF NoChunk
    <3>3. Back(cur, nread[cur]) /\ LineOf(cur)  BY <3>1, <3>2 DEF Turn
    <3>4. Back(cur, nread[cur])' /\ LineOf(cur)'
      BY <1>1, <1>2, <3>3 DEF Back, Own, LineOf
    <3>. QED  BY <1>3, <2>1, <3>4 DEF Turn
  <2>. QED  BY <1>3, <2>1, <2>2
<1>6. \A d \in Clients : (Own(d, Len(echoed[d])) \/ OneMore(d))'
  BY <1>2, OnlyRead
<1>7. Leftovers'  BY <1>1, <1>2, LeftoversStay
<1>8. Buffer'
  <2>1. CASE ipc' = "dead"  BY <1>1, <1>2, <2>1, BufferStays
  <2>2. CASE WriteNothing
    <3>1. ipc = "write" /\ line = NoChunk /\ cur \in Clients
      BY <2>2, Current DEF WriteNothing
    <3>2. line # <<cur, nread[cur]>>  BY <3>1, EchoAssumption DEF NoChunk
    <3>3. Stdio  BY <3>1, <3>2 DEF Turn
    <3>. QED  BY <1>1, <3>3 DEF Buffer, Stdio
  <2>. QED  BY <1>3, <2>1, <2>2
<1>. QED  BY <1>1, <1>2, <1>4, <1>5, <1>6, <1>7, <1>8

LEMMA CloseKeepsIter ==
  ASSUME IterInv, CloseCur, program' = program
  PROVE  IterInv'
<1>. USE DEF IterInv
<1>1. /\ ipc = "close" /\ server' = [server EXCEPT ![cur] = "closed"]
      /\ ipc' = (IF accepts < MaxAccepts THEN "accept" ELSE "done")
      /\ UNCHANGED <<peer, nsent, nread, echoed, got, backlog, cur, line, rest, behind, eof, accepts>>
  BY DEF CloseCur, Released
<1>2. cur \in Clients /\ server[cur] = "open"  BY <1>1, Current
<1>3. NetInv'
  <2>1. ServerOnly  BY <1>1, <1>2 DEF ServerOnly, NetInv, NetTypeOK
  <2>. QED  BY <2>1, ServerKeeps
<1>4. IterTypeOK'
  <2>1. {d \in Clients : server[d] = "open"} = {cur}  BY <1>1 DEF IterTypeOK
  <2>2. {d \in Clients : server'[d] = "open"} = {}
    BY <1>1, <1>2, <2>1 DEF NetInv, NetTypeOK
  <2>. QED  BY <1>1, <1>3, <2>2 DEF IterTypeOK, NetInv
<1>5. Turn'  BY <1>1 DEF Turn
<1>6. \A d \in Clients : line'[1] = d => server'[d] # "new"
  BY <1>1, <1>2 DEF NetInv, NetTypeOK
<1>7. \A d \in Clients : (Own(d, Len(echoed[d])) \/ OneMore(d))'
  BY <1>1, OnlyRead
<1>8. \A d \in Clients : server[d] = "closed" \/ d = cur => server'[d] = "closed"
  BY <1>1, <1>2 DEF NetInv, NetTypeOK
<1>9. Buffer'
  <2>1. \A x, n : Old(x) \/ Mine(x, n) => Old(x)'  BY <1>8 DEF Old, Mine, Chunks
  <2>2. \A n : Held(n) => Held(0)'  BY <1>1, <2>1 DEF Held
  <2>. QED  BY <1>1, <2>1, <2>2 DEF Buffer, Stdio
<1>. QED  BY <1>1, <1>3, <1>4, <1>5, <1>6, <1>7, <1>8, <1>9, LeftoversStay

LEMMA IterSafe == IterativeSpec => []IterInv
<1>1. IterativeInit => IterInv
  <2>. SUFFICES ASSUME IterFresh PROVE IterInv  BY DEF IterativeInit
  <2>1. NetInv  BY NetInitInv DEF IterFresh
  <2>2. \A c \in Clients : server[c] = "new" /\ echoed[c] = <<>>
    BY DEF IterFresh, NetInit
  <2>3. line = NoChunk /\ line[1] = NoConn  BY DEF IterFresh, NoChunk
  <2>4. IterTypeOK
    <3>1. {c \in Clients : server[c] = "open"} = {}  BY <2>2
    <3>2. line \in Lines /\ accepts \in 0..MaxAccepts
      BY <2>3, IterAssumption DEF IterFresh, Lines
    <3>3. behind \in [Clients -> Seq(Seq(Lines))] /\ rest \in Seq(Lines)  BY DEF IterFresh
    <3>4. \A c \in Clients : Len(behind[c]) = Len(echoed[c])  BY <2>2 DEF IterFresh
    <3>. QED  BY <2>1, <3>1, <3>2, <3>3, <3>4 DEF IterFresh, IterTypeOK, NetInv
  <2>5. \A c \in Clients : Own(c, Len(echoed[c]))  BY <2>2 DEF Own
  <2>6. Buffer /\ Leftovers
    BY <2>3 DEF IterFresh, Buffer, Leftovers, Held, Old
  <2>. QED  BY <2>1, <2>3, <2>4, <2>5, <2>6, EchoAssumption DEF IterInv, IterFresh, Turn
<1>2. IterInv /\ UNCHANGED <<net, iter, program>> => IterInv'
  <2>. SUFFICES ASSUME IterInv, UNCHANGED <<net, iter, program>> PROVE IterInv'  OBVIOUS
  <2>1. NetInv' /\ IterTypeOK' /\ Turn'
    BY NetFrame DEF IterInv, net, iter, IterTypeOK, NetInv, Turn, Back, Own, LineOf, Stdio
  <2>2. Buffer' /\ Leftovers'
    BY BufferStays, LeftoversStay DEF IterInv, net, iter
  <2>3. /\ \A c \in Clients : line'[1] = c => server'[c] # "new"
        /\ \A c \in Clients : (Own(c, Len(echoed[c])) \/ OneMore(c))'
    BY DEF IterInv, net, iter, Own, OneMore, Stdio
  <2>. QED  BY <2>1, <2>2, <2>3 DEF IterInv
<1>3. IterInv /\ [IterativeNext]_<<net, iter, uvars, program>> => IterInv'
  BY <1>2, IterClientKeeps, AcceptKeepsIter, ReadKeepsIter, EndKeepsIter, WriteKeepsIter,
     StayKeepsIter, CloseKeepsIter
  DEF IterativeNext, IterNext, IterServer
<1>. QED  BY <1>1, <1>3, PTL DEF IterativeSpec

\* The answers to a client begin with its own chunks in order, each once; the
\* stdio server adds one line at the end of a client's input, the other one
\* pads its answers with nothing of a client that waits, for any number of
\* clients, chunks and accepts (tcp_echo_stdsvr.c:62-68,
\* tcp_echo_server.c:59-63).
THEOREM OwnLinesPlusLast == IterativeSpec => []OncePlusLast
<1>1. IterInv => OncePlusLast
  BY DEF IterInv, OncePlusLast, OneMore, Leftovers
<1>. QED  BY <1>1, IterSafe, PTL

-----------------------------------------------------------------------------
(* The first of the iterative servers as an echo service that pads. *)

First == program = "tcp_echo_server"

\* It does not look at feof(), and is done with a connection when it closes it.
Closing == First => ~eof /\ (ipc = "close" => Served(cur))

FirstInv == IterInv /\ Closing

\* Nobody takes back that he was served.
LEMMA ServedStays ==
  ASSUME NetInv, NEW c \in Clients, Client(c), NEW d \in Clients, server[d] = "open", Served(d)
  PROVE  Served(d)'
<1>1. peer[d] # "idle" /\ peer[d] # "up"  BY DEF NetInv, ConnInv, Served
<1>2. /\ echoed' = echoed /\ nsent'[d] = nsent[d]
      /\ peer[d] = "fin" /\ Reads(peer'[d]) => peer'[d] = "fin"
      /\ Reads(peer'[d]) => Reads(peer[d])
  BY <1>1, ClientLeaves
<1>3. peer'[d] \in PeerStates /\ peer'[d] \notin {"idle", "up"}
  <2>1. NetTypeOK'  BY ClientKeeps DEF NetInv
  <2>2. peer'[d] # "idle"
    BY <1>1 DEF NetInv, NetTypeOK, Client, Connect, ClientWrite, Shutdown, Kill, ClientRead, CloseBy
  <2>. QED  BY <1>1, <1>2, <2>1, <2>2 DEF NetTypeOK, Served, Reads
<1>. QED  BY <1>2, <1>3 DEF Served, Reads, PeerStates

LEMMA FirstServes ==
  ASSUME FirstInv, First, IterServer, program' = program
  PROVE  Refines /\ Closing'
<1>. USE DEF FirstInv
<1>0. ~Stdio /\ NetInv /\ NetTypeOK  BY DEF First, Stdio, IterInv, NetInv
<1>1. ASSUME NEW c \in Clients, AcceptNext(c) PROVE Refines /\ Closing'
  BY <1>0, <1>1, AcceptRefines DEF AcceptNext, Closing
<1>2. CASE AcceptFails \/ WriteDies \/ WriteNothing
  <2>1. UNCHANGED net  BY <1>2 DEF AcceptFails, WriteDies, WriteNothing
  <2>2. ipc' # "close"
    <3>1. CASE WriteNothing
      <4>1. ipc = "write" /\ cur \in Clients /\ line = NoChunk
        BY <3>1, Current DEF WriteNothing
      <4>2. line[1] = NoConn  BY <4>1 DEF NoChunk
      <4>3. line = <<cur, nread[cur]>>  BY <1>0, <4>1 DEF IterInv, Turn
      <4>. QED  BY <4>1, <4>2, <4>3, EchoAssumption
    <3>. QED  BY <1>2, <3>1 DEF AcceptFails, WriteDies
  <2>3. eof' = eof  BY <1>2 DEF AcceptFails, WriteDies, WriteNothing
  <2>. QED  BY <2>1, <2>2, <2>3, FrameRefines DEF Closing
<1>3. CASE ReadChunk
  <2>1. cur \in Clients /\ TakeData(cur) /\ ipc' = "write" /\ ~eof'
    BY <1>0, <1>3, Current DEF ReadChunk
  <2>. QED  BY <1>0, <2>1, TakeRefines DEF Closing
<1>4. CASE ReadEnd
  <2>1. cur \in Clients /\ EofReady(cur) /\ UNCHANGED <<net, cur>> /\ ipc = "read" /\ ~eof'
    BY <1>0, <1>4, Current DEF ReadEnd
  <2>2. Back(cur, nread[cur])  BY <2>1 DEF IterInv, Turn
  <2>3. Served(cur)
    BY <1>0, <2>1, <2>2 DEF EofReady, AtEof, Served, Back, Reads
  <2>4. Served(cur)'  BY <2>1, <2>3 DEF Served, net
  <2>. QED  BY <2>1, <2>4, FrameRefines DEF Closing
<1>5. CASE ReadFails
  <2>1. cur \in Clients /\ TakeErr(cur) /\ UNCHANGED <<cur, eof>>
    BY <1>5, Current DEF ReadFails
  <2>2. peer'[cur] = "broken"  BY <1>0, <2>1 DEF TakeErr, NetTypeOK
  <2>3. Served(cur)'  BY <2>1, <2>2 DEF Served
  <2>. QED  BY <1>0, <2>1, <2>3, TakeRefines DEF Closing
<1>6. CASE WriteLine
  <2>1. cur \in Clients /\ server[cur] = "open" /\ WriteBack(cur, line) /\ ipc = "write"
    BY <1>6, Current DEF WriteLine, WriteAll
  <2>2. nread[cur] >= 1 /\ line = <<cur, nread[cur]>> /\ Back(cur, nread[cur] - 1)
    BY <1>0, <2>1 DEF IterInv, Turn
  <2>3. nread[cur] <= nsent[cur] /\ nread[cur] \in Nat /\ nsent[cur] \in Nat
    BY <1>0, <2>1 DEF NetInv, ConnInv, NetTypeOK
  <2>4. Reads(peer[cur]) => line = <<cur, Len(echoed[cur]) + 1>> /\ Len(echoed[cur]) < nsent[cur]
    BY <2>2, <2>3 DEF Back
  <2>5. Refines  BY <1>0, <2>1, <2>4, WriteBackRefines
  <2>. QED  BY <1>6, <2>5 DEF WriteLine, Closing
<1>7. CASE CloseCur
  <2>1. /\ cur \in Clients /\ server' = [server EXCEPT ![cur] = "closed"]
        /\ UNCHANGED <<peer, nsent, nread, echoed, got, backlog>>
        /\ ipc = "close" /\ ipc' # "close" /\ eof' = eof
    BY <1>7, Current DEF CloseCur, Released
  <2>2. Served(cur)  BY <2>1 DEF Closing
  <2>. QED  BY <1>0, <2>1, <2>2, CloseRefines DEF Closing
<1>. QED  BY <1>1, <1>2, <1>3, <1>4, <1>5, <1>6, <1>7 DEF IterServer

LEMMA FirstStep ==
  FirstInv /\ IterInv' /\ [IterativeNext]_<<net, iter, uvars, program>>
    => FirstInv' /\ (First => Refines)
<1>. SUFFICES ASSUME FirstInv, IterInv', [IterativeNext]_<<net, iter, uvars, program>>
              PROVE  Closing' /\ (First => Refines)
  BY DEF FirstInv
<1>1. program' = program  BY DEF IterativeNext
<1>2. CASE ~First  BY <1>1, <1>2 DEF First, Closing
<1>3. CASE First /\ UNCHANGED <<net, iter>>
  BY <1>3, FrameRefines DEF FirstInv, Closing, Served, net, iter
<1>4. CASE First /\ IterServer
  BY <1>1, <1>4, FirstServes
<1>5. ASSUME First, NEW c \in Clients, IterClient(c) PROVE Closing' /\ Refines
  <2>1. Client(c) /\ UNCHANGED <<ipc, cur, eof>>  BY <1>5 DEF IterClient, iter
  <2>2. NetInv  BY DEF FirstInv, IterInv
  <2>3. Refines  BY <2>1, <2>2, ClientRefines
  <2>4. Closing'
    <3>1. CASE ipc = "close"
      <4>1. PICK d \in Clients : d = cur /\ server[d] = "open"
        BY <3>1, Current DEF FirstInv
      <4>2. Served(d) /\ ~eof  BY <1>5, <3>1, <4>1 DEF FirstInv, Closing
      <4>3. Served(d)'  BY <2>1, <2>2, <4>1, <4>2, ServedStays
      <4>. QED  BY <2>1, <4>1, <4>2, <4>3 DEF Closing, Served
    <3>. QED  BY <1>5, <2>1, <3>1 DEF FirstInv, Closing
  <2>. QED  BY <2>3, <2>4
<1>. QED  BY <1>2, <1>3, <1>4, <1>5 DEF IterativeNext, IterNext

\* The padded service makes the steps of the echo service.
LEMMA SameService ==
  /\ Echo!SInit <=> Padded!SInit
  /\ Echo!SNext <=> Padded!SNext
  /\ Echo!svars = Padded!svars
<1>1. Echo!SInit <=> Padded!SInit  BY DEF Echo!SInit, Padded!SInit
<1>2. Echo!svars = Padded!svars  BY DEF Echo!svars, Padded!svars
<1>3. ASSUME NEW c \in Clients
      PROVE  (\/ Echo!Send(c) \/ Echo!EchoNext(c) \/ Echo!Finish(c) \/ Echo!Leave(c)
              \/ Echo!CloseConn(c))
         <=> (\/ Padded!Send(c) \/ Padded!EchoNext(c) \/ Padded!Finish(c) \/ Padded!Leave(c)
              \/ Padded!CloseConn(c))
  <2>1. Echo!Send(c) <=> Padded!Send(c)  BY DEF Echo!Send, Padded!Send
  <2>2. Echo!EchoNext(c) <=> Padded!EchoNext(c)  BY DEF Echo!EchoNext, Padded!EchoNext
  <2>3. Echo!Finish(c) <=> Padded!Finish(c)  BY DEF Echo!Finish, Padded!Finish
  <2>4. Echo!Leave(c) <=> Padded!Leave(c)  BY DEF Echo!Leave, Padded!Leave
  <2>5. Echo!CloseConn(c) <=> Padded!CloseConn(c)  BY DEF Echo!CloseConn, Padded!CloseConn
  <2>. QED  BY <2>1, <2>2, <2>3, <2>4, <2>5
<1>4. Echo!SNext <=> Padded!SNext  BY <1>3 DEF Echo!SNext, Padded!SNext
<1>. QED  BY <1>1, <1>2, <1>4

\* What follows an answer was in the buffer; no other step answers.
LEMMA Pads ==
  ASSUME IterInv, IterInv', [IterativeNext]_<<net, iter, uvars, program>>
  PROVE  (First => Padded!Padding) /\ (echoed' = echoed => behind' = behind)
<1>. USE DEF IterInv
<1>1. CASE echoed' = echoed
  <2>1. behind' = behind
    <3>1. CASE \E c \in Clients : IterClient(c)  BY <3>1 DEF IterClient, iter
    <3>2. CASE IterServer /\ ~WriteLine
      BY <3>2 DEF IterServer, AcceptNext, AcceptFails, ReadChunk, ReadEnd, ReadFails,
        WriteNothing, WriteDies, CloseCur
    <3>3. CASE WriteLine
      <4>1. cur \in Clients /\ behind' \in [Clients -> Seq(Seq(Lines))]
            /\ behind \in [Clients -> Seq(Seq(Lines))]
        BY <3>3, Current DEF WriteLine, IterTypeOK
      <4>2. Len(behind'[cur]) = Len(behind[cur])  BY <1>1, <4>1 DEF IterTypeOK
      <4>3. behind' = [behind EXCEPT ![cur] = IF Reads(peer[cur]) THEN Append(@, rest) ELSE @]
        BY <3>3 DEF WriteLine, WriteAll
      <4>4. ~Reads(peer[cur])
        <5>. SUFFICES ASSUME Reads(peer[cur]) PROVE FALSE  OBVIOUS
        <5>1. behind'[cur] = Append(behind[cur], rest)  BY <4>1, <4>3
        <5>2. Len(behind'[cur]) = Len(behind[cur]) + 1 /\ Len(behind[cur]) \in Nat
          BY <4>1, <5>1
        <5>. QED  BY <4>2, <5>2
      <4>. QED  BY <4>1, <4>3, <4>4
    <3>4. CASE UNCHANGED iter  BY <3>4 DEF iter
    <3>. QED  BY <3>1, <3>2, <3>3, <3>4 DEF IterativeNext, IterNext
  <2>2. \A c \in Clients : Len(echoed'[c]) = Len(echoed[c])  BY <1>1
  <2>. QED  BY <2>1, <2>2 DEF Padded!Padding
<1>2. CASE echoed' # echoed
  <2>1. WriteLine
    <3>1. ~UNCHANGED net  BY <1>2 DEF net
    <3>2. ASSUME NEW c \in Clients, IterClient(c) PROVE FALSE
      BY <1>2, <3>2 DEF IterClient, Client, Connect, ClientWrite, Shutdown, Kill, ClientRead
    <3>3. IterServer  BY <3>1, <3>2 DEF IterativeNext, IterNext
    <3>. QED
      BY <1>2, <3>3 DEF IterServer, AcceptNext, Accepted, AcceptFails, ReadChunk, TakeData, ReadEnd,
        ReadFails, TakeErr, WriteNothing, WriteDies, CloseCur, net
  <2>2. /\ behind' = [behind EXCEPT ![cur] = IF Reads(peer[cur]) THEN Append(@, rest) ELSE @]
        /\ echoed' = [echoed EXCEPT ![cur] = IF Reads(peer[cur]) THEN Append(@, line) ELSE @]
        /\ ipc = "write" /\ server' = server /\ program' = program
    BY <2>1 DEF WriteLine, WriteAll, WriteBack, IterativeNext
  <2>3. /\ cur \in Clients /\ server[cur] = "open" /\ echoed \in [Clients -> Seq(Lines)]
        /\ behind \in [Clients -> Seq(Seq(Lines))]
    BY <2>2, Current DEF NetInv, NetTypeOK, IterTypeOK
  <2>4. Reads(peer[cur])  BY <1>2, <2>2, <2>3
  <2>5. \A c \in Clients \ {cur} : behind'[c] = behind[c] /\ echoed'[c] = echoed[c]
    BY <2>2, <2>3
  <2>6. ASSUME First
        PROVE  LET n == Len(echoed'[cur]) IN
                 /\ n # Len(echoed[cur]) /\ DOMAIN behind'[cur] = 1..n
                 /\ behind'[cur] = Append(behind[cur], behind'[cur][n])
                 /\ \A i \in DOMAIN behind'[cur][n] : Padded!Stale(cur, behind'[cur][n][i])
    <3>1. behind'[cur] = Append(behind[cur], rest) /\ echoed'[cur] = Append(echoed[cur], line)
      BY <2>2, <2>3, <2>4
    <3>2. behind[cur] \in Seq(Seq(Lines)) /\ echoed[cur] \in Seq(Lines)  BY <2>3
    <3>3. Len(behind[cur]) = Len(echoed[cur]) /\ Len(echoed[cur]) \in Nat
      BY <2>3, <3>2 DEF IterTypeOK
    <3>4. /\ Len(echoed'[cur]) = Len(echoed[cur]) + 1
          /\ DOMAIN behind'[cur] = 1..(Len(echoed[cur]) + 1)
          /\ behind'[cur][Len(echoed[cur]) + 1] = rest
      BY <3>1, <3>2, <3>3
    <3>5. ~Stdio  BY <2>6 DEF First, Stdio
    <3>6. Len(echoed[cur]) = nread[cur] - 1 /\ Held(nread[cur] - 1)
      BY <2>2, <2>4, <3>5 DEF Turn, Back, Buffer
    <3>7. ASSUME NEW i \in DOMAIN rest  PROVE Padded!Stale(cur, rest[i])
      <4>1. Old(rest[i]) \/ Mine(rest[i], Len(echoed[cur]))  BY <3>6 DEF Held
      <4>2. CASE rest[i] = NoChunk  BY <4>2 DEF Padded!Stale
      <4>3. CASE rest[i] \in Chunks /\ server[rest[i][1]] = "closed"
        BY <2>3, <4>3 DEF Padded!Stale, Chunks
      <4>4. CASE Mine(rest[i], Len(echoed[cur]))  BY <4>4 DEF Padded!Stale, Mine
      <4>. QED  BY <4>1, <4>2, <4>3, <4>4 DEF Old
    <3>. QED  BY <3>1, <3>3, <3>4, <3>7
  <2>. QED  BY <1>2, <2>5, <2>6 DEF Padded!Padding
<1>. QED  BY <1>1, <1>2

\* tcp_echo_server.c is an echo service that pads its answers: they begin with
\* the client's own chunks in order, what follows was in the buffer and is of
\* nobody that waits, and a connection is closed only when the client has them
\* all or left, for any number of clients, chunks and accepts
\* (tcp_echo_server.c:50-66).
THEOREM TurnsEcho == IterativeSpec => EchoOfTurns
<1>1. IterativeInit => (First => Padded!PInit) /\ Closing
  BY InitRefines, SameService DEF IterativeInit, IterFresh, Closing, Padded!PInit
<1>2. FirstInv /\ IterInv' /\ [IterativeNext]_<<net, iter, uvars, program>>
        => FirstInv' /\ [First => Padded!PNext]_(Padded!pvars)
  <2>. SUFFICES ASSUME FirstInv, IterInv', [IterativeNext]_<<net, iter, uvars, program>>
                PROVE  FirstInv' /\ [First => Padded!PNext]_(Padded!pvars)
    OBVIOUS
  <2>1. FirstInv' /\ (First => Refines)  BY FirstStep
  <2>2. (First => Padded!Padding) /\ (echoed' = echoed => behind' = behind)
    BY Pads DEF FirstInv
  <2>3. CASE First
    <3>1. CASE Echo!SNext
      BY <2>1, <2>2, <2>3, <3>1, SameService DEF Padded!PNext
    <3>2. CASE UNCHANGED Echo!svars
      BY <2>1, <2>2, <3>2 DEF Padded!pvars, Padded!svars, Echo!svars
    <3>. QED  BY <2>1, <2>3, <3>1, <3>2 DEF Refines
  <2>. QED  BY <2>1, <2>3
<1>3. (IterInv /\ Closing) <=> FirstInv  BY DEF FirstInv
<1>4. First <=> program = "tcp_echo_server"  BY DEF First
<1>. QED  BY <1>1, <1>2, <1>3, IterSafe, PTL DEF IterativeSpec, EchoOfTurns, First

-----------------------------------------------------------------------------
(* UdpEcho. *)

\* The k-th question of a client and the echo of it; the n-th datagram of the
\* stranger, if it goes to that client.
Quest(h, k) == Dgram(h, UdpServer, <<h, k>>)
Reply(h, k) == Dgram(UdpServer, h, <<h, k>>)
Alien(h, n) == Dgram(Stranger, h, <<Stranger, n>>)

\* What datagrams say.
Msgs == (Hosts \cup {Stranger}) \X Nat

\* How many copies of a datagram are on their way.
Count(d) == IF d \in DOMAIN air THEN air[d] ELSE 0

UdpTypes ==
  /\ up \in BOOLEAN /\ IsABag(air) /\ upc \in {"recv", "send"}
  /\ hpc \in [Hosts -> {"type", "wait", "quit"}]
  /\ asks \in [Hosts -> 0..MaxAsks] /\ refused \in [Hosts -> BOOLEAN]
  /\ answers \in [Hosts -> Seq(Msgs \cup {NoAnswer})]
  /\ \A h \in Hosts : Len(answers[h]) + (IF hpc[h] = "wait" THEN 1 ELSE 0) = asks[h]
  /\ dups \in Nat /\ strange \in 0..MaxFaults

\* Nothing is on its way but questions asked, echoes of them and what the
\* stranger sent; the server works on a question.
OnTheWay ==
  /\ \A d \in DOMAIN air :
       \/ \E h \in Hosts : \E k \in 1..asks[h] : d \in {Quest(h, k), Reply(h, k)}
       \/ \E h \in Hosts : \E n \in 1..strange : d = Alien(h, n)
  /\ upc = "send" => \E h \in Hosts : \E k \in 1..asks[h] : request = Quest(h, k)
  /\ \A h \in Hosts : refused[h] => h \in Connected

\* What a client was given is its own or, unconnected, the stranger's.
Given(h, a, i) ==
  \/ a = NoAnswer /\ h \in Connected
  \/ a[1] = h /\ a[2] \in 1..i
  \/ a[1] = Stranger /\ h \notin Connected

GivenOwn == \A h \in Hosts : \A i \in DOMAIN answers[h] : Given(h, answers[h][i], i)

UdpInv == UdpTypes /\ OnTheWay /\ GivenOwn

LEMMA SendsCount ==
  ASSUME IsABag(air), NEW d, Sends(d)
  PROVE  /\ IsABag(air') /\ DOMAIN air' = DOMAIN air \cup {d}
         /\ \A e : Count(e)' = IF e = d THEN Count(e) + 1 ELSE Count(e)
<1>1. air' = [e \in DOMAIN air \cup {d} |->
         (IF e \in DOMAIN air THEN air[e] ELSE 0) + (IF e = d THEN 1 ELSE 0)]
  <2>1. SetToBag({d}) = [e \in {d} |-> 1]  BY DEF SetToBag
  <2>2. air' = [e \in DOMAIN air \cup {d} |->
           (IF e \in DOMAIN air THEN air[e] ELSE 0)
           + (IF e \in {d} THEN SetToBag({d})[e] ELSE 0)]
    BY <2>1 DEF Sends, (+)
  <2>3. \A e : (IF e \in {d} THEN SetToBag({d})[e] ELSE 0) = IF e = d THEN 1 ELSE 0
    BY <2>1
  <2>. QED  BY <2>2, <2>3, Zenon
<1>2. \A e \in DOMAIN air : air[e] \in Nat /\ air[e] > 0
  BY DEF IsABag
<1>. QED  BY <1>1, <1>2 DEF IsABag, Count

LEMMA TakesCount ==
  ASSUME IsABag(air), NEW d, Takes(d)
  PROVE  /\ IsABag(air') /\ DOMAIN air' \subseteq DOMAIN air /\ d \in DOMAIN air
         /\ Count(d) \in Nat \ {0}
         /\ \A e : Count(e)' = IF e = d THEN Count(e) - 1 ELSE Count(e)
<1>1. d \in DOMAIN air  BY DEF Takes, BagIn, BagToSet
<1>2. \A e \in DOMAIN air : air[e] \in Nat /\ air[e] > 0
  BY DEF IsABag
<1>. DEFINE B == [e \in DOMAIN air |-> IF e = d THEN air[e] - 1 ELSE air[e]]
<1>3. air' = [e \in {f \in DOMAIN B : B[f] > 0} |-> B[e]]
  <2>1. SetToBag({d}) = [e \in {d} |-> 1]  BY DEF SetToBag
  <2>2. \A e : IF e \in DOMAIN SetToBag({d}) THEN e = d /\ SetToBag({d})[e] = 1 ELSE e # d
    BY <2>1
  <2>3. [e \in DOMAIN air |-> IF e \in DOMAIN SetToBag({d}) THEN air[e] - SetToBag({d})[e]
                                                            ELSE air[e]] = B
    BY <2>2
  <2>. QED  BY <2>3 DEF Takes, (-)
<1>4. \A e \in DOMAIN B : B[e] \in Nat  BY <1>2
<1>. QED  BY <1>1, <1>2, <1>3, <1>4 DEF IsABag, Count

LEMMA Addressed ==
  ASSUME NEW h \in Hosts, NEW g \in Hosts, NEW k, NEW n
  PROVE  /\ Quest(h, k) # Reply(g, n) /\ Quest(h, k) # Alien(g, n) /\ Reply(h, k) # Alien(g, n)
         /\ Quest(h, k) = Quest(g, n) <=> h = g /\ k = n
         /\ Reply(h, k) = Reply(g, n) <=> h = g /\ k = n
         /\ Quest(h, k).from = h /\ Quest(h, k).to = UdpServer /\ Quest(h, k).msg = <<h, k>>
         /\ Reply(h, k).from = UdpServer /\ Reply(h, k).to = h /\ Reply(h, k).msg = <<h, k>>
         /\ Alien(h, k).from = Stranger /\ Alien(h, k).to = h
         /\ Alien(h, k).msg = <<Stranger, k>>
         /\ h # UdpServer /\ h # Stranger /\ UdpServer # Stranger
BY UdpAssumption DEF Quest, Reply, Alien, Dgram

Known(d) ==
  \/ \E h \in Hosts : \E k \in 1..asks[h] : d \in {Quest(h, k), Reply(h, k)}
  \/ \E h \in Hosts : \E n \in 1..strange : d = Alien(h, n)

\* What is on its way for a client that gets to it is a question or an echo.
LEMMA KnownBy ==
  ASSUME NEW d, Known(d)
  PROVE  /\ d.to = UdpServer => \E h \in Hosts : \E k \in 1..asks[h] : d = Quest(h, k)
         /\ \A h \in Hosts : d.to = h => \/ \E k \in 1..asks[h] : d = Reply(h, k)
                                         \/ \E n \in 1..strange : d = Alien(h, n)
BY Addressed DEF Known

LEMMA KnownStays ==
  ASSUME UdpTypes, UdpTypes', NEW d, Known(d),
         \A h \in Hosts : asks'[h] >= asks[h], strange' >= strange
  PROVE  Known(d)'
<1>1. ASSUME NEW h \in Hosts, NEW k \in 1..asks[h]  PROVE k \in 1..asks'[h]
  <2>1. asks[h] \in Nat /\ asks'[h] \in Nat /\ asks'[h] >= asks[h]
    BY DEF UdpTypes
  <2>. QED  BY <2>1, <1>1
<1>2. ASSUME NEW n \in 1..strange  PROVE n \in 1..strange'
  BY UdpAssumption DEF UdpTypes
<1>. QED  BY <1>1, <1>2 DEF Known, Quest, Reply, Alien, Dgram

LEMMA GivenStays ==
  ASSUME GivenOwn, answers' = answers
  PROVE  GivenOwn'
BY DEF GivenOwn, Given

\* The steps that only move a datagram or the answer to a client.
LEMMA UdpTypesKept ==
  ASSUME UdpInv, UdpNext
  PROVE  UdpTypes'
<1>. USE UdpAssumption DEF UdpInv, UdpTypes
<1>1. CASE Bind  BY <1>1 DEF Bind
<1>2. CASE ServerSend
  BY <1>2, SendsCount DEF ServerSend
<1>3. ASSUME NEW d \in InAir, ServerRecv(d)  PROVE UdpTypes'
  BY <1>3, TakesCount DEF ServerRecv
<1>4. ASSUME NEW h \in Hosts, Ask(h)  PROVE UdpTypes'
  <2>1. IsABag(air')  BY <1>4, SendsCount DEF Ask
  <2>2. /\ asks[h] < MaxAsks /\ hpc[h] = "type"
        /\ asks' = [asks EXCEPT ![h] = @ + 1] /\ hpc' = [hpc EXCEPT ![h] = "wait"]
        /\ refused' = [refused EXCEPT ![h] = FALSE]
        /\ UNCHANGED <<up, upc, answers, dups, strange>>
    BY <1>4 DEF Ask
  <2>3. /\ hpc' \in [Hosts -> {"type", "wait", "quit"}] /\ refused' \in [Hosts -> BOOLEAN]
        /\ asks' \in [Hosts -> 0..MaxAsks]
    BY <2>2
  <2>4. \A g \in Hosts : Len(answers'[g]) + (IF hpc'[g] = "wait" THEN 1 ELSE 0) = asks'[g]
    BY <2>2
  <2>. QED  BY <2>1, <2>2, <2>3, <2>4
<1>5. ASSUME NEW h \in Hosts, AnswerError(h)  PROVE UdpTypes'
  <2>1. /\ hpc[h] = "wait" /\ hpc' = [hpc EXCEPT ![h] = "type"]
        /\ answers' = [answers EXCEPT ![h] = Append(@, NoAnswer)]
        /\ refused' = [refused EXCEPT ![h] = FALSE]
        /\ UNCHANGED <<up, air, upc, asks, dups, strange>>
    BY <1>5 DEF AnswerError
  <2>2. answers' \in [Hosts -> Seq(Msgs \cup {NoAnswer})]
    BY <2>1
  <2>3. \A g \in Hosts : Len(answers'[g]) = IF g = h THEN Len(answers[g]) + 1 ELSE Len(answers[g])
    BY <2>1
  <2>4. /\ hpc' \in [Hosts -> {"type", "wait", "quit"}] /\ refused' \in [Hosts -> BOOLEAN]
        /\ asks' \in [Hosts -> 0..MaxAsks] /\ IsABag(air')
    BY <2>1
  <2>5. ASSUME NEW g \in Hosts
        PROVE  Len(answers'[g]) + (IF hpc'[g] = "wait" THEN 1 ELSE 0) = asks'[g]
    <3>1. CASE g = h
      <4>1. Len(answers[g]) + 1 = asks[g] /\ hpc'[g] = "type" /\ asks' = asks
        BY <2>1, <3>1
      <4>2. Len(answers'[g]) = Len(answers[g]) + 1  BY <2>3, <3>1
      <4>. QED  BY <4>1, <4>2
    <3>2. CASE g # h
      <4>1. hpc'[g] = hpc[g] /\ asks' = asks  BY <2>1, <3>2
      <4>2. Len(answers'[g]) = Len(answers[g])  BY <2>3, <3>2
      <4>. QED  BY <4>1, <4>2
    <3>. QED  BY <3>1, <3>2
  <2>. QED  BY <2>1, <2>2, <2>4, <2>5
<1>6. ASSUME NEW h \in Hosts, NEW d \in InAir, Answer(h, d)  PROVE UdpTypes'
  <2>1. /\ hpc[h] = "wait" /\ hpc' = [hpc EXCEPT ![h] = "type"]
        /\ answers' = [answers EXCEPT ![h] = Append(@, d.msg)]
        /\ UNCHANGED <<up, upc, asks, refused, dups, strange>> /\ d.to = h /\ Takes(d)
    BY <1>6 DEF Answer
  <2>2. Known(d)  BY DEF OnTheWay, Known, InAir, BagToSet
  <2>3. d.msg \in Msgs
    <3>1. (\E k \in 1..asks[h] : d = Reply(h, k)) \/ (\E n \in 1..strange : d = Alien(h, n))
      BY <2>1, <2>2, KnownBy
    <3>2. ASSUME NEW k \in 1..asks[h], d = Reply(h, k)  PROVE d.msg \in Msgs
      <4>1. d.msg = <<h, k>>  BY <3>2 DEF Reply, Dgram
      <4>2. k \in Nat  BY <2>1
      <4>. QED  BY <4>1, <4>2 DEF Msgs
    <3>3. ASSUME NEW n \in 1..strange, d = Alien(h, n)  PROVE d.msg \in Msgs
      <4>1. d.msg = <<Stranger, n>>  BY <3>3 DEF Alien, Dgram
      <4>2. n \in Nat  BY <2>1
      <4>. QED  BY <4>1, <4>2 DEF Msgs
    <3>. QED  BY <3>1, <3>2, <3>3
  <2>4. answers' \in [Hosts -> Seq(Msgs \cup {NoAnswer})]
    BY <2>1, <2>3
  <2>5. \A g \in Hosts : Len(answers'[g]) = IF g = h THEN Len(answers[g]) + 1 ELSE Len(answers[g])
    BY <2>1, <2>3
  <2>6. IsABag(air')  BY <2>1, TakesCount
  <2>7. ASSUME NEW g \in Hosts
        PROVE  Len(answers'[g]) + (IF hpc'[g] = "wait" THEN 1 ELSE 0) = asks'[g]
    <3>1. CASE g = h
      <4>1. Len(answers[g]) + 1 = asks[g] /\ hpc'[g] = "type" /\ asks' = asks
        BY <2>1, <3>1
      <4>2. Len(answers'[g]) = Len(answers[g]) + 1  BY <2>5, <3>1
      <4>. QED  BY <4>1, <4>2
    <3>2. CASE g # h
      <4>1. hpc'[g] = hpc[g] /\ asks' = asks  BY <2>1, <3>2
      <4>2. Len(answers'[g]) = Len(answers[g])  BY <2>5, <3>2
      <4>. QED  BY <4>1, <4>2
    <3>. QED  BY <3>1, <3>2
  <2>8. hpc' \in [Hosts -> {"type", "wait", "quit"}]  BY <2>1
  <2>. QED  BY <2>1, <2>4, <2>6, <2>7, <2>8
<1>7. ASSUME NEW h \in Hosts, QuitUdp(h)  PROVE UdpTypes'
  BY <1>7 DEF QuitUdp
<1>8. ASSUME NEW h \in Hosts, StrangerSends(h)  PROVE UdpTypes'
  <2>1. IsABag(air')  BY <1>8, SendsCount DEF StrangerSends
  <2>2. /\ strange < MaxFaults /\ strange' = strange + 1
        /\ UNCHANGED <<up, upc, hpc, asks, answers, refused, dups>>
    BY <1>8 DEF StrangerSends
  <2>. QED  BY <2>1, <2>2
<1>9. ASSUME NEW d \in InAir, Lose(d)  PROVE UdpTypes'
  BY <1>9, TakesCount DEF Lose
<1>10. ASSUME NEW d \in InAir, Duplicate(d)  PROVE UdpTypes'
  <2>1. IsABag(air')  BY <1>10, SendsCount DEF Duplicate
  <2>2. dups' = dups + 1 /\ UNCHANGED <<up, upc, hpc, asks, answers, refused, strange>>
    BY <1>10 DEF Duplicate
  <2>. QED  BY <2>1, <2>2
<1>11. ASSUME NEW d \in InAir, Refuse(d)  PROVE UdpTypes'
  BY <1>11, TakesCount DEF Refuse
<1>. QED
  BY <1>1, <1>2, <1>3, <1>4, <1>5, <1>6, <1>7, <1>8, <1>9, <1>10, <1>11, Zenon
  DEF UdpNext, UdpServes, Receives

LEMMA OnTheWayKept ==
  ASSUME UdpInv, UdpNext
  PROVE  OnTheWay'
<1>1. UdpTypes /\ UdpTypes'  BY UdpTypesKept DEF UdpInv
<1>2. IsABag(air)  BY DEF UdpInv, UdpTypes
<1>3. \A d \in DOMAIN air : Known(d)  BY DEF UdpInv, OnTheWay, Known
<1>4. \A h \in Hosts : asks[h] \in Nat  BY <1>1, UdpAssumption DEF UdpTypes
<1>5. strange \in Nat  BY <1>1, UdpAssumption DEF UdpTypes
<1>6. ASSUME \A d \in DOMAIN air' : Known(d)',
             (upc = "send" => \E h \in Hosts : \E k \in 1..asks[h] : request = Quest(h, k))',
             (\A h \in Hosts : refused[h] => h \in Connected)'
      PROVE  OnTheWay'
  BY <1>6 DEF OnTheWay, Known
<1>7. ASSUME UNCHANGED <<asks, strange>>, NEW d, Known(d)  PROVE Known(d)'
  BY <1>1, <1>4, <1>5, <1>7, KnownStays
<1>8. ASSUME UNCHANGED <<upc, request, asks>>
      PROVE  (upc = "send" => \E h \in Hosts : \E k \in 1..asks[h] : request = Quest(h, k))'
  BY <1>8 DEF UdpInv, OnTheWay, Quest, Dgram
<1>9. \A h \in Hosts : refused[h] => h \in Connected  BY DEF UdpInv, OnTheWay
<1>10. ASSUME upc' # "send"
      PROVE  (upc = "send" => \E h \in Hosts : \E k \in 1..asks[h] : request = Quest(h, k))'
  BY <1>10
<1>11. CASE Bind
  BY <1>11, <1>3, <1>6, <1>7, <1>8, <1>9 DEF Bind
<1>12. CASE ServerSend
  <2>1. /\ Sends(Dgram(UdpServer, request.from, request.msg)) /\ upc = "send" /\ upc' = "recv"
        /\ UNCHANGED <<asks, strange, refused>>
    BY <1>12 DEF ServerSend
  <2>2. PICK h \in Hosts : \E k \in 1..asks[h] : request = Quest(h, k)
    BY <2>1 DEF UdpInv, OnTheWay
  <2>3. PICK k \in 1..asks[h] : request = Quest(h, k)  BY <2>2
  <2>4. Dgram(UdpServer, request.from, request.msg) = Reply(h, k)
    BY <2>3 DEF Quest, Reply, Dgram
  <2>5. Known(Reply(h, k))  BY DEF Known
  <2>6. DOMAIN air' = DOMAIN air \cup {Reply(h, k)}  BY <1>2, <2>1, <2>4, SendsCount
  <2>7. \A d \in DOMAIN air' : Known(d)'  BY <1>3, <1>7, <2>1, <2>5, <2>6
  <2>. QED  BY <1>6, <1>9, <1>10, <2>1, <2>7
<1>13. ASSUME NEW d \in InAir, ServerRecv(d)  PROVE OnTheWay'
  <2>1. /\ Takes(d) /\ d.to = UdpServer /\ request' = d /\ UNCHANGED <<asks, strange, refused>>
    BY <1>13 DEF ServerRecv
  <2>2. DOMAIN air' \subseteq DOMAIN air /\ d \in DOMAIN air  BY <1>2, <2>1, TakesCount
  <2>3. \E h \in Hosts : \E k \in 1..asks[h] : d = Quest(h, k)
    BY <1>3, <2>1, <2>2, KnownBy
  <2>4. (upc = "send" => \E h \in Hosts : \E k \in 1..asks[h] : request = Quest(h, k))'
    BY <2>1, <2>3 DEF Quest, Dgram
  <2>5. \A e \in DOMAIN air' : Known(e)'  BY <1>3, <1>7, <2>1, <2>2
  <2>. QED  BY <1>6, <1>9, <2>1, <2>4, <2>5
<1>14. ASSUME NEW h \in Hosts, Ask(h)  PROVE OnTheWay'
  <2>1. /\ asks' = [asks EXCEPT ![h] = @ + 1] /\ refused' = [refused EXCEPT ![h] = FALSE]
        /\ UNCHANGED <<upc, request, strange>>
        /\ air' = air \/ Sends(Dgram(h, UdpServer, <<h, asks'[h]>>))
    BY <1>14 DEF Ask
  <2>2. \A g \in Hosts : asks'[g] >= asks[g]  BY <1>1, <1>4, <2>1 DEF UdpTypes
  <2>3. asks'[h] = asks[h] + 1  BY <1>1, <2>1 DEF UdpTypes
  <2>4. \A d \in DOMAIN air : Known(d)'  BY <1>1, <1>3, <1>5, <2>1, <2>2, KnownStays
  <2>5. DOMAIN air' \subseteq DOMAIN air \cup {Quest(h, asks'[h])}
    BY <1>2, <2>1, SendsCount DEF Quest
  <2>6. \A d \in DOMAIN air' : Known(d)'
    <3>1. ASSUME NEW d, d = Quest(h, asks'[h])  PROVE Known(d)'
      BY <2>3, <1>4, <3>1 DEF Known, Quest, Dgram
    <3>. QED  BY <2>4, <2>5, <3>1
  <2>7. ASSUME NEW g \in Hosts, NEW k \in 1..asks[g]  PROVE k \in 1..asks'[g]
    BY <1>1, <1>4, <2>2, <2>7 DEF UdpTypes
  <2>8. (upc = "send" => \E g \in Hosts : \E k \in 1..asks[g] : request = Quest(g, k))'
    BY <2>1, <2>7 DEF UdpInv, OnTheWay, Quest, Dgram
  <2>9. (\A g \in Hosts : refused[g] => g \in Connected)'
    BY <1>1, <1>9, <2>1 DEF UdpTypes
  <2>. QED  BY <1>6, <2>6, <2>8, <2>9
<1>15. ASSUME NEW h \in Hosts, AnswerError(h)  PROVE OnTheWay'
  <2>1. /\ refused' = [refused EXCEPT ![h] = FALSE] /\ UNCHANGED <<air, upc, request, asks, strange>>
    BY <1>15 DEF AnswerError
  <2>2. (\A g \in Hosts : refused[g] => g \in Connected)'
    BY <1>1, <1>9, <2>1 DEF UdpTypes
  <2>. QED  BY <1>3, <1>6, <1>7, <1>8, <2>1, <2>2
<1>16. ASSUME NEW h \in Hosts, NEW d \in InAir, Answer(h, d)  PROVE OnTheWay'
  <2>1. DOMAIN air' \subseteq DOMAIN air /\ UNCHANGED <<upc, request, asks, strange, refused>>
    BY <1>2, <1>16, TakesCount DEF Answer
  <2>. QED  BY <1>3, <1>6, <1>7, <1>8, <1>9, <2>1
<1>17. ASSUME NEW h \in Hosts, QuitUdp(h)  PROVE OnTheWay'
  BY <1>17, <1>3, <1>6, <1>7, <1>8, <1>9 DEF QuitUdp
<1>18. ASSUME NEW h \in Hosts, StrangerSends(h)  PROVE OnTheWay'
  <2>1. /\ Sends(Alien(h, strange + 1)) /\ strange' = strange + 1
        /\ UNCHANGED <<upc, request, asks, refused>>
    BY <1>18 DEF StrangerSends, Alien
  <2>2. DOMAIN air' = DOMAIN air \cup {Alien(h, strange + 1)}  BY <1>2, <2>1, SendsCount
  <2>3. \A d \in DOMAIN air : Known(d)'  BY <1>1, <1>3, <1>4, <1>5, <2>1, KnownStays
  <2>4. ASSUME NEW d, d = Alien(h, strange + 1)  PROVE Known(d)'
    BY <1>5, <2>1, <2>4 DEF Known, Alien, Dgram
  <2>5. \A d \in DOMAIN air' : Known(d)'  BY <2>2, <2>3, <2>4
  <2>. QED  BY <1>6, <1>8, <1>9, <2>1, <2>5
<1>19. ASSUME NEW d \in InAir, Lose(d)  PROVE OnTheWay'
  <2>1. DOMAIN air' \subseteq DOMAIN air /\ UNCHANGED <<upc, request, asks, strange, refused>>
    BY <1>2, <1>19, TakesCount DEF Lose
  <2>. QED  BY <1>3, <1>6, <1>7, <1>8, <1>9, <2>1
<1>20. ASSUME NEW d \in InAir, Duplicate(d)  PROVE OnTheWay'
  <2>1. /\ DOMAIN air' = DOMAIN air \cup {d} /\ d \in DOMAIN air
        /\ UNCHANGED <<upc, request, asks, strange, refused>>
    BY <1>2, <1>20, SendsCount DEF Duplicate, BagIn, BagToSet
  <2>2. DOMAIN air' = DOMAIN air  BY <2>1
  <2>. QED  BY <1>3, <1>6, <1>7, <1>8, <1>9, <2>1, <2>2
<1>21. ASSUME NEW d \in InAir, Refuse(d)  PROVE OnTheWay'
  <2>1. DOMAIN air' \subseteq DOMAIN air /\ UNCHANGED <<upc, request, asks, strange>>
    BY <1>2, <1>21, TakesCount DEF Refuse
  <2>2. \/ refused' = [refused EXCEPT ![d.from] = TRUE] /\ d.from \in Connected
        \/ refused' = refused
    BY <1>21 DEF Refuse
  <2>3. (\A g \in Hosts : refused[g] => g \in Connected)'
    BY <1>1, <1>9, <2>2 DEF UdpTypes
  <2>. QED  BY <1>3, <1>6, <1>7, <1>8, <2>1, <2>3
<1>. QED
  BY <1>11, <1>12, <1>13, <1>14, <1>15, <1>16, <1>17, <1>18, <1>19, <1>20, <1>21, Zenon
  DEF UdpNext, UdpServes, Receives

LEMMA GivenOwnKept ==
  ASSUME UdpInv, UdpNext
  PROVE  GivenOwn'
<1>. USE DEF UdpInv
<1>1. ASSUME NEW h \in Hosts, NEW a, answers' = [answers EXCEPT ![h] = Append(@, a)],
             Given(h, a, Len(answers[h]) + 1),
             a \in Msgs \cup {NoAnswer}
      PROVE  GivenOwn'
  <2>. SUFFICES ASSUME NEW g \in Hosts, NEW i \in DOMAIN answers'[g]
       PROVE  Given(g, answers'[g][i], i)
    BY DEF GivenOwn, Given
  <2>1. CASE g = h
    <3>1. answers'[h] = Append(answers[h], a) /\ answers[h] \in Seq(Msgs \cup {NoAnswer})
      BY <1>1 DEF UdpTypes
    <3>2. \/ i \in DOMAIN answers[h] /\ answers'[h][i] = answers[h][i]
          \/ i = Len(answers[h]) + 1 /\ answers'[h][i] = a
      BY <1>1, <3>1, <2>1
    <3>. QED  BY <1>1, <2>1, <3>2 DEF GivenOwn
  <2>2. CASE g # h
    <3>1. answers'[g] = answers[g]  BY <1>1, <2>2 DEF UdpTypes
    <3>. QED  BY <3>1 DEF GivenOwn
  <2>. QED  BY <2>1, <2>2
<1>2. ASSUME NEW h \in Hosts, AnswerError(h)  PROVE GivenOwn'
  <2>1. h \in Connected  BY <1>2 DEF OnTheWay, AnswerError
  <2>. QED  BY <1>1, <1>2, <2>1 DEF AnswerError, Given
<1>3. ASSUME NEW h \in Hosts, NEW d \in InAir, Answer(h, d)  PROVE GivenOwn'
  <2>1. /\ hpc[h] = "wait" /\ answers' = [answers EXCEPT ![h] = Append(@, d.msg)]
        /\ d.to = h /\ Passes(h, d)
    BY <1>3 DEF Answer
  <2>2. Known(d)  BY DEF OnTheWay, Known, InAir, BagToSet
  <2>3. Len(answers[h]) + 1 = asks[h]  BY <2>1 DEF UdpTypes
  <2>4. (\E k \in 1..asks[h] : d = Reply(h, k)) \/ (\E n \in 1..strange : d = Alien(h, n))
    BY <2>1, <2>2, KnownBy
  <2>5. ASSUME NEW k \in 1..asks[h], d = Reply(h, k)
        PROVE  Given(h, d.msg, asks[h]) /\ d.msg \in Msgs
    <3>1. d.msg = <<h, k>>  BY <2>5 DEF Reply, Dgram
    <3>2. k \in Nat  BY UdpAssumption DEF UdpTypes
    <3>. QED  BY <3>1, <3>2 DEF Given, Msgs
  <2>6. ASSUME NEW n \in 1..strange, d = Alien(h, n)
        PROVE  Given(h, d.msg, asks[h]) /\ d.msg \in Msgs
    <3>1. d.msg = <<Stranger, n>> /\ d.from = Stranger  BY <2>6 DEF Alien, Dgram
    <3>2. n \in Nat  BY UdpAssumption DEF UdpTypes
    <3>3. h \notin Connected  BY <2>1, <3>1, UdpAssumption DEF Passes
    <3>. QED  BY <3>1, <3>2, <3>3 DEF Given, Msgs
  <2>. QED  BY <1>1, <2>1, <2>3, <2>4, <2>5, <2>6
<1>4. CASE UNCHANGED answers  BY <1>4, GivenStays
<1>. QED
  BY <1>2, <1>3, <1>4
  DEF UdpNext, UdpServes, Receives, Bind, ServerRecv, ServerSend, Ask, QuitUdp, StrangerSends,
      Lose, Duplicate, Refuse

LEMMA UdpInit1 == UdpFresh => UdpInv
<1>. SUFFICES ASSUME UdpFresh PROVE UdpInv  OBVIOUS
<1>1. IsABag(air) /\ DOMAIN air = {}
  BY DEF UdpFresh, EmptyBag, SetToBag, IsABag
<1>2. UdpTypes
  <2>1. \A h \in Hosts : Len(answers[h]) = 0 /\ hpc[h] = "type" /\ asks[h] = 0
    BY DEF UdpFresh
  <2>2. ASSUME NEW h \in Hosts
        PROVE  Len(answers[h]) + (IF hpc[h] = "wait" THEN 1 ELSE 0) = asks[h]
    <3>1. Len(answers[h]) = 0 /\ hpc[h] # "wait" /\ asks[h] = 0  BY <2>1
    <3>. QED  BY <2>1, <3>1
  <2>3. answers \in [Hosts -> Seq(Msgs \cup {NoAnswer})]
    BY DEF UdpFresh
  <2>4. asks \in [Hosts -> 0..MaxAsks] /\ dups \in Nat /\ strange \in 0..MaxFaults
    BY UdpAssumption DEF UdpFresh
  <2>5. /\ up \in BOOLEAN /\ upc \in {"recv", "send"} /\ refused \in [Hosts -> BOOLEAN]
        /\ hpc \in [Hosts -> {"type", "wait", "quit"}]
    BY DEF UdpFresh
  <2>. QED  BY <1>1, <2>2, <2>3, <2>4, <2>5 DEF UdpTypes
<1>. QED  BY <1>1, <1>2 DEF UdpFresh, UdpInv, OnTheWay, GivenOwn

LEMMA UdpFrame == UdpInv /\ UNCHANGED uvars => UdpInv'
BY DEF uvars, UdpInv, UdpTypes, OnTheWay, GivenOwn, Given, Quest, Reply, Alien, Dgram

LEMMA UdpSafe == IterativeSpec => []UdpInv
<1>1. IterativeInit => UdpInv  BY UdpInit1 DEF IterativeInit
<1>2. UdpInv /\ [IterativeNext]_<<net, iter, uvars, program>> => UdpInv'
  BY UdpTypesKept, OnTheWayKept, GivenOwnKept, UdpFrame DEF IterativeNext, UdpInv
<1>. QED  BY <1>1, <1>2, PTL DEF IterativeSpec

\* Whatever is lost, doubled or overtaken, a client is given the echo of a
\* question of its own, asked before, and a connected one never a stranger's
\* datagram, for any number of clients and faults (udp_echo_server.c:47-49,
\* udp_echo_conn_client.c:50).
THEOREM AnswersAreOwn == IterativeSpec => []OwnAnswers
<1>1. UdpInv => OwnAnswers
  BY DEF UdpInv, UdpTypes, UdpTypeOK, GivenOwn, Given, OwnAnswers
<1>. QED  BY <1>1, UdpSafe, PTL

\* How many times the k-th question of a client is under way, as itself, as
\* its echo, in the server's hands or as an error.
Load(h, k) ==
  Count(Quest(h, k)) + Count(Reply(h, k))
  + (IF upc = "send" /\ request = Quest(h, k) THEN 1 ELSE 0)
  + (IF refused[h] /\ k = asks[h] THEN 1 ELSE 0)

Undisturbed(h) == dups = 0 /\ (h \in Connected \/ strange = 0)

\* Undisturbed, it is under way once at most, and only the last question is,
\* while its client waits.
OneInFlight == \A h \in Hosts : Undisturbed(h) =>
  /\ \A k \in 0..MaxAsks : Load(h, k) <= IF hpc[h] = "wait" /\ k = asks[h] THEN 1 ELSE 0
  /\ \A j \in DOMAIN answers[h] : answers[h][j] \in {<<h, j>>, NoAnswer}

\* One question of one client, whatever step is taken.
LEMMA LoadStep ==
  ASSUME UdpInv, UdpInv', UdpNext, OneInFlight, NEW h \in Hosts, Undisturbed(h)',
         NEW k \in 0..MaxAsks
  PROVE  /\ Undisturbed(h)
         /\ Load(h, k)' <= IF hpc'[h] = "wait" /\ k = asks'[h] THEN 1 ELSE 0
<1>. DEFINE q == Quest(h, k)
            r == Reply(h, k)
            held == IF upc = "send" /\ request = q THEN 1 ELSE 0
            err == IF refused[h] /\ k = asks[h] THEN 1 ELSE 0
            max == IF hpc[h] = "wait" /\ k = asks[h] THEN 1 ELSE 0
<1>. USE DEF UdpInv
<1>1. IsABag(air) /\ Count(q) \in Nat /\ Count(r) \in Nat
  BY DEF UdpTypes, IsABag, Count
<1>2. Undisturbed(h)
  <2>1. dups \in Nat /\ strange \in Nat  BY UdpAssumption DEF UdpTypes
  <2>2. dups' = dups \/ dups' = dups + 1
    BY DEF UdpNext, UdpServes, Receives, Bind, ServerRecv, ServerSend, Ask, Answer, AnswerError,
           QuitUdp, StrangerSends, Lose, Duplicate, Refuse
  <2>3. strange' = strange \/ strange' = strange + 1
    BY DEF UdpNext, UdpServes, Receives, Bind, ServerRecv, ServerSend, Ask, Answer, AnswerError,
           QuitUdp, StrangerSends, Lose, Duplicate, Refuse
  <2>. QED  BY <2>1, <2>2, <2>3 DEF Undisturbed
<1>. SUFFICES Load(h, k)' <= max'  BY <1>2
<1>3. \A j \in 0..MaxAsks : Load(h, j) <= IF hpc[h] = "wait" /\ j = asks[h] THEN 1 ELSE 0
  BY <1>2 DEF OneInFlight
<1>4. Count(q) + Count(r) + held + err <= max  BY <1>3 DEF Load
<1>5. asks[h] \in 0..MaxAsks /\ hpc[h] \in {"type", "wait", "quit"}  BY DEF UdpTypes
<1>6. ASSUME Count(q)' = Count(q), Count(r)' = Count(r), UNCHANGED <<held, err, max>>
      PROVE  Load(h, k)' <= max'
  BY <1>4, <1>6 DEF Load
<1>7. \A d : d \in DOMAIN air => Known(d)  BY DEF OnTheWay, Known
<1>8. CASE Bind
  BY <1>6, <1>8 DEF Bind, Count, Quest, Reply, Dgram
<1>9. CASE ServerSend
  <2>1. /\ Sends(Dgram(UdpServer, request.from, request.msg)) /\ upc = "send" /\ upc' = "recv"
        /\ UNCHANGED <<asks, hpc, refused>>
    BY <1>9 DEF ServerSend
  <2>2. PICK g \in Hosts : \E j \in 1..asks[g] : request = Quest(g, j)
    BY <2>1 DEF OnTheWay
  <2>3. PICK j \in 1..asks[g] : request = Quest(g, j)  BY <2>2
  <2>4. Dgram(UdpServer, request.from, request.msg) = Reply(g, j)
    BY <2>3 DEF Quest, Reply, Dgram
  <2>5. /\ Count(q)' = IF q = Reply(g, j) THEN Count(q) + 1 ELSE Count(q)
        /\ Count(r)' = IF r = Reply(g, j) THEN Count(r) + 1 ELSE Count(r)
    BY <1>1, <2>1, <2>4, SendsCount
  <2>6. q # Reply(g, j) /\ (r = Reply(g, j) <=> q = request)
    BY <2>3, Addressed
  <2>7. held' = 0 /\ err' = err /\ max' = max  BY <2>1
  <2>8. Count(q)' + Count(r)' + held' + err' <= max'
    BY <1>1, <1>4, <2>1, <2>5, <2>6, <2>7
  <2>. QED  BY <2>8 DEF Load
<1>10. ASSUME NEW d \in InAir, ServerRecv(d)  PROVE Load(h, k)' <= max'
  <2>1. /\ Takes(d) /\ d.to = UdpServer /\ request' = d /\ upc = "recv" /\ upc' = "send"
        /\ UNCHANGED <<asks, hpc, refused>>
    BY <1>10 DEF ServerRecv
  <2>2. /\ Count(q)' = IF q = d THEN Count(q) - 1 ELSE Count(q)
        /\ Count(r)' = IF r = d THEN Count(r) - 1 ELSE Count(r)
    BY <1>1, <2>1, TakesCount
  <2>3. r # d  BY <2>1, Addressed
  <2>4. held = 0 /\ held' = (IF q = d THEN 1 ELSE 0) /\ err' = err /\ max' = max  BY <2>1
  <2>5. Count(q)' + Count(r)' + held' + err' <= max'
    BY <1>1, <1>4, <2>2, <2>3, <2>4
  <2>. QED  BY <2>5 DEF Load
<1>11. ASSUME NEW g \in Hosts, Ask(g)  PROVE Load(h, k)' <= max'
  <2>1. /\ hpc[g] = "type" /\ asks' = [asks EXCEPT ![g] = @ + 1]
        /\ hpc' = [hpc EXCEPT ![g] = "wait"] /\ refused' = [refused EXCEPT ![g] = FALSE]
        /\ UNCHANGED <<upc, request>>
        /\ refused[g] \/ Sends(Quest(g, asks'[g]))
        /\ refused[g] => air' = air
    BY <1>11 DEF Ask, Quest
  <2>2. CASE g = h
    <3>1. /\ asks'[h] = asks[h] + 1 /\ hpc'[h] = "wait" /\ ~refused'[h]
      BY <2>1, <2>2 DEF UdpTypes
    <3>2. max = 0 /\ Count(q) = 0 /\ Count(r) = 0 /\ held = 0  BY <1>1, <1>4, <2>1, <2>2
    <3>3. ~refused[h]
      <4>1. Load(h, asks[h]) <= 0  BY <1>3, <1>5, <2>1, <2>2
      <4>2. /\ Count(Quest(h, asks[h])) \in Nat /\ Count(Reply(h, asks[h])) \in Nat
        BY DEF UdpTypes, IsABag, Count
      <4>. QED  BY <4>1, <4>2 DEF Load
    <3>4. Sends(Quest(h, asks'[h]))  BY <2>1, <2>2, <3>3
    <3>5. /\ Count(q)' = IF q = Quest(h, asks'[h]) THEN Count(q) + 1 ELSE Count(q)
          /\ Count(r)' = IF r = Quest(h, asks'[h]) THEN Count(r) + 1 ELSE Count(r)
      BY <1>1, <3>4, SendsCount
    <3>6. r # Quest(h, asks'[h]) /\ (q = Quest(h, asks'[h]) <=> k = asks'[h])  BY Addressed
    <3>7. held' = 0 /\ err' = 0 /\ max' = IF k = asks'[h] THEN 1 ELSE 0
      BY <2>1, <3>1, <3>2
    <3>8. Count(q)' + Count(r)' + held' + err' <= max'
      BY <3>2, <3>5, <3>6, <3>7
    <3>. QED  BY <3>8 DEF Load
  <2>3. CASE g # h
    <3>1. asks'[h] = asks[h] /\ hpc'[h] = hpc[h] /\ refused'[h] = refused[h]
      BY <2>1, <2>3 DEF UdpTypes
    <3>2. UNCHANGED <<held, err, max>>  BY <2>1, <3>1
    <3>3. Count(q)' = Count(q) /\ Count(r)' = Count(r)
      <4>1. CASE refused[g]  BY <2>1, <4>1 DEF Count
      <4>2. CASE ~refused[g]
        <5>1. q # Quest(g, asks'[g]) /\ r # Quest(g, asks'[g])  BY <2>3, Addressed
        <5>. QED  BY <1>1, <2>1, <4>2, <5>1, SendsCount
      <4>. QED  BY <4>1, <4>2
    <3>. QED  BY <1>6, <3>2, <3>3
  <2>. QED  BY <2>2, <2>3
<1>12. ASSUME NEW g \in Hosts, AnswerError(g)  PROVE Load(h, k)' <= max'
  <2>1. /\ refused[g] /\ hpc' = [hpc EXCEPT ![g] = "type"]
        /\ refused' = [refused EXCEPT ![g] = FALSE] /\ UNCHANGED <<air, upc, request, asks>>
    BY <1>12 DEF AnswerError
  <2>2. Count(q)' = Count(q) /\ Count(r)' = Count(r) /\ held' = held  BY <2>1 DEF Count
  <2>3. CASE g = h
    <3>1. hpc'[h] = "type" /\ ~refused'[h] /\ asks'[h] = asks[h]
      BY <2>1, <2>3 DEF UdpTypes
    <3>2. err' = 0 /\ max' = 0  BY <3>1
    <3>3. err = IF k = asks[h] THEN 1 ELSE 0  BY <2>1, <2>3
    <3>4. Count(q)' + Count(r)' + held' + err' <= max'
      BY <1>1, <1>4, <2>2, <3>2, <3>3
    <3>. QED  BY <3>4 DEF Load
  <2>4. CASE g # h
    <3>1. asks'[h] = asks[h] /\ hpc'[h] = hpc[h] /\ refused'[h] = refused[h]
      BY <2>1, <2>4 DEF UdpTypes
    <3>. QED  BY <1>6, <2>2, <3>1
  <2>. QED  BY <2>3, <2>4
<1>13. ASSUME NEW g \in Hosts, NEW d \in InAir, Answer(g, d)  PROVE Load(h, k)' <= max'
  <2>1. /\ hpc[g] = "wait" /\ hpc' = [hpc EXCEPT ![g] = "type"] /\ d.to = g
        /\ Takes(d) /\ Passes(g, d) /\ UNCHANGED <<upc, request, asks, refused>>
    BY <1>13 DEF Answer
  <2>2. /\ Count(d) \in Nat \ {0} /\ d \in DOMAIN air
        /\ Count(q)' = IF q = d THEN Count(q) - 1 ELSE Count(q)
        /\ Count(r)' = IF r = d THEN Count(r) - 1 ELSE Count(r)
    BY <1>1, <2>1, TakesCount
  <2>3. q # d  BY <2>1, Addressed
  <2>4. held' = held /\ err' = err  BY <2>1
  <2>5. CASE g = h
    <3>1. (\E j \in 1..asks[h] : d = Reply(h, j)) \/ (\E n \in 1..strange : d = Alien(h, n))
      BY <1>7, <2>1, <2>2, <2>5, KnownBy
    <3>2. \A n \in 1..strange : d # Alien(h, n)
      <4>1. CASE h \in Connected
        <5>1. d.from = UdpServer  BY <2>1, <2>5, <4>1 DEF Passes
        <5>2. \A n : Alien(h, n).from = Stranger  BY DEF Alien, Dgram
        <5>. QED  BY <5>1, <5>2, UdpAssumption
      <4>2. CASE h \notin Connected
        <5>1. strange = 0  BY <1>2, <4>2 DEF Undisturbed
        <5>. QED  BY <5>1
      <4>. QED  BY <4>1, <4>2
    <3>3. PICK j \in 1..asks[h] : d = Reply(h, j)  BY <3>1, <3>2
    <3>4. j \in 0..MaxAsks  BY <1>5, UdpAssumption
    <3>5. j = asks[h]
      <4>1. Load(h, j) <= IF hpc[h] = "wait" /\ j = asks[h] THEN 1 ELSE 0  BY <1>3, <3>4
      <4>2. Count(Quest(h, j)) \in Nat /\ Count(Reply(h, j)) \in Nat \ {0}
        BY <2>2, <3>3 DEF UdpTypes, IsABag, Count
      <4>. QED  BY <4>1, <4>2 DEF Load
    <3>6. r = d <=> k = asks[h]  BY <3>3, <3>5, Addressed
    <3>7. max = (IF k = asks[h] THEN 1 ELSE 0) /\ max' = 0
      BY <2>1, <2>5 DEF UdpTypes
    <3>8. Count(r) = 0 \/ r # d \/ Count(r) = 1
      BY <1>1, <1>4, <3>7
    <3>9. Count(q)' + Count(r)' + held' + err' <= max'
      BY <1>1, <1>4, <2>2, <2>3, <2>4, <3>6, <3>7
    <3>. QED  BY <3>9 DEF Load
  <2>6. CASE g # h
    <3>1. r # d  BY <2>1, <2>6, Addressed
    <3>2. max' = max  BY <2>1, <2>6 DEF UdpTypes
    <3>. QED  BY <1>6, <2>2, <2>3, <2>4, <3>1, <3>2
  <2>. QED  BY <2>5, <2>6
<1>14. ASSUME NEW g \in Hosts, QuitUdp(g)  PROVE Load(h, k)' <= max'
  <2>1. /\ hpc[g] = "type" /\ hpc' = [hpc EXCEPT ![g] = "quit"]
        /\ UNCHANGED <<air, upc, request, asks, refused>>
    BY <1>14 DEF QuitUdp
  <2>2. hpc'[h] = "wait" <=> hpc[h] = "wait"  BY <2>1 DEF UdpTypes
  <2>3. UNCHANGED <<held, err, max>>  BY <2>1, <2>2
  <2>. QED  BY <1>6, <2>1, <2>3 DEF Count
<1>15. ASSUME NEW g \in Hosts, StrangerSends(g)  PROVE Load(h, k)' <= max'
  <2>1. /\ Sends(Alien(g, strange + 1)) /\ UNCHANGED <<upc, request, hpc, asks, refused>>
    BY <1>15 DEF StrangerSends, Alien
  <2>2. q # Alien(g, strange + 1) /\ r # Alien(g, strange + 1)  BY Addressed
  <2>3. Count(q)' = Count(q) /\ Count(r)' = Count(r)  BY <1>1, <2>1, <2>2, SendsCount
  <2>. QED  BY <1>6, <2>1, <2>3
<1>16. ASSUME NEW d \in InAir, Lose(d)  PROVE Load(h, k)' <= max'
  <2>1. /\ Takes(d) /\ UNCHANGED <<upc, request, hpc, asks, refused>>
    BY <1>16 DEF Lose
  <2>2. /\ Count(q)' = IF q = d THEN Count(q) - 1 ELSE Count(q)
        /\ Count(r)' = IF r = d THEN Count(r) - 1 ELSE Count(r)
    BY <1>1, <2>1, TakesCount
  <2>3. held' = held /\ err' = err /\ max' = max  BY <2>1
  <2>4. Count(q)' + Count(r)' + held' + err' <= max'
    BY <1>1, <1>4, <2>2, <2>3
  <2>. QED  BY <2>4 DEF Load
<1>17. ASSUME NEW d \in InAir, Duplicate(d)  PROVE FALSE
  BY <1>17 DEF Duplicate, Undisturbed, UdpTypes
<1>18. ASSUME NEW d \in InAir, Refuse(d)  PROVE Load(h, k)' <= max'
  <2>1. /\ Takes(d) /\ d.to = UdpServer /\ UNCHANGED <<upc, request, hpc, asks>>
        /\ IF d.from \in Connected THEN refused' = [refused EXCEPT ![d.from] = TRUE]
                                   ELSE refused' = refused
    BY <1>18 DEF Refuse
  <2>2. /\ Count(d) \in Nat \ {0} /\ d \in DOMAIN air
        /\ Count(q)' = IF q = d THEN Count(q) - 1 ELSE Count(q)
        /\ Count(r)' = IF r = d THEN Count(r) - 1 ELSE Count(r)
    BY <1>1, <2>1, TakesCount
  <2>3. PICK g \in Hosts : \E j \in 1..asks[g] : d = Quest(g, j)
    BY <1>7, <2>1, <2>2, KnownBy
  <2>4. PICK j \in 1..asks[g] : d = Quest(g, j)  BY <2>3
  <2>5. r # d /\ d.from = g  BY <2>4, Addressed
  <2>6. held' = held /\ max' = max  BY <2>1
  <2>7. CASE g # h
    <3>1. q # d /\ refused'[h] = refused[h]  BY <2>1, <2>4, <2>5, <2>7, Addressed DEF UdpTypes
    <3>. QED  BY <1>6, <2>1, <2>2, <2>5, <2>6, <3>1
  <2>8. CASE g = h
    <3>1. j \in 0..MaxAsks  BY <1>5, <2>8, UdpAssumption
    <3>2. j = asks[h] /\ ~refused[h]
      <4>1. Load(h, j) <= IF hpc[h] = "wait" /\ j = asks[h] THEN 1 ELSE 0  BY <1>3, <3>1
      <4>2. Count(Quest(h, j)) \in Nat \ {0} /\ Count(Reply(h, j)) \in Nat
        BY <2>2, <2>4, <2>8 DEF UdpTypes, IsABag, Count
      <4>. QED  BY <4>1, <4>2 DEF Load
    <3>3. q = d <=> k = asks[h]  BY <2>4, <2>8, <3>2, Addressed
    <3>4. err = 0 /\ err' \in {0, IF k = asks[h] THEN 1 ELSE 0}  BY <2>1, <3>2
    <3>5. Count(q)' + Count(r)' + held' + err' <= max'
      BY <1>1, <1>4, <2>2, <2>5, <2>6, <3>3, <3>4
    <3>. QED  BY <3>5 DEF Load
  <2>. QED  BY <2>7, <2>8
<1>. QED
  BY <1>8, <1>9, <1>10, <1>11, <1>12, <1>13, <1>14, <1>15, <1>16, <1>17, <1>18, Zenon
  DEF UdpNext, UdpServes, Receives

LEMMA OneInFlightKept ==
  ASSUME UdpInv, UdpInv', UdpNext, OneInFlight
  PROVE  OneInFlight'
<1>. SUFFICES ASSUME NEW h \in Hosts, Undisturbed(h)'
     PROVE  /\ \A k \in 0..MaxAsks :
                 Load(h, k)' <= IF hpc'[h] = "wait" /\ k = asks'[h] THEN 1 ELSE 0
            /\ \A j \in DOMAIN answers'[h] : answers'[h][j] \in {<<h, j>>, NoAnswer}
  BY DEF OneInFlight
<1>1. \A k \in 0..MaxAsks : Load(h, k)' <= IF hpc'[h] = "wait" /\ k = asks'[h] THEN 1 ELSE 0
  BY LoadStep
<1>2. Undisturbed(h)
  <2>1. 0 \in 0..MaxAsks  BY UdpAssumption
  <2>. QED  BY <2>1, LoadStep
<1>. USE DEF UdpInv
<1>3. ASSUME NEW g \in Hosts, NEW a, answers' = [answers EXCEPT ![g] = Append(@, a)],
             a \in Msgs \cup {NoAnswer},
             g = h => a \in {<<h, Len(answers[h]) + 1>>, NoAnswer}
      PROVE  \A j \in DOMAIN answers'[h] : answers'[h][j] \in {<<h, j>>, NoAnswer}
  <2>1. CASE g = h
    <3>1. /\ answers'[h] = Append(answers[h], a)
          /\ answers[h] \in Seq(Msgs \cup {NoAnswer})
      BY <1>3, <2>1 DEF UdpTypes
    <3>2. ASSUME NEW j \in DOMAIN answers'[h]
          PROVE  \/ j \in DOMAIN answers[h] /\ answers'[h][j] = answers[h][j]
                 \/ j = Len(answers[h]) + 1 /\ answers'[h][j] = a
      BY <1>3, <3>1
    <3>. QED  BY <1>2, <1>3, <2>1, <3>2 DEF OneInFlight
  <2>2. CASE g # h
    <3>1. answers'[h] = answers[h]  BY <1>3, <2>2 DEF UdpTypes
    <3>. QED  BY <1>2, <3>1 DEF OneInFlight
  <2>. QED  BY <2>1, <2>2
<1>4. ASSUME NEW g \in Hosts, AnswerError(g)
      PROVE  \A j \in DOMAIN answers'[h] : answers'[h][j] \in {<<h, j>>, NoAnswer}
  BY <1>3, <1>4 DEF AnswerError
<1>5. ASSUME NEW g \in Hosts, NEW d \in InAir, Answer(g, d)
      PROVE  \A j \in DOMAIN answers'[h] : answers'[h][j] \in {<<h, j>>, NoAnswer}
  <2>1. /\ hpc[g] = "wait" /\ answers' = [answers EXCEPT ![g] = Append(@, d.msg)] /\ d.to = g
        /\ Passes(g, d) /\ Takes(d)
    BY <1>5 DEF Answer
  <2>2. Known(d) /\ Count(d) \in Nat \ {0}
    BY <2>1, TakesCount DEF OnTheWay, Known, InAir, BagToSet, UdpTypes
  <2>3. asks[g] \in 0..MaxAsks /\ Len(answers[g]) + 1 = asks[g]  BY <2>1 DEF UdpTypes
  <2>4. CASE \E j \in 1..asks[g] : d = Reply(g, j)
    <3>1. PICK j \in 1..asks[g] : d = Reply(g, j)  BY <2>4
    <3>2. d.msg = <<g, j>> /\ j \in Nat /\ j \in 0..MaxAsks
      BY <2>3, <3>1, UdpAssumption DEF Reply, Dgram
    <3>3. ASSUME g = h  PROVE j = asks[h]
      <4>1. Load(h, j) <= IF hpc[h] = "wait" /\ j = asks[h] THEN 1 ELSE 0
        BY <1>2, <3>2 DEF OneInFlight
      <4>2. Count(Quest(h, j)) \in Nat /\ Count(Reply(h, j)) \in Nat \ {0}
        BY <2>2, <3>1, <3>3 DEF UdpTypes, IsABag, Count
      <4>. QED  BY <4>1, <4>2 DEF Load
    <3>. QED  BY <1>3, <2>1, <2>3, <3>2, <3>3 DEF Msgs
  <2>5. CASE \E n \in 1..strange : d = Alien(g, n)
    <3>1. PICK n \in 1..strange : d = Alien(g, n)  BY <2>5
    <3>2. d.msg = <<Stranger, n>> /\ d.from = Stranger /\ n \in Nat
      BY <3>1, UdpAssumption DEF Alien, Dgram, UdpTypes
    <3>3. g # h
      <4>1. g \notin Connected  BY <2>1, <3>2, UdpAssumption DEF Passes
      <4>2. strange # 0  BY <3>1
      <4>. QED  BY <1>2, <4>1, <4>2 DEF Undisturbed
    <3>. QED  BY <1>3, <2>1, <3>2, <3>3 DEF Msgs
  <2>. QED  BY <2>1, <2>2, <2>4, <2>5, KnownBy
<1>6. ASSUME UNCHANGED answers
      PROVE  \A j \in DOMAIN answers'[h] : answers'[h][j] \in {<<h, j>>, NoAnswer}
  <2>1. \A j \in DOMAIN answers[h] : answers[h][j] \in {<<h, j>>, NoAnswer}
    BY <1>2 DEF OneInFlight
  <2>. QED  BY <1>6, <2>1
<1>7. \A j \in DOMAIN answers'[h] : answers'[h][j] \in {<<h, j>>, NoAnswer}
  BY <1>4, <1>5, <1>6
  DEF UdpNext, UdpServes, Receives, Bind, ServerRecv, ServerSend, Ask, QuitUdp, StrangerSends,
      Lose, Duplicate, Refuse
<1>. QED  BY <1>1, <1>7

LEMMA InFlightSafe == IterativeSpec => []OneInFlight
<1>1. IterativeInit => OneInFlight
  <2>. SUFFICES ASSUME UdpFresh PROVE OneInFlight  BY DEF IterativeInit
  <2>1. DOMAIN air = {}  BY DEF UdpFresh, EmptyBag, SetToBag
  <2>2. \A h \in Hosts : answers[h] = <<>> /\ ~refused[h] /\ upc = "recv" /\ hpc[h] = "type"
    BY DEF UdpFresh
  <2>. QED  BY <2>1, <2>2 DEF OneInFlight, Load, Count
<1>2. OneInFlight /\ UNCHANGED uvars => OneInFlight'
  BY DEF uvars, OneInFlight, Load, Count, Undisturbed, Quest, Reply, Dgram
<1>3. UdpInv /\ UdpInv' /\ OneInFlight /\ [IterativeNext]_<<net, iter, uvars, program>> => OneInFlight'
  BY OneInFlightKept, <1>2 DEF IterativeNext
<1>. QED  BY <1>1, <1>3, UdpSafe, PTL DEF IterativeSpec

\* As long as nothing was duplicated and no stranger spoke to an unconnected
\* client, the j-th answer is the echo of the j-th question or an error,
\* however many datagrams were lost or refused, for any number of clients
\* (udp_echo_client.c:49-51, udp_echo_conn_client.c:46-50).
THEOREM AnswersInStep == IterativeSpec => []InStep
<1>1. OneInFlight => InStep
  BY DEF OneInFlight, Undisturbed, InStep
<1>. QED  BY <1>1, InFlightSafe, PTL

\* Both: whatever is lost, doubled, overtaken or refused, a client is given
\* echoes of its own questions, and in step with them as long as nothing was
\* doubled and no stranger spoke to it (udp_echo_server.c:47-49,
\* udp_echo_client.c:49-51).
THEOREM AnswersAreSound == IterativeSpec => []AnswersSound
BY AnswersAreOwn, AnswersInStep, PTL DEF AnswersSound
=============================================================================

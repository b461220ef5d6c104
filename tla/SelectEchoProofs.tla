-------------------------- MODULE SelectEchoProofs --------------------------
(***************************************************************************)
(* What select() reported stays true during the scan, the watched set is   *)
(* the open connections, and the server is an echo service, for every      *)
(* number of clients, chunks and descriptors.                              *)
(***************************************************************************)
EXTENDS SelectEcho, EchoNetProofs

\* The table has every open connection once; it is what is watched.
Table ==
  /\ \A f \in OpenFds : server[fdtab[f]] = "open"
  /\ \A f, g \in OpenFds : fdtab[f] = fdtab[g] => f = g
  /\ reads = {Serv} \cup OpenFds /\ \A f \in reads : f <= fd_max

\* The descriptors of the set the scan has still to come to are open and ready.
Ahead  == {f \in cpy : IF wpc = "write" THEN i < f ELSE i <= f}
Fresh  == wpc # "select" => \A f \in Ahead : f \in {Serv} \cup OpenFds /\ Ready(f)

\* All that was read from a client that reads was written back, but for the
\* chunk about to be.
Owes(c) == wpc = "write" /\ fdtab[i] = c
Progress ==
  \A c \in Clients : Reads(peer[c]) =>
    nread[c] = Len(echoed[c]) + (IF Owes(c) THEN 1 ELSE 0)

LoopType ==
  /\ fdtab \in [Fds -> Clients \cup {NoConn}]
  /\ reads \subseteq {Serv} \cup Fds /\ cpy \subseteq {Serv} \cup Fds
  /\ i \in Nat /\ fd_max \in {Serv} \cup Fds
  /\ wpc \in {"select", "scan", "write"} /\ alive \in BOOLEAN
  /\ wpc = "write" => i \in Fds /\ fdtab[i] # NoConn

Inv == NetInv /\ LoopType /\ Table /\ Fresh /\ Progress

-----------------------------------------------------------------------------
\* What the scan acts on is an open connection with something to read (:73).
LEMMA AtOpen ==
  ASSUME Inv, NEW f \in Fds, At(f)
  PROVE  /\ f \in OpenFds /\ Readable(fdtab[f]) /\ wpc = "scan" /\ i <= f
         /\ fdtab[f] \in Clients /\ server[fdtab[f]] = "open"
<1>1. wpc = "scan" /\ f \in Ahead /\ i <= f
  BY DEF At, Left, Ahead
<1>2. f # Serv
  BY DEF Fds, Serv
<1>3. f \in OpenFds /\ Readable(fdtab[f])
  BY <1>1, <1>2 DEF Inv, Fresh, Ready
<1> QED BY <1>1, <1>3 DEF Inv, Table, OpenFds, LoopType

\* What the server has read and not yet written back.
LEMMA Owed ==
  ASSUME Inv, NEW c \in Clients, Reads(peer[c])
  PROVE  /\ Owes(c) => nread[c] = Len(echoed[c]) + 1
         /\ ~Owes(c) => nread[c] = Len(echoed[c])
<1>1. Len(echoed[c]) \in Nat
  BY DEF Inv, NetInv, NetTypeOK
<1>2. nread[c] = Len(echoed[c]) + (IF Owes(c) THEN 1 ELSE 0)
  BY DEF Inv, Progress
<1>3. CASE Owes(c)
  BY <1>2, <1>3
<1>4. CASE ~Owes(c)
  <2>1. nread[c] = Len(echoed[c]) + 0
    BY <1>2, <1>4
  <2> QED BY <1>1, <1>4, <2>1
<1> QED BY <1>3, <1>4

\* A client of a connection cannot take back what makes it readable.
LEMMA ClientKeepsReadable ==
  ASSUME NetInv, NEW c \in Clients, NEW d \in Clients, Client(d), Readable(c)
  PROVE  Readable(c)'
<1> USE DEF NetInv, NetTypeOK, Readable, DataReady, EofReady, ErrReady, AtEof
<1>1. CASE Connect(d)
  BY <1>1 DEF Connect, ConnInv
<1>2. CASE ClientWrite(d)
  BY <1>2 DEF ClientWrite
<1>3. CASE Shutdown(d)
  BY <1>3 DEF Shutdown
<1>4. CASE Kill(d)
  <2>1. /\ peer' = [peer EXCEPT ![d] = CloseBy(peer[d], got[d] < Len(echoed[d]))]
        /\ peer[d] \in {"up", "fin"} /\ UNCHANGED <<nsent, nread>>
    BY <1>4 DEF Kill, Reads
  <2> QED BY <2>1 DEF CloseBy
<1>5. CASE ClientRead(d)
  BY <1>5 DEF ClientRead
<1> QED BY <1>1, <1>2, <1>3, <1>4, <1>5 DEF Client

\* Nor does a client make the server owe more or less than it read.
LEMMA ClientKeepsProgress ==
  ASSUME Inv, NEW d \in Clients, Client(d), UNCHANGED loop
  PROVE  Progress'
<1> USE DEF Inv, NetInv, NetTypeOK
<1>1. ASSUME NEW c \in Clients, Reads(peer[c])'
      PROVE  /\ UNCHANGED <<nread, echoed>>
             /\ Reads(peer[c]) \/ (nread[c] = 0 /\ echoed[c] = <<>> /\ ~Owes(c))
  <2>1. CASE Connect(d)
    BY <1>1, <2>1 DEF Connect, ConnInv, Reads, Owes, Table, OpenFds, LoopType
  <2>2. CASE Kill(d)
    BY <1>1, <2>2, KillFacts DEF Kill, Reads
  <2>3. CASE ClientWrite(d) \/ Shutdown(d) \/ ClientRead(d)
    BY <1>1, <2>3 DEF ClientWrite, Shutdown, ClientRead, Reads
  <2> QED BY <2>1, <2>2, <2>3 DEF Client
<1>2. \A c \in Clients : Owes(c)' <=> Owes(c)
  BY DEF Owes, loop
<1> SUFFICES ASSUME NEW c \in Clients, Reads(peer[c])'
             PROVE  nread'[c] = Len(echoed'[c]) + (IF Owes(c)' THEN 1 ELSE 0)
  BY DEF Progress
<1>3. UNCHANGED <<nread, echoed>> /\ (Owes(c)' <=> Owes(c))
  BY <1>1, <1>2
<1>4. CASE Reads(peer[c])
  BY <1>3, <1>4 DEF Progress
<1>5. CASE nread[c] = 0 /\ echoed[c] = <<>> /\ ~Owes(c)
  BY <1>3, <1>5
<1> QED BY <1>1, <1>4, <1>5

\* A client's step keeps the invariant and is one of the echo service.
LEMMA ClientStepInv ==
  ASSUME Inv, NEW d \in Clients, ClientStep(d)
  PROVE  Inv' /\ Refines
<1>1. Client(d) /\ UNCHANGED loop
  BY DEF ClientStep
<1>2. NetInv' /\ Refines
  BY <1>1, ClientKeeps, ClientRefines DEF Inv
<1>3. server' = server /\ (backlog # <<>> => backlog' # <<>>)
  BY <1>1 DEF Client, Connect, ClientWrite, Shutdown, Kill, ClientRead, Inv, NetInv, NetTypeOK
<1>4. LoopType'
  BY <1>1 DEF Inv, LoopType, loop
<1>5. Table'
  BY <1>1, <1>3 DEF Inv, Table, OpenFds, loop
<1>6. Fresh'
  <2> SUFFICES ASSUME wpc # "select", NEW f \in Ahead
               PROVE  f \in {Serv} \cup OpenFds /\ Ready(f)'
    BY <1>1 DEF Fresh, Ahead, OpenFds, loop
  <2>1. f \in {Serv} \cup OpenFds /\ Ready(f)
    BY DEF Inv, Fresh
  <2>2. f # Serv => fdtab[f] \in Clients /\ fdtab' = fdtab
    BY <1>1, <2>1 DEF Inv, LoopType, OpenFds, loop
  <2>3. CASE f = Serv
    BY <1>3, <2>1, <2>3 DEF Ready
  <2>4. CASE f # Serv
    <3>1. Readable(fdtab[f])
      BY <2>1, <2>4 DEF Ready
    <3>2. \A c \in Clients : Readable(c) => Readable(c)'
      BY <1>1, ClientKeepsReadable DEF Inv
    <3> QED BY <2>1, <2>2, <2>4, <3>1, <3>2 DEF Ready, Readable, DataReady, EofReady, ErrReady
  <2> QED BY <2>3, <2>4
<1>7. Progress'
  BY <1>1, ClientKeepsProgress
<1> QED BY <1>2, <1>4, <1>5, <1>6, <1>7 DEF Inv
-----------------------------------------------------------------------------
\* The steps that leave the connections alone (:54-73, :79-85, :106).
LEMMA QuietInv ==
  ASSUME Inv, Select \/ ScanEnd \/ AcceptFail \/ WriteSigpipe
  PROVE  Inv' /\ Refines
<1>1. UNCHANGED <<net, fdtab, reads, fd_max>>
  BY DEF Select, ScanEnd, AcceptFail, WriteSigpipe, net
<1>2. NetInv' /\ Refines
  BY <1>1, NetFrame, FrameRefines DEF Inv
<1>3. LoopType'
  <2>1. cpy' \subseteq {Serv} \cup Fds /\ i' \in Nat /\ alive' \in BOOLEAN
    <3>1. CASE Select
      BY <3>1 DEF Inv, LoopType, Table, Select
    <3>2. CASE ScanEnd \/ WriteSigpipe
      BY <3>2 DEF Inv, LoopType, ScanEnd, WriteSigpipe
    <3>3. CASE AcceptFail
      BY <3>3 DEF Inv, LoopType, AcceptFail, Past, Serv
    <3> QED BY <3>1, <3>2, <3>3
  <2>2. /\ wpc' \in {"select", "scan", "write"}
        /\ wpc' = "write" => wpc = "write" /\ i' = i
    BY DEF Inv, LoopType, Select, ScanEnd, AcceptFail, WriteSigpipe, At
  <2> QED BY <1>1, <2>1, <2>2 DEF Inv, LoopType
<1>4. Table'
  BY <1>1 DEF Inv, Table, OpenFds, net
<1>5. Fresh'
  <2>1. CASE Select
    BY <1>1, <2>1 DEF Select, Fresh, Ahead, Ready, Readable, DataReady, EofReady, ErrReady,
       OpenFds, net, Inv, Table
  <2>2. CASE ScanEnd
    BY <2>2 DEF ScanEnd, Fresh
  <2>3. CASE AcceptFail \/ WriteSigpipe
    <3>1. Ahead' \subseteq Ahead /\ wpc' = wpc /\ wpc # "select"
      <4>1. CASE AcceptFail
        <5>1. /\ wpc = "scan" /\ i <= Serv /\ i' = Serv + 1
              /\ UNCHANGED <<cpy, wpc>>
          BY <4>1 DEF AcceptFail, At, Left, Past
        <5>2. cpy \subseteq Nat /\ i \in Nat
          BY SelectAssumption DEF Inv, LoopType, Fds, Serv
        <5>3. \A g \in cpy : i' <= g => i <= g
          BY <5>1, <5>2 DEF Serv
        <5> QED BY <5>1, <5>3 DEF Ahead
      <4>2. CASE WriteSigpipe
        BY <4>2 DEF WriteSigpipe, Ahead
      <4> QED BY <2>3, <4>1, <4>2
    <3> QED BY <1>1, <3>1 DEF Fresh, Ready, Readable, DataReady, EofReady, ErrReady, OpenFds, net, Inv
  <2> QED BY <2>1, <2>2, <2>3
<1>6. Progress'
  <2>1. (wpc = "write" <=> wpc' = "write") /\ (wpc = "write" => i' = i)
    BY DEF Select, ScanEnd, AcceptFail, WriteSigpipe, At
  <2> QED BY <1>1, <2>1 DEF Progress, Owes, net, Inv
<1> QED BY <1>2, <1>3, <1>4, <1>5, <1>6 DEF Inv

\* accept() puts the connection into a descriptor nobody has (:75-92).
LEMMA AcceptInv ==
  ASSUME Inv, Accept
  PROVE  Inv' /\ Refines
<1>1. PICK f \in Fds, c \in Clients :
        /\ fdtab[f] = NoConn /\ Accepted(c)
        /\ fdtab' = [fdtab EXCEPT ![f] = c]
        /\ fd_max' = (IF f > fd_max THEN f ELSE fd_max)
        /\ reads' = reads \cup {f}
  BY DEF Accept, LowestFree
<1>2. wpc = "scan" /\ i <= Serv /\ i' = Serv + 1 /\ UNCHANGED <<cpy, wpc, alive>>
  BY DEF Accept, At, Left, Past
<1>3. /\ NetInv' /\ server[c] = "new" /\ server' = [server EXCEPT ![c] = "open"]
      /\ UNCHANGED <<peer, nsent, nread, echoed>>
  BY <1>1, AcceptKeeps DEF Inv, Accepted
<1>4. Refines
  BY <1>1, AcceptRefines DEF Inv
<1>5. OpenFds' = OpenFds \cup {f} /\ f \notin OpenFds
  BY <1>1, EchoAssumption DEF OpenFds, Inv, LoopType
<1>6. \A g \in OpenFds : fdtab'[g] = fdtab[g] /\ fdtab[g] # c /\ fdtab[g] \in Clients
  BY <1>1, <1>3, <1>5 DEF Inv, LoopType, Table, OpenFds
<1>7. LoopType'
  BY <1>1, <1>2 DEF Inv, LoopType, Serv, Fds
<1>8. Table'
  <2>1. fdtab'[f] = c
    BY <1>1 DEF Inv, LoopType
  <2>2. \A g \in OpenFds' : server'[fdtab'[g]] = "open"
    BY <1>3, <1>5, <1>6, <2>1 DEF Inv, NetInv, NetTypeOK, Table
  <2>3. \A g, h \in OpenFds' : fdtab'[g] = fdtab'[h] => g = h
    BY <1>5, <1>6, <2>1 DEF Inv, Table
  <2>4. reads' = {Serv} \cup OpenFds' /\ \A g \in reads' : g <= fd_max'
    BY <1>1, <1>5 DEF Inv, Table, LoopType, Serv, Fds
  <2> QED BY <2>2, <2>3, <2>4 DEF Table
<1>9. Fresh'
  <2> SUFFICES ASSUME NEW g \in Ahead'
               PROVE  g \in {Serv} \cup OpenFds' /\ Ready(g)'
    BY DEF Fresh
  <2>1. g \in Ahead /\ g # Serv
    BY <1>2 DEF Ahead, Serv, Inv, LoopType, Fds
  <2>2. g \in OpenFds /\ Readable(fdtab[g])
    BY <1>2, <2>1 DEF Inv, Fresh, Ready
  <2> QED BY <1>3, <1>5, <1>6, <2>1, <2>2 DEF Ready, Readable, DataReady, EofReady, ErrReady
<1>10. Progress'
  BY <1>2, <1>3 DEF Progress, Owes, Inv
<1> QED BY <1>3, <1>4, <1>7, <1>8, <1>9, <1>10 DEF Inv

\* What happens to one connection leaves the others as ready as they were.
LEMMA OthersReady ==
  ASSUME Inv, NEW f \in OpenFds, NEW g \in OpenFds, g # f, Ready(g),
         fdtab'[g] = fdtab[g],
         \A d \in Clients : d # fdtab[f] =>
           peer'[d] = peer[d] /\ nsent'[d] = nsent[d] /\ nread'[d] = nread[d]
  PROVE  Ready(g)'
<1>1. fdtab[g] \in Clients /\ fdtab[g] # fdtab[f] /\ g # Serv
  BY DEF Inv, Table, LoopType, OpenFds, Fds, Serv
<1>2. Readable(fdtab[g])
  BY <1>1 DEF Ready
<1> QED BY <1>1, <1>2 DEF Ready, Readable, DataReady, EofReady, ErrReady
\* After the scan has gone past f, what it has still to come to is as it was.
LEMMA PastFresh ==
  ASSUME Inv, NEW f \in OpenFds, wpc \in {"scan", "write"}, wpc' \in {"scan", "write"},
         wpc = "scan" => i <= f,
         wpc = "write" => i = f,
         (i' = f /\ wpc' = "write") \/ (i' = f + 1 /\ wpc' = "scan"),
         UNCHANGED <<cpy, backlog>>,
         OpenFds' \cup {f} = OpenFds \cup {f},
         \A g \in OpenFds : g # f => fdtab'[g] = fdtab[g],
         \A d \in Clients : d # fdtab[f] =>
           peer'[d] = peer[d] /\ nsent'[d] = nsent[d] /\ nread'[d] = nread[d]
  PROVE  Fresh'
<1> SUFFICES ASSUME NEW g \in Ahead'
             PROVE  g \in {Serv} \cup OpenFds' /\ Ready(g)'
  BY DEF Fresh
<1>1. cpy \subseteq Nat /\ i \in Nat /\ f \in Nat
  BY SelectAssumption DEF Inv, LoopType, Fds, Serv, OpenFds
<1>2. g \in cpy /\ f < g
  <2>1. g \in cpy /\ (IF wpc' = "write" THEN i' < g ELSE i' <= g)
    BY DEF Ahead
  <2>2. g \in Nat
    BY <1>1, <2>1
  <2> QED BY <1>1, <2>1, <2>2
<1>3. g \in Ahead
  BY <1>1, <1>2 DEF Ahead
<1>4. g \in {Serv} \cup OpenFds /\ Ready(g) /\ g # f
  BY <1>1, <1>2, <1>3 DEF Inv, Fresh
<1>5. g # Serv
  BY <1>1, <1>2, SelectAssumption DEF Serv, Fds, OpenFds
<1>6. g \in OpenFds /\ g \in OpenFds'
  BY <1>4, <1>5
<1> QED BY <1>4, <1>5, <1>6, OthersReady

\* read() of one connection: data, or an error (:93-107).
LEMMA ReadInv ==
  ASSUME Inv, NEW f \in Fds, ReadData(f) \/ ReadErr(f)
  PROVE  Inv' /\ Refines
<1> DEFINE c == fdtab[f]
<1>1. At(f) /\ (TakeData(c) \/ TakeErr(c)) /\ UNCHANGED <<fdtab, reads, cpy, fd_max, alive>>
  BY DEF ReadData, ReadErr
<1>2. f \in OpenFds /\ wpc = "scan" /\ i <= f /\ c \in Clients /\ server[c] = "open"
  BY <1>1, AtOpen
<1>3. NetInv' /\ Refines
  BY <1>1, <1>2, TakeDataKeeps, TakeErrKeeps, TakeRefines DEF Inv
<1>4. UNCHANGED <<nsent, echoed, got, backlog, server>>
  BY <1>1 DEF TakeData, TakeErr
<1>5. (i' = f /\ wpc' = "write") \/ (i' = f + 1 /\ wpc' = "scan")
  BY <1>2 DEF ReadData, ReadErr, Past
<1>6. LoopType'
  BY <1>1, <1>2, <1>5 DEF Inv, LoopType, OpenFds, Fds, Serv
<1>7. Table'
  BY <1>1, <1>4 DEF Inv, Table, OpenFds
<1>8. \A d \in Clients : d # c => peer'[d] = peer[d] /\ nread'[d] = nread[d]
  BY <1>1 DEF TakeData, TakeErr, Inv, NetInv, NetTypeOK
<1>9. Fresh'
  BY <1>1, <1>2, <1>4, <1>5, <1>8, PastFresh DEF OpenFds
<1>10. Progress'
  <2> SUFFICES ASSUME NEW d \in Clients, Reads(peer'[d])
               PROVE  nread'[d] = Len(echoed[d]) + (IF Owes(d)' THEN 1 ELSE 0)
    BY <1>4 DEF Progress
  <2>1. ~Owes(d) /\ Len(echoed[d]) \in Nat
    BY <1>2 DEF Owes, Inv, NetInv, NetTypeOK
  <2>2. CASE ReadData(f)
    <3>1. nread' = [nread EXCEPT ![c] = @ + 1] /\ peer' = peer /\ (Owes(d)' <=> d = c)
      BY <2>2 DEF ReadData, TakeData, Owes
    <3>2. nread[d] = Len(echoed[d])
      BY <2>1, <3>1, Owed
    <3> QED BY <2>1, <3>1, <3>2 DEF Inv, NetInv, NetTypeOK
  <2>3. CASE ReadErr(f)
    <3>1. /\ nread' = nread /\ ~Owes(d)'
          /\ peer' = [peer EXCEPT ![c] = "broken"]
      BY <1>2, <2>3 DEF ReadErr, TakeErr, Owes
    <3>2. Reads(peer[d])
      BY <3>1 DEF Reads, Inv, NetInv, NetTypeOK
    <3> QED BY <2>1, <3>1, <3>2, Owed
  <2> QED BY <2>2, <2>3
<1> QED BY <1>3, <1>6, <1>7, <1>9, <1>10 DEF Inv

\* read() returns 0 (:97-103).
LEMMA EofInv ==
  ASSUME Inv, NEW f \in Fds, ReadEof(f)
  PROVE  Inv' /\ Refines
<1> DEFINE c == fdtab[f]
<1>1. /\ At(f) /\ EofReady(c) /\ reads' = reads \ {f}
      /\ fdtab' = [fdtab EXCEPT ![f] = NoConn]
      /\ server' = [server EXCEPT ![c] = "closed"] /\ i' = f + 1
      /\ UNCHANGED <<peer, nsent, nread, echoed, got, backlog, cpy, fd_max, wpc, alive>>
  BY DEF ReadEof, Released, Past
<1>2. f \in OpenFds /\ wpc = "scan" /\ i <= f /\ c \in Clients /\ server[c] = "open"
  BY <1>1, AtOpen
<1>3. NetInv'
  <2>1. ServerOnly
    BY <1>1, <1>2 DEF ServerOnly, Inv, NetInv, NetTypeOK
  <2> QED BY <2>1, ServerKeeps DEF Inv
<1>4. Refines
  <2>1. Served(c)
    <3>1. nread[c] = nsent[c] /\ peer[c] \in {"fin", "gone", "broken"}
      BY <1>1 DEF EofReady, AtEof
    <3>2. peer[c] = "fin" => nread[c] = Len(echoed[c])
      <4>1. ~Owes(c)
        BY <1>2 DEF Owes
      <4> QED BY <1>2, <4>1, Owed DEF Reads
    <3> QED BY <3>1, <3>2 DEF Served
  <2> QED BY <1>1, <1>2, <2>1, CloseRefines DEF Inv
<1>5. OpenFds' = OpenFds \ {f} /\ \A g \in Fds : g # f => fdtab'[g] = fdtab[g]
  BY <1>1 DEF OpenFds, Inv, LoopType
<1>6. LoopType'
  BY <1>1, <1>2 DEF Inv, LoopType, Fds, Serv
<1>7. Table'
  <2>1. \A g \in OpenFds' : server'[fdtab'[g]] = "open"
    BY <1>1, <1>2, <1>5 DEF Inv, Table, NetInv, NetTypeOK, OpenFds
  <2>2. \A g, h \in OpenFds' : fdtab'[g] = fdtab'[h] => g = h
    BY <1>5 DEF Inv, Table, OpenFds
  <2>3. f # Serv
    BY DEF Fds, Serv
  <2> QED BY <1>1, <1>5, <2>1, <2>2, <2>3 DEF Inv, Table
<1>8. Fresh'
  BY <1>1, <1>2, <1>5, PastFresh DEF OpenFds
<1>9. Progress'
  BY <1>1, <1>2 DEF Inv, Progress, Owes
<1> QED BY <1>3, <1>4, <1>6, <1>7, <1>8, <1>9 DEF Inv

\* write() of what was read (:105-107).
LEMMA WriteInv ==
  ASSUME Inv, Write
  PROVE  Inv' /\ Refines
<1> DEFINE c == fdtab[i]
<1>1. /\ wpc = "write" /\ WriteBack(c, <<c, nread[c]>>) /\ i' = i + 1 /\ wpc' = "scan"
      /\ UNCHANGED <<fdtab, reads, cpy, fd_max, alive>>
  BY DEF Write, Past
<1>2. i \in OpenFds /\ c \in Clients /\ server[c] = "open"
  BY <1>1 DEF Inv, LoopType, Table, OpenFds
<1>3. Reads(peer[c]) => nread[c] = Len(echoed[c]) + 1
  BY <1>1, <1>2 DEF Inv, Progress, Owes
<1>4. Len(echoed[c]) \in Nat /\ nread[c] <= nsent[c] /\ nread[c] \in Nat /\ nsent[c] \in Nat
  BY <1>2 DEF Inv, NetInv, NetTypeOK, ConnInv
<1>5. NetInv'
  BY <1>1, <1>2, <1>4, WriteBackKeeps DEF Inv, Chunks, Lines
<1>6. Refines
  BY <1>1, <1>2, <1>3, <1>4, WriteBackRefines DEF Inv
<1>7. PICK p \in AfterWrite(peer[c]) :
        /\ peer' = [peer EXCEPT ![c] = p]
        /\ echoed' = [echoed EXCEPT ![c] = IF Reads(peer[c]) THEN Append(@, <<c, nread[c]>>) ELSE @]
        /\ UNCHANGED <<nsent, nread, got, backlog, server>>
  BY <1>1 DEF WriteBack
<1>8. LoopType'
  BY <1>1, <1>2 DEF Inv, LoopType
<1>9. Table'
  BY <1>1, <1>7 DEF Inv, Table, OpenFds
<1>10. Fresh'
  <2>1. \A d \in Clients : d # c => peer'[d] = peer[d]
    BY <1>7 DEF Inv, NetInv, NetTypeOK
  <2> QED BY <1>1, <1>2, <1>7, <2>1, PastFresh DEF OpenFds
<1>11. Progress'
  <2> SUFFICES ASSUME NEW d \in Clients, Reads(peer'[d])
               PROVE  nread[d] = Len(echoed'[d])
    <3>1. \A d \in Clients : ~Owes(d)' /\ Len(echoed'[d]) \in Nat /\ nread'[d] = nread[d]
      BY <1>1, <1>5, <1>7 DEF Owes, NetInv, NetTypeOK
    <3> QED BY <1>1, <3>1 DEF Progress, Owes
  <2>1. CASE d = c
    <3>1. p \in {"up", "fin"} /\ p = peer[c] /\ Reads(peer[c])
      BY <1>7, <2>1, AfterWriteFacts DEF Reads, Inv, NetInv, NetTypeOK
    <3>2. echoed'[d] = Append(echoed[d], <<c, nread[c]>>) /\ echoed[d] \in Seq(Lines)
      BY <1>7, <2>1, <3>1 DEF Inv, NetInv, NetTypeOK
    <3>3. Len(echoed'[d]) = Len(echoed[d]) + 1
      BY <3>2
    <3> QED BY <1>3, <2>1, <3>1, <3>3
  <2>2. CASE d # c
    <3>1. echoed'[d] = echoed[d] /\ peer'[d] = peer[d] /\ ~Owes(d)
      BY <1>7, <2>2 DEF Inv, NetInv, NetTypeOK, Owes
    <3> QED BY <3>1, Owed
  <2> QED BY <2>1, <2>2
<1> QED BY <1>5, <1>6, <1>8, <1>9, <1>10, <1>11 DEF Inv

-----------------------------------------------------------------------------
\* Nothing is open when the loop starts (:15-52).
LEMMA InitInv == Init => Inv
<1> SUFFICES ASSUME Init PROVE Inv
  OBVIOUS
<1>1. NetInv
  BY NetInitInv DEF Init
<1>2. OpenFds = {}
  BY DEF Init, OpenFds
<1>3. LoopType
  BY DEF Init, LoopType, Fds, Serv
<1>4. Table /\ Fresh
  BY <1>2 DEF Init, Table, Fresh, Serv
<1>5. Progress
  BY DEF Init, NetInit, Progress, Owes
<1> QED BY <1>1, <1>3, <1>4, <1>5 DEF Inv

\* Every step keeps the invariant and is one of the echo service.
LEMMA NextInv == Inv /\ [Next]_vars => Inv' /\ Refines
<1> SUFFICES ASSUME Inv, [Next]_vars PROVE Inv' /\ Refines
  OBVIOUS
<1>1. CASE UNCHANGED vars
  <2>1. NetInv' /\ Refines
    BY <1>1, NetFrame, FrameRefines DEF vars, Inv
  <2>2. LoopType' /\ Table' /\ Fresh' /\ Progress'
    BY <1>1 DEF vars, net, loop, Inv, LoopType, Table, OpenFds, Fresh, Ahead, Ready, Readable,
       DataReady, EofReady, ErrReady, Progress, Owes
  <2> QED BY <2>1, <2>2 DEF Inv
<1>2. CASE Loop
  BY <1>2, QuietInv, AcceptInv, ReadInv, EofInv, WriteInv DEF Loop
<1>3. ASSUME NEW c \in Clients, ClientStep(c) PROVE Inv' /\ Refines
  BY <1>3, ClientStepInv
<1> QED BY <1>1, <1>2, <1>3 DEF Next

\* The invariant holds of every run of the server.
THEOREM InvHolds == Spec => []Inv
BY InitInv, NextInv, PTL DEF Spec

\* The scan acts on open, ready descriptors and reaches all there are
\* (tcp_echo_select_server.c:69-106).
THEOREM PassIsSound == Spec => []PassSound
<1>1. Inv => TypeOK /\ Left \subseteq {g \in cpy : i <= g}
  BY DEF Inv, NetInv, LoopType, TypeOK, Left
<1>2. Inv => StillReady
  BY DEF Inv, Fresh, Ahead, StillReady, Left
<1>3. Inv => WatchesOpen
  BY <1>1 DEF Inv, Table, WatchesOpen
<1> QED BY <1>2, <1>3, InvHolds, PTL DEF PassSound

\* The select server implements the echo service
\* (tcp_echo_select_server.c:54-111).
THEOREM SelectingEcho == Spec => EchoSpec
<1>1. Init => Echo!SInit
  BY InitRefines DEF Init
<1>2. Inv /\ [Next]_vars => [Echo!SNext]_(Echo!svars)
  BY NextInv DEF Refines
<1> QED BY <1>1, <1>2, InvHolds, PTL DEF Spec, EchoSpec, Echo!SSpec
=============================================================================

-------------------------- MODULE StoreEchoProofs --------------------------
(***************************************************************************)
(* tcp_echo_store_server.c is an echo service and has every chunk on its   *)
(* way to the file before it is sent back, in order and once, for every    *)
(* number of clients and chunks, every size of the pipe, and wherever a    *)
(* fork() fails; only a missing pipe, a missing file or a short write to   *)
(* the file lets chunks go.                                                *)
(***************************************************************************)
EXTENDS StoreEcho, EchoNetProofs, SequenceTheorems

ProcType ==
  /\ ppc \in {"accept", "fork", "close"}
  /\ clnt \in Clients \cup {NoConn} /\ (clnt = NoConn <=> ppc = "accept")
  /\ cpc \in [Clients -> CPcs]
  /\ parentHas = IF ppc = "accept" THEN {} ELSE {clnt}

StoreType ==
  /\ pipe \in Seq(Chunks) /\ message \in Seq(Chunks) /\ file \in Seq(Chunks)
  /\ spc \in {"none", "read", "write"}
  /\ made \in BOOLEAN /\ kept \in BOOLEAN
  /\ spc # "write" => message = <<>>

\* A connection is open while a process has it, and is given one child.
OpenInv ==
  /\ ppc = "fork" => cpc[clnt] = "none"
  /\ \A c \in Clients :
       /\ server[c] = "open" <=> ChildHas(c) \/ c \in parentHas
       /\ server[c] = "new" => cpc[c] = "none"

\* How much was sent back at each point of the child's loop.
Owes(c) == cpc[c] \in {"pipe", "echo"}
Progress ==
  \A c \in Clients :
    /\ cpc[c] = "none" => nread[c] = 0 /\ echoed[c] = <<>>
    /\ cpc[c] = "read" /\ Reads(peer[c]) => Len(echoed[c]) = nread[c]
    /\ Owes(c) => Len(echoed[c]) < nread[c]
    /\ Owes(c) /\ Reads(peer[c]) => Len(echoed[c]) + 1 = nread[c]
    /\ cpc[c] \in {"close", "zombie"} => Served(c)
    /\ Len(echoed[c]) <= nread[c]

LogInv == Whole => \A c \in Clients : Logged(c)

Inv == NetInv /\ ProcType /\ StoreType /\ OpenInv /\ Progress /\ LogInv

-----------------------------------------------------------------------------
\* The log is a sequence of chunks.
LEMMA LogType ==
  ASSUME StoreType
  PROVE  Log \in Seq(Chunks)
BY ConcatProperties DEF StoreType, Log

\* Logged(c) depends on the log and on what was read, piped and sent back.
LEMMA LoggedKeeps ==
  ASSUME NEW c \in Clients, Logged(c), Log' = Log, Piped(c)' = Piped(c),
         Len(echoed'[c]) <= Piped(c)
  PROVE  Logged(c)'
BY DEF Logged

\* Steps that touch neither the log nor any connection's progress.
LEMMA SameLog ==
  ASSUME Inv, UNCHANGED <<made, pipe, message, file, kept, nread, echoed>>,
         \A c \in Clients : cpc'[c] = "pipe" <=> cpc[c] = "pipe"
  PROVE  LogInv'
<1>1. Log' = Log  BY DEF Log
<1>2. \A c \in Clients : Piped(c)' = Piped(c)  BY DEF Piped
<1>3. ASSUME Whole, NEW c \in Clients PROVE Logged(c)'
  BY <1>1, <1>2, <1>3, LoggedKeeps DEF Inv, LogInv, Logged
<1>. QED  BY <1>3 DEF LogInv, Whole

-----------------------------------------------------------------------------
LEMMA InitInv == Init => Inv
<1>. SUFFICES ASSUME Init PROVE Inv  OBVIOUS
<1>1. NetInv  BY NetInitInv DEF Init
<1>2. ProcType /\ StoreType
  <2>1. made \in BOOLEAN  BY StoreAssumption, Zenon DEF Init
  <2>2. spc \in {"none", "read"}  BY DEF Init
  <2>3. StoreType  BY <2>1, <2>2 DEF Init, StoreType
  <2>. QED  BY <2>3, EchoAssumption DEF Init, ProcType, CPcs
<1>3. OpenInv /\ Progress
  BY DEF Init, NetInit, OpenInv, ChildHas, Progress, Owes
<1>4. LogInv
  <2>1. Log = <<>>  BY DEF Init, Log
  <2>2. DOMAIN Log = {}  BY <2>1
  <2>3. \A c \in Clients : Piped(c) = 0 /\ echoed[c] = <<>>
    BY DEF Init, NetInit, Piped
  <2>. QED  BY <2>2, <2>3 DEF LogInv, Logged
<1>. QED  BY <1>1, <1>2, <1>3, <1>4 DEF Inv

\* What the clients do (EchoNet).
LEMMA ClientInv ==
  ASSUME Inv, NEW d \in Clients, ClientStep(d)
  PROVE  Inv' /\ Refines
<1>. USE DEF Inv
<1>1. Client(d) /\ UNCHANGED <<proc, store>>  BY DEF ClientStep
<1>2. NetInv' /\ Refines  BY <1>1, ClientKeeps, ClientRefines
<1>3. UNCHANGED <<nread, echoed, server>>
  BY <1>1 DEF Client, Connect, ClientWrite, Shutdown, Kill, ClientRead
<1>4. ProcType' /\ StoreType' /\ OpenInv'
  BY <1>1, <1>3 DEF ProcType, StoreType, OpenInv, ChildHas, proc, store
<1>5. LogInv'
  BY <1>1, <1>3, SameLog DEF proc, store
<1>6. \A c \in Clients :
        /\ Reads(peer'[c]) /\ cpc[c] # "none" => Reads(peer[c])
        /\ Served(c) => Served(c)'
  <2>1. CASE Connect(d)
    BY <1>3, <2>1 DEF Connect, NetInv, NetTypeOK, ConnInv, OpenInv, Reads, Served
  <2>2. CASE ClientWrite(d)
    BY <1>3, <2>2 DEF ClientWrite, NetInv, NetTypeOK, Reads, Served
  <2>3. CASE Shutdown(d)
    BY <1>3, <2>3 DEF Shutdown, NetInv, NetTypeOK, Reads, Served
  <2>4. CASE Kill(d)
    <3>1. PICK p \in {"gone", "rst", "broken"} : peer' = [peer EXCEPT ![d] = p]
      BY <2>4, KillFacts
    <3>. QED  BY <1>3, <2>4, <3>1 DEF Kill, NetInv, NetTypeOK, Reads, Served
  <2>5. CASE ClientRead(d)
    BY <1>3, <2>5 DEF ClientRead, Served
  <2>. QED  BY <1>1, <2>1, <2>2, <2>3, <2>4, <2>5 DEF Client
<1>7. Progress'
  BY <1>1, <1>3, <1>6 DEF Progress, Owes, proc
<1>. QED  BY <1>2, <1>4, <1>5, <1>7

-----------------------------------------------------------------------------
(* The parent (:69-105). *)

LEMMA AcceptInv ==
  ASSUME Inv, Accept
  PROVE  Inv' /\ Refines
<1>. USE DEF Inv
<1>1. PICK c \in Clients : Accepted(c) /\ clnt' = c /\ parentHas' = parentHas \cup {c}
  BY DEF Accept
<1>2. /\ ppc = "accept" /\ ppc' = "fork" /\ UNCHANGED <<cpc, store, peer, nsent, nread, echoed>>
      /\ server' = [server EXCEPT ![c] = "open"]
  BY <1>1 DEF Accept, Accepted
<1>3. NetInv' /\ Refines /\ server[c] = "new"
  BY <1>1, AcceptKeeps, AcceptRefines
<1>4. ProcType' /\ StoreType'
  BY <1>1, <1>2, EchoAssumption DEF ProcType, StoreType, store
<1>5. OpenInv'
  BY <1>1, <1>2, <1>3 DEF OpenInv, ChildHas, NetInv, NetTypeOK, ProcType
<1>6. Progress' /\ LogInv'
  BY <1>2, SameLog DEF Progress, Owes, Served, store
<1>. QED  BY <1>3, <1>4, <1>5, <1>6

LEMMA ForkInv ==
  ASSUME Inv, Fork \/ ForkFails
  PROVE  Inv' /\ Refines
<1>. USE DEF Inv
<1>1. /\ ppc = "fork" /\ ppc' = "close" /\ UNCHANGED <<net, clnt, parentHas, store>>
      /\ cpc' = [cpc EXCEPT ![clnt] = "read"] \/ cpc' = cpc
  BY DEF Fork, ForkFails
<1>2. clnt \in Clients /\ cpc[clnt] = "none" /\ clnt \in parentHas /\ server[clnt] = "open"
  BY <1>1 DEF ProcType, OpenInv
<1>3. NetInv' /\ Refines  BY <1>1, NetFrame, FrameRefines
<1>4. ProcType' /\ StoreType'
  BY <1>1, <1>2 DEF ProcType, StoreType, store, CPcs
<1>5. OpenInv'
  BY <1>1, <1>2 DEF OpenInv, ChildHas, ProcType, net
<1>6. Progress'
  BY <1>1, <1>2 DEF Progress, Owes, Served, ProcType, net
<1>7. LogInv'
  BY <1>1, <1>2, SameLog DEF ProcType, store, net
<1>. QED  BY <1>3, <1>4, <1>5, <1>6, <1>7

LEMMA ParentCloseInv ==
  ASSUME Inv, ParentClose
  PROVE  Inv' /\ Refines
<1>. USE DEF Inv
<1>1. /\ ppc = "close" /\ ppc' = "accept" /\ clnt' = NoConn /\ parentHas' = parentHas \ {clnt}
      /\ server' = (IF ChildHas(clnt) THEN server ELSE [server EXCEPT ![clnt] = "closed"])
      /\ UNCHANGED <<peer, nsent, nread, echoed, got, backlog, cpc, store>>
  BY DEF ParentClose
<1>2. clnt \in Clients /\ parentHas = {clnt} /\ server[clnt] = "open"
  BY <1>1 DEF ProcType, OpenInv
<1>3. NetInv'
  <2>1. ServerOnly  BY <1>1, <1>2 DEF ServerOnly, NetInv, NetTypeOK
  <2>. QED  BY <2>1, ServerKeeps
<1>4. Refines
  <2>1. CASE ChildHas(clnt)
    BY <1>1, <2>1 DEF Refines, Echo!svars
  <2>2. CASE ~ChildHas(clnt)
    <3>1. Served(clnt) \/ echoed[clnt] = <<>>
      BY <1>2, <2>2 DEF ChildHas, Progress
    <3>. QED  BY <1>1, <1>2, <2>2, <3>1, CloseRefines
  <2>. QED  BY <2>1, <2>2
<1>5. ProcType' /\ StoreType'
  BY <1>1, <1>2 DEF ProcType, StoreType, store
<1>6. OpenInv'
  BY <1>1, <1>2 DEF OpenInv, ChildHas, NetInv, NetTypeOK
<1>7. Progress' /\ LogInv'
  BY <1>1, SameLog DEF Progress, Owes, Served, store
<1>. QED  BY <1>3, <1>4, <1>5, <1>6, <1>7

-----------------------------------------------------------------------------
(* A child (:87-101). *)

\* A step of a child's loop keeps what is not about the progress of its
\* connection.
LEMMA ChildFrame ==
  ASSUME Inv, NEW c \in Clients, ChildHas(c),
         NEW x \in {"read", "pipe", "echo", "close"},
         cpc' = [cpc EXCEPT ![c] = x], UNCHANGED <<ppc, clnt, parentHas, server>>
  PROVE  ProcType' /\ OpenInv'
BY DEF Inv, ProcType, OpenInv, ChildHas, CPcs

LEMMA ChildReadInv ==
  ASSUME Inv, NEW c \in Clients, ChildRead(c)
  PROVE  Inv' /\ Refines
<1>. USE DEF Inv
<1>1. /\ cpc[c] = "read" /\ cpc' = [cpc EXCEPT ![c] = "pipe"] /\ TakeData(c)
      /\ UNCHANGED <<ppc, clnt, parentHas, store>>
  BY DEF ChildRead, Goto, Others
<1>2. /\ nread' = [nread EXCEPT ![c] = @ + 1] /\ UNCHANGED <<peer, nsent, echoed, server>>
  BY <1>1 DEF TakeData
<1>3. server[c] = "open"  BY <1>1 DEF OpenInv, ChildHas
<1>4. NetInv' /\ Refines  BY <1>1, <1>3, TakeDataKeeps, TakeRefines
<1>5. ProcType' /\ OpenInv'  BY <1>1, <1>2, ChildFrame DEF ChildHas
<1>6. StoreType'  BY <1>1 DEF StoreType, store
<1>7. \A d \in Clients : d # c => nread'[d] = nread[d] /\ cpc'[d] = cpc[d]
  BY <1>1, <1>2 DEF NetInv, NetTypeOK, ProcType
<1>8. nread'[c] = nread[c] + 1 /\ cpc'[c] = "pipe" /\ nread[c] \in Nat /\ Len(echoed[c]) \in Nat
  BY <1>1, <1>2 DEF NetInv, NetTypeOK, ProcType
<1>9. Progress'
  BY <1>1, <1>2, <1>7, <1>8 DEF Progress, Owes, Served
<1>10. LogInv'
  <2>1. Log' = Log  BY <1>1 DEF Log, store
  <2>2. \A d \in Clients : Piped(d)' = Piped(d)
    BY <1>1, <1>7, <1>8 DEF Piped
  <2>3. ASSUME Whole, NEW d \in Clients PROVE Logged(d)'
    BY <1>2, <2>1, <2>2, <2>3, LoggedKeeps DEF LogInv, Logged
  <2>. QED  BY <1>1, <2>3 DEF LogInv, Whole, store
<1>. QED  BY <1>4, <1>5, <1>6, <1>9, <1>10

LEMMA ChildErrInv ==
  ASSUME Inv, NEW c \in Clients, ChildErr(c)
  PROVE  Inv' /\ Refines
<1>. USE DEF Inv
<1>1. cpc[c] = "read" /\ TakeErr(c) /\ UNCHANGED <<proc, store>>
  BY DEF ChildErr
<1>2. /\ peer' = [peer EXCEPT ![c] = "broken"] /\ UNCHANGED <<nsent, nread, echoed, server>>
  BY <1>1 DEF TakeErr
<1>3. NetInv' /\ Refines  BY <1>1, TakeErrKeeps, TakeRefines
<1>4. ProcType' /\ StoreType' /\ OpenInv'
  BY <1>1, <1>2 DEF ProcType, StoreType, OpenInv, ChildHas, proc, store
<1>5. Progress'
  BY <1>1, <1>2 DEF Progress, Owes, Served, Reads, NetInv, NetTypeOK, proc
<1>6. LogInv'
  BY <1>1, <1>2, SameLog DEF proc, store
<1>. QED  BY <1>3, <1>4, <1>5, <1>6

LEMMA ChildEofInv ==
  ASSUME Inv, NEW c \in Clients, ChildEof(c)
  PROVE  Inv' /\ Refines
<1>. USE DEF Inv
<1>1. /\ cpc[c] = "read" /\ cpc' = [cpc EXCEPT ![c] = "close"] /\ EofReady(c)
      /\ UNCHANGED <<net, ppc, clnt, parentHas, store>>
  BY DEF ChildEof, Goto, Others
<1>2. NetInv' /\ Refines  BY <1>1, NetFrame, FrameRefines
<1>3. ProcType' /\ OpenInv'  BY <1>1, ChildFrame DEF ChildHas, net
<1>4. StoreType'  BY <1>1 DEF StoreType, store
<1>5. Served(c)
  BY <1>1 DEF EofReady, AtEof, Progress, Served, Reads
<1>6. Progress'
  BY <1>1, <1>5 DEF Progress, Owes, Served, ProcType, net
<1>7. LogInv'
  BY <1>1, SameLog DEF ProcType, store, net
<1>. QED  BY <1>2, <1>3, <1>4, <1>6, <1>7

\* The next chunk of c is put at the end of the log.
LEMMA LogAppend ==
  ASSUME Inv, NEW c \in Clients, ChildPipe(c), Whole, NEW d \in Clients
  PROVE  Logged(d)'
<1>. USE DEF Inv
<1>. DEFINE chunk == <<c, nread[c]>>
<1>1. /\ cpc[c] = "pipe" /\ cpc' = [cpc EXCEPT ![c] = "echo"]
      /\ pipe' = Append(pipe, chunk) /\ UNCHANGED <<net, message, file>>
  BY DEF ChildPipe, Goto, Whole
<1>2. Log \in Seq(Chunks) /\ Len(Log) \in Nat /\ DOMAIN Log = 1..Len(Log)
  BY LogType
<1>3. chunk \in Chunks /\ nread[c] \in Nat \ {0} /\ Len(echoed[c]) < nread[c]
  <2>1. nread[c] \in Nat /\ Len(echoed[c]) \in Nat  BY DEF NetInv, NetTypeOK
  <2>2. Len(echoed[c]) < nread[c]  BY <1>1 DEF Progress, Owes
  <2>. QED  BY <2>1, <2>2 DEF Chunks
<1>4. Log' = Append(Log, chunk)
  <2>1. file \in Seq(Chunks) /\ message \in Seq(Chunks) /\ pipe \in Seq(Chunks)
    BY DEF StoreType
  <2>2. \A s \in Seq(Chunks), t \in Seq(Chunks) : s \o Append(t, chunk) = Append(s \o t, chunk)
    BY <1>3, AppendProperties, ConcatProperties
  <2>3. file \o message \in Seq(Chunks)
    BY <2>1, ConcatProperties
  <2>. QED  BY <1>1, <2>1, <2>2, <2>3 DEF Log
<1>5. /\ DOMAIN Log' = 1..(Len(Log) + 1) /\ Log'[Len(Log) + 1] = chunk
      /\ \A i \in 1..Len(Log) : Log'[i] = Log[i] /\ Log[i] \in Chunks
  BY <1>2, <1>3, <1>4
<1>6. CASE d = c
  <2>1. Piped(c) = nread[c] - 1 /\ Piped(c)' = nread[c]
    <3>1. cpc'[c] = "echo" /\ nread' = nread  BY <1>1 DEF net, ProcType
    <3>2. Piped(c)' = nread[c] - 0  BY <3>1 DEF Piped
    <3>. QED  BY <1>1, <1>3, <3>2 DEF Piped
  <2>2. Logged(c)  BY DEF LogInv
  <2>3. \A i \in DOMAIN Log' : Log'[i][1] = c => Log'[i][2] \in 1..nread[c]
    BY <1>2, <1>3, <1>5, <2>1, <2>2 DEF Logged
  <2>4. \A k \in 1..nread[c] : \E i \in DOMAIN Log' : Log'[i] = <<c, k>>
    <3>1. ASSUME NEW k \in 1..nread[c], k # nread[c]
          PROVE  \E i \in DOMAIN Log' : Log'[i] = <<c, k>>
      <4>1. k \in 1..Piped(c)  BY <1>3, <2>1, <3>1
      <4>2. PICK i \in DOMAIN Log : Log[i] = <<c, k>>  BY <2>2, <4>1 DEF Logged
      <4>3. i \in 1..Len(Log) /\ i \in 1..(Len(Log) + 1)  BY <1>2, <4>2
      <4>4. Log'[i] = <<c, k>>  BY <1>5, <4>2, <4>3
      <4>. QED  BY <1>5, <4>3, <4>4
    <3>2. Len(Log) + 1 \in DOMAIN Log'  BY <1>2, <1>5
    <3>3. Log'[Len(Log) + 1] = <<c, nread[c]>>  BY <1>5
    <3>. QED  BY <3>1, <3>2, <3>3
  <2>5. ASSUME NEW i \in DOMAIN Log', NEW j \in DOMAIN Log',
               i < j, Log'[i][1] = c, Log'[j][1] = c
        PROVE  Log'[i][2] < Log'[j][2]
    <3>1. i \in 1..Len(Log)  BY <1>2, <1>5, <2>5
    <3>2. CASE j = Len(Log) + 1
      BY <1>2, <1>3, <1>5, <2>1, <2>2, <2>5, <3>1, <3>2 DEF Logged
    <3>3. CASE j # Len(Log) + 1
      <4>1. j \in 1..Len(Log)  BY <1>2, <1>5, <3>3
      <4>. QED  BY <1>2, <1>5, <2>2, <2>5, <3>1, <4>1 DEF Logged
    <3>. QED  BY <3>2, <3>3
  <2>6. Len(echoed'[c]) <= Piped(c)'
    BY <1>1, <1>3, <2>1, NetFrame DEF net, NetInv, NetTypeOK
  <2>. QED  BY <1>1, <1>6, <2>1, <2>3, <2>4, <2>5, <2>6 DEF Logged
<1>7. CASE d # c
  <2>1. Piped(d)' = Piped(d) /\ echoed'[d] = echoed[d]
    BY <1>1, <1>7 DEF Piped, net, ProcType
  <2>2. Logged(d)  BY DEF LogInv
  <2>3. \A i \in DOMAIN Log' : Log'[i][1] = d => i \in 1..Len(Log)
    BY <1>2, <1>5, <1>7
  <2>4. \A k \in 1..Piped(d) : \E i \in DOMAIN Log' : Log'[i] = <<d, k>>
    <3>. TAKE k \in 1..Piped(d)
    <3>1. PICK i \in DOMAIN Log : Log[i] = <<d, k>>  BY <2>2 DEF Logged
    <3>. QED  BY <1>2, <1>5, <3>1
  <2>. QED  BY <1>2, <1>5, <2>1, <2>2, <2>3, <2>4 DEF Logged
<1>. QED  BY <1>6, <1>7

LEMMA ChildPipeInv ==
  ASSUME Inv, NEW c \in Clients, ChildPipe(c)
  PROVE  Inv' /\ Refines
<1>. USE DEF Inv
<1>1. /\ cpc[c] = "pipe" /\ cpc' = [cpc EXCEPT ![c] = "echo"]
      /\ pipe' = Append(pipe, <<c, nread[c]>>) \/ pipe' = pipe
      /\ UNCHANGED <<net, ppc, clnt, parentHas, made, spc, message, kept, file>>
  BY DEF ChildPipe, Goto, Others
<1>2. NetInv' /\ Refines  BY <1>1, NetFrame, FrameRefines
<1>3. ProcType' /\ OpenInv'  BY <1>1, ChildFrame DEF ChildHas, net
<1>4. StoreType'
  <2>1. <<c, nread[c]>> \in Chunks  BY DEF NetInv, NetTypeOK, Chunks
  <2>2. pipe' \in Seq(Chunks)  BY <1>1, <2>1, AppendProperties DEF StoreType
  <2>. QED  BY <1>1, <2>2 DEF StoreType
<1>5. Progress'
  BY <1>1 DEF Progress, Owes, Served, ProcType, net
<1>6. LogInv'
  BY <1>1, LogAppend DEF LogInv, Whole
<1>. QED  BY <1>2, <1>3, <1>4, <1>5, <1>6

LEMMA ChildEchoInv ==
  ASSUME Inv, NEW c \in Clients, ChildEcho(c)
  PROVE  Inv' /\ Refines
<1>. USE DEF Inv
<1>1. /\ cpc[c] = "echo" /\ cpc' = [cpc EXCEPT ![c] = "read"]
      /\ WriteBack(c, <<c, nread[c]>>) /\ UNCHANGED <<ppc, clnt, parentHas, store>>
  BY DEF ChildEcho, Goto, Others
<1>2. PICK p \in AfterWrite(peer[c]) :
        /\ peer' = [peer EXCEPT ![c] = p]
        /\ echoed' = [echoed EXCEPT ![c] = IF Reads(peer[c]) THEN Append(@, <<c, nread[c]>>) ELSE @]
        /\ UNCHANGED <<nsent, nread, got, backlog, server>>
  BY <1>1 DEF WriteBack
<1>3. server[c] = "open"  BY <1>1 DEF OpenInv, ChildHas
<1>4. /\ nread[c] \in Nat /\ nsent[c] \in Nat /\ nread[c] <= nsent[c]
      /\ echoed[c] \in Seq(Lines) /\ Len(echoed[c]) \in Nat /\ <<c, nread[c]>> \in Chunks
  BY DEF NetInv, NetTypeOK, ConnInv, Chunks
<1>5. Len(echoed[c]) < nread[c] /\ (Reads(peer[c]) => Len(echoed[c]) + 1 = nread[c])
  BY <1>1 DEF Progress, Owes
<1>6. NetInv'  BY <1>1, <1>3, <1>4, WriteBackKeeps DEF Lines
<1>7. Refines
  BY <1>1, <1>3, <1>4, <1>5, WriteBackRefines
<1>8. ProcType' /\ OpenInv'  BY <1>1, <1>2, ChildFrame DEF ChildHas
<1>9. StoreType'  BY <1>1 DEF StoreType, store
<1>10. \A d \in Clients : d # c =>
         peer'[d] = peer[d] /\ echoed'[d] = echoed[d] /\ cpc'[d] = cpc[d]
  BY <1>1, <1>2 DEF NetInv, NetTypeOK, ProcType
<1>11. cpc'[c] = "read" /\ peer'[c] = p
       /\ echoed'[c] = IF Reads(peer[c]) THEN Append(echoed[c], <<c, nread[c]>>) ELSE echoed[c]
  BY <1>1, <1>2 DEF NetInv, NetTypeOK, ProcType
<1>12. Len(echoed'[c]) <= nread[c] /\ (Reads(peer'[c]) => Len(echoed'[c]) = nread[c])
  <2>1. Reads(p) => Reads(peer[c])
    BY <1>2, AfterWriteFacts DEF Reads, NetInv, NetTypeOK
  <2>2. CASE Reads(peer[c])
    <3>1. Len(echoed'[c]) = Len(echoed[c]) + 1  BY <1>4, <1>11, <2>2
    <3>. QED  BY <1>5, <2>2, <3>1
  <2>3. CASE ~Reads(peer[c])
    BY <1>4, <1>5, <1>11, <2>1, <2>3
  <2>. QED  BY <2>2, <2>3
<1>13. Progress'
  BY <1>2, <1>10, <1>11, <1>12 DEF Progress, Owes, Served
<1>14. LogInv'
  <2>1. Log' = Log  BY <1>1 DEF Log, store
  <2>2. \A d \in Clients : Piped(d)' = Piped(d)
    BY <1>1, <1>2, <1>10, <1>11 DEF Piped
  <2>3. Piped(c) = nread[c]  BY <1>1, <1>4 DEF Piped
  <2>4. ASSUME Whole, NEW d \in Clients PROVE Logged(d)'
    <3>1. Logged(d)  BY <2>4 DEF LogInv
    <3>2. Len(echoed'[d]) <= Piped(d)
      BY <1>10, <1>12, <2>3, <3>1 DEF Logged
    <3>. QED  BY <2>1, <2>2, <3>1, <3>2, LoggedKeeps
  <2>. QED  BY <1>1, <2>4 DEF LogInv, Whole, store
<1>. QED  BY <1>6, <1>7, <1>8, <1>9, <1>13, <1>14

LEMMA ChildExitInv ==
  ASSUME Inv, NEW c \in Clients, ChildExit(c)
  PROVE  Inv' /\ Refines
<1>. USE DEF Inv
<1>1. /\ cpc[c] = "close" \/ (cpc[c] = "echo" /\ peer[c] = "broken")
      /\ cpc' = [cpc EXCEPT ![c] = "zombie"]
      /\ server' = (IF c \in parentHas THEN server ELSE [server EXCEPT ![c] = "closed"])
      /\ UNCHANGED <<peer, nsent, nread, echoed, got, backlog, ppc, clnt, parentHas, store>>
  BY DEF ChildExit, Goto, RaisesSigpipe, Others
<1>2. server[c] = "open" /\ Served(c)
  BY <1>1 DEF OpenInv, ChildHas, Progress, Served
<1>3. NetInv'
  <2>1. ServerOnly  BY <1>1, <1>2 DEF ServerOnly, NetInv, NetTypeOK
  <2>. QED  BY <2>1, ServerKeeps
<1>4. Refines
  BY <1>1, <1>2, CloseRefines
<1>5. ProcType' /\ StoreType'
  BY <1>1 DEF ProcType, StoreType, store, CPcs
<1>6. OpenInv'
  BY <1>1, <1>2 DEF OpenInv, ChildHas, ProcType, NetInv, NetTypeOK
<1>7. Progress'
  BY <1>1, <1>2 DEF Progress, Owes, Served, ProcType
<1>8. LogInv'
  BY <1>1, SameLog DEF ProcType, store
<1>. QED  BY <1>3, <1>4, <1>5, <1>6, <1>7, <1>8

-----------------------------------------------------------------------------
\* The storer moves what is in the log and changes nothing of it (:63-67).
LEMMA StorerInv ==
  ASSUME Inv, Storer
  PROVE  Inv' /\ Refines
<1>. USE DEF Inv
<1>1. UNCHANGED <<net, proc, made>> /\ kept' \in {kept, FALSE}
  BY DEF Storer, StorerRead, StorerWrite
<1>2. NetInv' /\ Refines  BY <1>1, NetFrame, FrameRefines
<1>3. ProcType' /\ OpenInv' /\ Progress'
  BY <1>1 DEF ProcType, OpenInv, ChildHas, Progress, Owes, Served, proc, net
<1>4. file \in Seq(Chunks) /\ message \in Seq(Chunks) /\ pipe \in Seq(Chunks)
  BY DEF StoreType
<1>5. StoreType' /\ (Whole' => Whole /\ Log' = Log)
  <2>1. CASE StorerRead
    <3>1. PICK n \in 1..Len(pipe) :
            message' = SubSeq(pipe, 1, n) /\ pipe' = SubSeq(pipe, n + 1, Len(pipe))
      BY <2>1 DEF StorerRead
    <3>2. message = <<>> /\ file' = file /\ spc' = "write" /\ UNCHANGED kept
      BY <2>1 DEF StorerRead, StoreType
    <3>3. message' \in Seq(Chunks) /\ pipe' \in Seq(Chunks)
      BY <1>4, <3>1, SubSeqProperties
    <3>4. message' \o pipe' = pipe
      <4>1. Len(pipe) \in Nat  BY <1>4
      <4>2. message' \o pipe' = SubSeq(pipe, 1, Len(pipe))
        BY <1>4, <3>1, <4>1, ConcatAdjacentSubSeq
      <4>. QED  BY <1>4, <4>2, SubSeqFull
    <3>5. Log = file \o pipe
      BY <1>4, <3>2, ConcatEmptySeq DEF Log
    <3>6. Log' = file \o (message' \o pipe')
      BY <1>4, <3>2, <3>3, ConcatAssociative DEF Log
    <3>. QED  BY <1>1, <1>4, <3>2, <3>3, <3>4, <3>5, <3>6 DEF StoreType, Whole
  <2>2. CASE StorerWrite
    <3>1. spc' = "read" /\ message' = <<>> /\ pipe' = pipe
      BY <2>2 DEF StorerWrite
    <3>2. CASE ~kept' /\ file' \in {file, <<>>}
      <4>1. <<>> \in Seq(Chunks)  OBVIOUS
      <4>2. file' \in Seq(Chunks)  BY <1>4, <3>2, <4>1, Zenon
      <4>3. kept' \in BOOLEAN  BY <1>1 DEF StoreType
      <4>4. StoreType'  BY <1>1, <1>4, <3>1, <4>1, <4>2, <4>3 DEF StoreType
      <4>. QED  BY <3>2, <4>4 DEF Whole
    <3>3. CASE kept /\ file' = file \o message /\ UNCHANGED kept
      <4>1. file \o message \in Seq(Chunks)  BY <1>4, ConcatProperties
      <4>2. Log' = Log  BY <1>4, <3>1, <3>3, <4>1, ConcatEmptySeq DEF Log
      <4>. QED  BY <1>1, <1>4, <3>1, <3>3, <4>1, <4>2 DEF StoreType, Whole
    <3>. QED  BY <2>2, <3>2, <3>3 DEF StorerWrite
  <2>. QED  BY <2>1, <2>2 DEF Storer
<1>6. LogInv'
  <2>1. \A c \in Clients : Piped(c)' = Piped(c) /\ echoed' = echoed
    BY <1>1 DEF Piped, proc, net
  <2>2. ASSUME Whole', NEW c \in Clients PROVE Logged(c)'
    BY <1>5, <2>1, <2>2, LoggedKeeps DEF LogInv, Logged
  <2>. QED  BY <2>2 DEF LogInv
<1>. QED  BY <1>2, <1>3, <1>5, <1>6

-----------------------------------------------------------------------------
\* Every step keeps the invariant and is one of the echo service.
LEMMA NextInv == Inv /\ [Next]_vars => Inv' /\ Refines
<1>. SUFFICES ASSUME Inv, [Next]_vars PROVE Inv' /\ Refines  OBVIOUS
<1>1. CASE UNCHANGED vars
  <2>1. UNCHANGED <<net, proc, store>>  BY <1>1 DEF vars
  <2>2. NetInv' /\ Refines  BY <2>1, NetFrame, FrameRefines DEF Inv
  <2>3. ProcType' /\ StoreType' /\ OpenInv' /\ Progress'
    BY <2>1 DEF Inv, ProcType, StoreType, OpenInv, ChildHas, Progress, Owes, Served, net, proc, store
  <2>4. LogInv'  BY <2>1, SameLog DEF net, proc, store
  <2>. QED  BY <2>2, <2>3, <2>4 DEF Inv
<1>2. CASE ParentStep
  BY <1>2, AcceptInv, ForkInv, ParentCloseInv DEF ParentStep
<1>3. CASE Storer
  BY <1>3, StorerInv
<1>4. ASSUME NEW c \in Clients, Child(c) PROVE Inv' /\ Refines
  BY <1>4, ChildReadInv, ChildErrInv, ChildEofInv, ChildPipeInv, ChildEchoInv, ChildExitInv DEF Child
<1>5. ASSUME NEW c \in Clients, ClientStep(c) PROVE Inv' /\ Refines
  BY <1>5, ClientInv
<1>. QED  BY <1>1, <1>2, <1>3, <1>4, <1>5 DEF Next

\* The invariant holds of every run of the server.
THEOREM InvHolds == Spec => []Inv
BY InitInv, NextInv, PTL DEF Spec

\* A chunk is on its way to the file before it is sent back, and what the
\* children of all clients put into the one pipe stays whole and in order
\* (tcp_echo_store_server.c:63-98).
THEOREM StoredFirst == Spec => []LoggedFirst
<1>1. Inv => TypeOK
  BY DEF Inv, NetInv, ProcType, StoreType, OpenInv, TypeOK
<1>2. Inv => LoggedFirst
  BY <1>1 DEF Inv, LogInv, LoggedFirst
<1>. QED  BY <1>2, InvHolds, PTL

\* The storing server implements the echo service
\* (tcp_echo_store_server.c:69-105).
THEOREM StoringEcho == Spec => EchoSpec
<1>1. Init => Echo!SInit  BY InitRefines DEF Init
<1>2. Inv /\ [Next]_vars => [Echo!SNext]_(Echo!svars)
  BY NextInv DEF Refines
<1>. QED  BY <1>1, <1>2, InvHolds, PTL DEF Spec, EchoSpec, Echo!SSpec
=============================================================================

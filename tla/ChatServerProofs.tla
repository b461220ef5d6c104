-------------------------- MODULE ChatServerProofs --------------------------
(***************************************************************************)
(* Theorems about chat_server.c for any number of clients, descriptors and *)
(* messages, and for every interleaving, the race on the thread's argument *)
(* and failing calls included (Spec).                                      *)
(***************************************************************************)
EXTENDS ChatServer, FiniteSetTheorems, TLAPS

\* Types of the control state: the main thread, the globals and the threads.
CtlType ==
  /\ mpc \in {"wait", "register", "create"}
  /\ clntfd \in FdVals /\ nacc \in 0..MaxConns
  /\ clnt_fds \in [Cells -> FdVals] /\ fd_cnt \in Int
  /\ mutex \in Threads \cup {Free}
  /\ tpc \in [Threads -> TPcs] /\ tfd \in [Threads -> FdVals]
  /\ ti \in [Threads -> Nat]

\* Threads exist for accepted connections only, the last one once main has
\* finished with it.
Started ==
  /\ mpc # "wait" => nacc >= 1
  /\ \A t \in Threads : tpc[t] # "none" => t <= nacc /\ (t = nacc => mpc = "wait")

\* The slots in use were written, and main registers a real descriptor.
Filled ==
  /\ \A i \in Cells : i < fd_cnt => clnt_fds[i] # NoFd
  /\ mpc = "register" => clntfd \in Fds

CtlInv == CtlType /\ Started /\ CountExact /\ Filled /\ SlotsWritten /\ MutexHeld

-----------------------------------------------------------------------------
(* Counting. *)

LEMMA CountedFinite == IsFiniteSet(Counted) /\ Cardinality(Counted) \in Nat
<1>1. MaxConns \in Int  BY ChatAssumption
<1>2. IsFiniteSet(Threads)  BY <1>1, FS_Interval DEF Threads
<1>3. Counted \in SUBSET Threads  BY DEF Counted
<1>. QED  BY <1>2, <1>3, FS_Subset, FS_CardinalityType

\* The registry never holds more descriptors than connections were accepted,
\* so the slot main writes next is one of the cells.
LEMMA CountBound ==
  ASSUME CtlType, Started, CountExact
  PROVE  /\ fd_cnt \in Nat /\ fd_cnt <= nacc
         /\ mpc = "register" => fd_cnt < nacc
<1>1. nacc \in Int /\ nacc >= 0  BY ChatAssumption DEF CtlType
<1>2. DEFINE k == IF mpc = "wait" THEN nacc ELSE nacc - 1
<1>3. k \in Int /\ k >= 0  BY <1>1 DEF Started
<1>4. Counted \in SUBSET (1..k)
  BY <1>1 DEF Counted, Started, Threads, CtlType
<1>5. IsFiniteSet(1..k) /\ Cardinality(1..k) = k
  BY <1>3, FS_Interval
<1>6. Cardinality(Counted) <= Cardinality(1..k)
  BY <1>4, <1>5, FS_Subset, Zenon
<1>. QED  BY <1>1, <1>5, <1>6, CountedFinite DEF CountExact, CtlType

-----------------------------------------------------------------------------
(* The control invariant is inductive. *)

LEMMA CtlInit == Init => CtlInv
<1>. SUFFICES ASSUME Init PROVE CtlInv  OBVIOUS
<1>1. CtlType  BY ChatAssumption DEF Init, CtlType, FdVals, TPcs
<1>2. Counted = {}  BY DEF Init, Counted
<1>3. CountExact  BY <1>2, FS_EmptySet DEF Init, CountExact
<1>. QED
  BY <1>1, <1>3 DEF CtlInv, Init, Started, Filled, SlotsWritten, MutexHeld, Cells, Free, Threads

\* Steps that leave the control state alone.
LEMMA CtlFrame ==
  ASSUME CtlInv, UNCHANGED <<mainv, globals, threads>>
  PROVE  CtlInv'
<1>1. Counted' = Counted  BY DEF Counted, threads
<1>. QED
  BY <1>1 DEF CtlInv, CtlType, Started, CountExact, Filled, SlotsWritten, MutexHeld,
              mainv, globals, threads

\* Steps that only move a thread from one place outside the locked section to
\* another.
LEMMA CtlMove ==
  ASSUME CtlInv, NEW t \in Threads, NEW x \in TPcs,
         UNCHANGED <<mainv, globals>>,
         tpc' = [tpc EXCEPT ![t] = x],
         tpc[t] \notin {"none", "close", "done", "write"},
         x \notin {"none", "close", "done", "write", "lock"},
         tfd' \in [Threads -> FdVals], ti' \in [Threads -> Nat],
         \A u \in Threads : u # t => ti'[u] = ti[u]
  PROVE  CtlInv'
<1>1. Counted' = Counted  BY DEF Counted, CtlInv, CtlType
<1>2. CtlType' /\ Started' /\ Filled'
  BY DEF CtlInv, CtlType, Started, Filled, mainv, globals
<1>3. CountExact'  BY <1>1 DEF CtlInv, CountExact, mainv, globals
<1>4. SlotsWritten' /\ MutexHeld'
  BY DEF CtlInv, CtlType, SlotsWritten, MutexHeld, globals, Threads, Free
<1>. QED  BY <1>2, <1>3, <1>4 DEF CtlInv

LEMMA CtlMain ==
  ASSUME CtlInv, Main
  PROVE  CtlInv'
<1>. USE DEF CtlInv
<1>1. CASE AcceptOk
  <2>1. Counted' = Counted  BY <1>1 DEF AcceptOk, Counted, threads
  <2>2. clntfd' \in Fds  BY <1>1 DEF AcceptOk
  <2>3. nacc' = nacc + 1 /\ nacc' \in 0..MaxConns
    BY <1>1, ChatAssumption DEF AcceptOk, CtlType
  <2>4. CtlType'
    BY <1>1, <2>2, <2>3 DEF AcceptOk, CtlType, threads, globals, FdVals
  <2>5. Started'
    BY <1>1, <2>3, ChatAssumption DEF AcceptOk, Started, threads, CtlType, Threads
  <2>6. CountExact'  BY <1>1, <2>1 DEF AcceptOk, CountExact, globals
  <2>. QED
    BY <1>1, <2>2, <2>4, <2>5, <2>6
    DEF AcceptOk, Filled, SlotsWritten, MutexHeld, threads, globals
<1>2. CASE AcceptFail
  <2>1. Counted' = Counted  BY <1>2 DEF AcceptFail, Counted, threads
  <2>. QED
    BY <1>2, <2>1 DEF AcceptFail, CtlType, Started, CountExact, Filled, SlotsWritten,
      MutexHeld, threads, globals, FdVals
<1>3. CASE Register
  <2>1. Counted' = Counted  BY <1>3 DEF Register, Counted, threads
  <2>2. fd_cnt \in Cells
    BY <1>3, CountBound, ChatAssumption DEF Register, Cells, CtlType
  <2>3. clntfd # NoFd  BY <1>3 DEF Register, Filled, Fds, NoFd
  <2>4. CtlType'
    BY <1>3, <2>2 DEF Register, CtlType, threads
  <2>5. Started' /\ MutexHeld'
    BY <1>3 DEF Register, Started, MutexHeld, threads
  <2>6. CountExact'
    BY <1>3, <2>1, CountedFinite DEF Register, CountExact, CtlType
  <2>7. Filled'
    BY <1>3, <2>2, <2>3 DEF Register, Filled, CtlType, Cells
  <2>8. SlotsWritten'
    BY <1>3, <2>2, <2>3 DEF Register, SlotsWritten, CtlType, threads
  <2>. QED  BY <2>4, <2>5, <2>6, <2>7, <2>8
<1>4. ASSUME NEW x \in {"start", "lost"}, mpc = "create", mpc' = "wait",
             tpc' = [tpc EXCEPT ![nacc] = x],
             UNCHANGED <<clntfd, nacc, globals, tfd, ti>>
      PROVE  CtlInv'
  <2>1. nacc \in Threads /\ tpc[nacc] = "none"
    BY <1>4, ChatAssumption DEF Started, CtlType, Threads
  <2>2. Counted' = Counted \cup {nacc} /\ nacc \notin Counted
    BY <1>4, <2>1 DEF Counted, CtlType
  <2>3. Cardinality(Counted') = Cardinality(Counted) + 1
    BY <2>2, CountedFinite, FS_AddElement
  <2>4. CtlType' /\ Started'
    BY <1>4, <2>1 DEF CtlType, Started, globals, TPcs, Threads
  <2>5. CountExact'  BY <1>4, <2>3, CountedFinite DEF CountExact, globals
  <2>6. Filled'  BY <1>4 DEF Filled, globals
  <2>7. SlotsWritten' /\ MutexHeld'
    BY <1>4, <2>1 DEF SlotsWritten, MutexHeld, CtlType, globals, Threads, Free
  <2>. QED  BY <2>4, <2>5, <2>6, <2>7
<1>5. CASE CreateOk  BY <1>4, <1>5 DEF CreateOk
<1>6. CASE CreateFail  BY <1>4, <1>6 DEF CreateFail
<1>. QED  BY <1>1, <1>2, <1>3, <1>5, <1>6 DEF Main

LEMMA CtlThread ==
  ASSUME CtlInv, NEW t \in Threads, Thread(t)
  PROVE  CtlInv'
<1>. USE DEF CtlInv
<1>1. CASE Start(t)
  BY <1>1, CtlMove DEF Start, Step, CtlType, TPcs
<1>2. CASE ReadCall(t) \/ ReadEof(t)
  BY <1>2, CtlMove DEF ReadCall, ReadEof, Step, CtlType, TPcs, mainv, globals
<1>3. CASE ReadBadFd(t) \/ ReadData(t) \/ ReadErr(t)
  BY <1>3, CtlMove DEF ReadBadFd, ReadData, ReadErr, Step, CtlType, TPcs, mainv, globals
<1>4. CASE Remove(t)
  <2>1. /\ tpc[t] = "eof" /\ tpc' = [tpc EXCEPT ![t] = "close"]
        /\ clnt_fds' = Shifted(tfd[t]) /\ fd_cnt' = fd_cnt - 1
        /\ UNCHANGED <<mainv, mutex, tfd, ti>>
    BY <1>4 DEF Remove, Step
  <2>2. Counted' = Counted \ {t} /\ t \in Counted
    BY <2>1 DEF Counted, CtlType
  <2>3. CountExact'
    <3>1. Cardinality(Counted') = Cardinality(Counted) - 1
      BY <2>2, CountedFinite, FS_RemoveElement
    <3>. QED  BY <2>1, <3>1, CountedFinite DEF CountExact, mainv, CtlType
  <2>4. \A i \in Cells : /\ Shifted(tfd[t])[i] \in FdVals
                         /\ clnt_fds[i] # NoFd => Shifted(tfd[t])[i] # NoFd
                         /\ i < fd_cnt - 1 => Shifted(tfd[t])[i] # NoFd
    <3>1. \A i \in Cells : i < fd_cnt - 1 => i + 1 \in Cells /\ i + 1 < fd_cnt
      BY CountBound, ChatAssumption DEF Cells, CtlType
    <3>2. Cells \in SUBSET Int  BY ChatAssumption DEF Cells
    <3>3. TAKE i \in Cells
    <3>4. CASE i < fd_cnt - 1
      BY <3>1, <3>2, <3>4 DEF Shifted, Filled, CtlType
    <3>5. CASE ~(i < fd_cnt - 1)
      BY <3>2, <3>5 DEF Shifted, CtlType
    <3>. QED  BY <3>4, <3>5
  <2>5. CtlType'
    BY <2>1, <2>4 DEF CtlType, mainv, TPcs, Shifted
  <2>6. Started' /\ MutexHeld'
    BY <2>1 DEF Started, MutexHeld, mainv, CtlType
  <2>7. Filled'  BY <2>1, <2>4 DEF Filled, mainv, CtlType
  <2>8. SlotsWritten'
    BY <2>1, <2>4 DEF SlotsWritten, mainv, CtlType
  <2>. QED  BY <2>3, <2>5, <2>6, <2>7, <2>8
<1>5. CASE Close(t)
  <2>1. Counted' = Counted  BY <1>5 DEF Close, Step, Counted, CtlType
  <2>. QED
    BY <1>5, <2>1 DEF Close, Step, CtlType, Started, CountExact, Filled, SlotsWritten,
                      MutexHeld, mainv, globals, TPcs
<1>6. CASE LoopTest(t)
  <2>1. CASE ti[t] < fd_cnt
    <3>1. ti[t] \in Cells
      BY <2>1, CountBound, ChatAssumption DEF Cells, CtlType
    <3>2. tpc' = [tpc EXCEPT ![t] = "lock"] /\ UNCHANGED <<mainv, globals, tfd, ti>>
      BY <1>6, <2>1 DEF LoopTest
    <3>3. Counted' = Counted  BY <1>6, <3>2 DEF LoopTest, Counted, CtlType
    <3>. QED
      BY <1>6, <2>1, <3>1, <3>2, <3>3 DEF LoopTest, CtlType, Started, CountExact, Filled,
         SlotsWritten, MutexHeld, mainv, globals, TPcs
  <2>2. CASE ~(ti[t] < fd_cnt)
    BY <1>6, <2>2, CtlMove DEF LoopTest, CtlType, TPcs, mainv, globals
  <2>. QED  BY <2>1, <2>2
<1>7. CASE LockSelf(t)
  <2>1. ti' = [ti EXCEPT ![t] = @ + 1] /\ ti' \in [Threads -> Nat]
    BY <1>7 DEF LockSelf, NextSlot, CtlType
  <2>. QED
    BY <1>7, <2>1, CtlMove DEF LockSelf, Step, CtlType, TPcs, mainv, globals
<1>8. CASE LockOther(t)
  <2>1. Counted' = Counted  BY <1>8 DEF LockOther, Step, Counted, CtlType
  <2>. QED
    BY <1>8, <2>1 DEF LockOther, Step, CtlType, Started, CountExact, Filled, SlotsWritten,
                      MutexHeld, mainv, TPcs, Threads, Free
<1>9. CASE Write(t) \/ WriteBadFd(t)
  <2>1. /\ tpc[t] = "write" /\ tpc' = [tpc EXCEPT ![t] = "test"] /\ mutex' = Free
        /\ ti' = [ti EXCEPT ![t] = @ + 1]
        /\ UNCHANGED <<mainv, clnt_fds, fd_cnt, tfd>>
    BY <1>9 DEF Write, WriteBadFd, Step, NextSlot
  <2>2. Counted' = Counted  BY <2>1 DEF Counted, CtlType
  <2>3. CtlType' /\ Started' /\ CountExact' /\ Filled'
    BY <2>1, <2>2 DEF CtlType, Started, CountExact, Filled, mainv, TPcs
  <2>4. SlotsWritten' /\ MutexHeld'
    BY <2>1 DEF SlotsWritten, MutexHeld, CtlType, Threads, Free
  <2>. QED  BY <2>3, <2>4
<1>10. CASE WriteSigpipe(t)
  BY <1>10, CtlFrame DEF WriteSigpipe
<1>. QED
  BY <1>1, <1>2, <1>3, <1>4, <1>5, <1>6, <1>7, <1>8, <1>9, <1>10 DEF Thread

LEMMA CtlNext == CtlInv /\ [Next]_vars => CtlInv'
<1>. SUFFICES ASSUME CtlInv, [Next]_vars PROVE CtlInv'  OBVIOUS
<1>1. ASSUME NEW c \in Clients, Client(c) PROVE CtlInv'
  BY <1>1, CtlFrame DEF Client, Connect, Send, Quit, Kill, ClientRead
<1>2. CASE UNCHANGED vars  BY <1>2, CtlFrame DEF vars
<1>. QED  BY <1>1, <1>2, CtlMain, CtlThread DEF Next

THEOREM CtlSafe == Spec => []CtlInv
BY CtlInit, CtlNext, PTL DEF Spec

\* For any number of connections and any interleaving, fd_cnt is exactly the
\* number of threads that have not decremented it yet (chat_server.c:96, :139).
THEOREM CounterExact == Spec => []CountExact
BY CtlSafe, PTL DEF CtlInv

\* The stale index of the broadcast loop never names a slot that was not
\* written (chat_server.c:149-155).
THEOREM BroadcastSlots == Spec => []SlotsWritten
BY CtlSafe, PTL DEF CtlInv

\* The mutex excludes two broadcasts (chat_server.c:151-157).
THEOREM BroadcastExclusion == Spec => []MutexHeld
BY CtlSafe, PTL DEF CtlInv

-----------------------------------------------------------------------------
(* Types of the rest of the state: the network, the table of descriptors,  *)
(* the connections being read and the history.                             *)

NetType ==
  /\ peer \in [Clients -> PeerStates]
  /\ nsent \in [Clients -> Nat] /\ nread \in [Clients -> Nat]
  /\ outq \in [Clients -> Nat] /\ backlog \in Seq(Clients)
  /\ alive \in BOOLEAN /\ raced \in BOOLEAN

TableType ==
  /\ fdtab \in [Fds -> Clients \cup {NoConn}]
  /\ tconn \in [Threads -> Clients \cup {NoConn}]
  /\ copies \in [Threads -> [Clients -> 0..2]]
  /\ owed \in [Threads -> SUBSET Clients] /\ shifts \in [Threads -> Nat]

LEMMA TypeParts == TypeOK <=> CtlType /\ NetType /\ TableType
BY DEF TypeOK, CtlType, NetType, TableType

LEMMA PeerTypes ==
  ASSUME NEW p \in PeerStates
  PROVE  /\ \A u \in BOOLEAN : CloseBy(p, u) \in PeerStates
         /\ AfterWrite(p) \subseteq PeerStates
BY DEF PeerStates, CloseBy, AfterWrite

\* A valid descriptor names a client.
LEMMA ValidClient ==
  ASSUME TableType, NEW f, Valid(f)
  PROVE  fdtab[f] \in Clients
BY DEF TableType, Valid

LEMMA NetInit == Init => NetType /\ TableType
<1>. SUFFICES ASSUME Init PROVE NetType /\ TableType  OBVIOUS
<1>1. NetType
  <2>1. alive \in BOOLEAN /\ raced \in BOOLEAN  BY Zenon DEF Init
  <2>2. peer \in [Clients -> PeerStates]  BY DEF Init, PeerStates
  <2>. QED  BY <2>1, <2>2 DEF Init, NetType
<1>2. copies \in [Threads -> [Clients -> 0..2]]  BY DEF Init
<1>. QED  BY <1>1, <1>2 DEF Init, TableType

LEMMA NetClient ==
  ASSUME NetType, NEW c \in Clients, Client(c)
  PROVE  NetType'
<1>1. CASE Connect(c)
  BY <1>1 DEF Connect, NetType, PeerStates, mainv
<1>2. CASE Send(c)
  BY <1>2 DEF Send, NetType, mainv
<1>3. CASE Quit(c)
  BY <1>3 DEF Quit, NetType, PeerStates, mainv
<1>4. CASE Kill(c)
  <2>1. peer[c] \in PeerStates  BY DEF NetType
  <2>2. (outq[c] > 0) \in BOOLEAN  BY DEF NetType
  <2>3. CloseBy(peer[c], outq[c] > 0) \in PeerStates  BY <2>1, <2>2, PeerTypes, Zenon
  <2>. QED  BY <1>4, <2>3 DEF Kill, NetType, mainv
<1>5. CASE ClientRead(c)
  <2>1. outq' \in [Clients -> Nat]  BY <1>5 DEF ClientRead, NetType
  <2>. QED  BY <1>5, <2>1 DEF ClientRead, NetType, mainv
<1>. QED  BY <1>1, <1>2, <1>3, <1>4, <1>5 DEF Client

LEMMA NetServer ==
  ASSUME NetType, TableType, Main \/ \E t \in Threads : Thread(t)
  PROVE  NetType'
<1>1. CASE Main
  <2>1. CASE AcceptOk  BY <1>1, <2>1 DEF AcceptOk, Races, NetType
  <2>. QED
    BY <1>1, <2>1 DEF Main, AcceptFail, Register, CreateOk, CreateFail, Races, NetType, net
<1>2. ASSUME NEW t \in Threads, Thread(t) PROVE NetType'
  <2>1. CASE ReadData(t)
    <3>1. nread' = [nread EXCEPT ![tconn[t]] = @ + 1]  BY <2>1 DEF ReadData
    <3>2. \A c \in Clients : nread'[c] \in Nat
      BY <3>1 DEF NetType
    <3>3. nread' \in [Clients -> Nat]
      <4>1. nread' = [c \in Clients |-> nread'[c]]  BY <3>1 DEF NetType
      <4>. QED  BY <3>2, <4>1
    <3>. QED  BY <2>1, <3>3 DEF ReadData, NetType, mainv
  <2>2. CASE ReadErr(t)
    BY <2>2 DEF ReadErr, NetType, PeerStates, mainv
  <2>3. CASE Write(t)
    <3>1. Target(t) \in Clients
      BY <2>3, ValidClient DEF Write, Target
    <3>2. PICK p \in AfterWrite(peer[Target(t)]) : peer' = [peer EXCEPT ![Target(t)] = p]
      BY <2>3 DEF Write
    <3>3. p \in PeerStates  BY <3>1, <3>2, PeerTypes DEF NetType
    <3>4. outq' \in [Clients -> Nat]  BY <2>3, <3>1 DEF Write, NetType
    <3>. QED  BY <2>3, <3>2, <3>3, <3>4 DEF Write, NetType, mainv
  <2>4. CASE WriteSigpipe(t)
    BY <2>4 DEF WriteSigpipe, NetType, net, mainv
  <2>. QED
    BY <1>2, <2>1, <2>2, <2>3, <2>4
    DEF Thread, Start, ReadCall, ReadBadFd, ReadEof, Remove, Close, LoopTest, LockSelf,
        LockOther, WriteBadFd, NetType, net, mainv
<1>. QED  BY <1>1, <1>2

LEMMA TableServer ==
  ASSUME NetType, TableType, Main \/ \E t \in Threads : Thread(t)
  PROVE  TableType'
<1>1. CASE Main
  <2>1. CASE AcceptOk
    <3>1. Head(backlog) \in Clients
      BY <2>1 DEF AcceptOk, NetType
    <3>. QED  BY <2>1, <3>1 DEF AcceptOk, TableType, hist, threads
  <2>. QED
    BY <1>1, <2>1
    DEF Main, AcceptFail, Register, CreateOk, CreateFail, TableType, hist, threads
<1>2. ASSUME NEW t \in Threads, Thread(t) PROVE TableType'
  <2>1. CASE ReadCall(t)
    BY <2>1, ValidClient DEF ReadCall, TableType, hist
  <2>2. CASE ReadData(t)
    <3>1. Registered \subseteq Clients  BY ValidClient DEF Registered
    <3>2. [d \in Clients |-> 0] \in [Clients -> 0..2]  OBVIOUS
    <3>3. copies' \in [Threads -> [Clients -> 0..2]]
      BY <2>2, <3>2 DEF ReadData, TableType
    <3>. QED  BY <2>2, <3>1, <3>3 DEF ReadData, TableType
  <2>3. CASE Remove(t)
    BY <2>3 DEF Remove, Sending, TableType
  <2>4. CASE Close(t)
    BY <2>4 DEF Close, TableType, Valid, hist
  <2>5. CASE Write(t)
    <3>1. Target(t) \in Clients
      BY <2>5, ValidClient DEF Write, Target
    <3>2. copies[t] \in [Clients -> 0..2]  BY DEF TableType
    <3>3. DEFINE n == copies[t][Target(t)]
                 m == IF n < 2 THEN n + 1 ELSE n
    <3>4. n \in 0..2 /\ m \in 0..2  BY <3>1, <3>2
    <3>5. copies' = [copies EXCEPT ![t] = [copies[t] EXCEPT ![Target(t)] = m]]
      BY <2>5 DEF Write
    <3>6. [copies[t] EXCEPT ![Target(t)] = m] \in [Clients -> 0..2]
      BY <3>2, <3>4
    <3>. HIDE DEF n, m
    <3>7. copies' \in [Threads -> [Clients -> 0..2]]
      BY <3>5, <3>6 DEF TableType
    <3>. QED  BY <2>5, <3>7 DEF Write, TableType
  <2>. QED
    BY <1>2, <2>1, <2>2, <2>3, <2>4, <2>5
    DEF Thread, Start, ReadBadFd, ReadEof, ReadErr, LoopTest, LockSelf, LockOther,
        WriteBadFd, WriteSigpipe, TableType, hist, threads
<1>. QED  BY <1>1, <1>2

LEMMA TypeNext == TypeOK /\ CtlInv /\ [Next]_vars => TypeOK'
<1>. SUFFICES ASSUME NetType, TableType, CtlInv, [Next]_vars PROVE NetType' /\ TableType'
  BY CtlNext, TypeParts, PTL DEF CtlInv
<1>1. CASE UNCHANGED vars
  BY <1>1 DEF vars, net, mainv, threads, hist, NetType, TableType
<1>2. ASSUME NEW c \in Clients, Client(c) PROVE NetType' /\ TableType'
  <2>1. TableType'
    BY <1>2 DEF Client, Connect, Send, Quit, Kill, ClientRead, TableType, hist, threads
  <2>. QED  BY <1>2, <2>1, NetClient
<1>. QED  BY <1>1, <1>2, NetServer, TableServer DEF Next

\* Type correctness: with it, that no step reads a slot outside the cells
\* when it shifts the array (chat_server.c:133).
THEOREM TypeSafe == Spec => []TypeOK
<1>1. Init => TypeOK  BY CtlInit, NetInit, TypeParts DEF CtlInv
<1>. QED  BY <1>1, TypeNext, CtlSafe, PTL DEF Spec

-----------------------------------------------------------------------------
(***************************************************************************)
(* The registry.  As long as no thread's argument was overwritten,         *)
(* clnt_fds holds exactly the open connections, each with a thread of its  *)
(* own, in whatever order connections come, fail to get a thread, and      *)
(* leave.                                                                  *)
(***************************************************************************)
\* The threads at work, and the descriptor each works on: the argument of one
\* that has not started is still in main's local.
Live    == {t \in Threads : tpc[t] \notin {"none", "lost", "close", "done"}}
Closing == {t \in Threads : tpc[t] = "close"}
FdOf(t) == IF tpc[t] = "start" THEN clntfd ELSE tfd[t]

Slots == 0..(fd_cnt - 1)
OpenFds == {f \in Fds : fdtab[f] # NoConn}

\* No descriptor is registered twice, and what is registered is open.
Distinct ==
  /\ \A i, j \in Slots : clnt_fds[i] = clnt_fds[j] => i = j
  /\ InRegistry \subseteq OpenFds

\* Every thread at work has a slot, one that closes has none any more, and no
\* two have the same descriptor.
Owners ==
  /\ \A t \in Live : FdOf(t) \in InRegistry
  /\ \A t \in Closing : tfd[t] \in OpenFds \ InRegistry
  /\ \A t, u \in Live \cup Closing : FdOf(t) = FdOf(u) => t = u

\* What main has accepted is not yet registered or, between lines 97 and 99,
\* registered and nobody's.
Pending ==
  /\ mpc # "wait" => \A t \in Threads : tpc[t] # "start"
  /\ mpc = "register" => clntfd \in OpenFds \ (InRegistry \cup ClosingFds)
  /\ mpc = "create" => clntfd \in InRegistry /\ \A t \in Live \cup Closing : FdOf(t) # clntfd

\* Nothing else is open.
NoLeak == OpenFds \subseteq
  InRegistry \cup ClosingFds \cup (IF mpc = "register" THEN {clntfd} ELSE {})

Sound == Distinct /\ Owners /\ Pending /\ NoLeak
RegInv == ~raced => Sound
-----------------------------------------------------------------------------
(* Finite sets. *)

LEMMA SameCount ==
  ASSUME NEW S, NEW T, IsFiniteSet(S), NEW f \in [S -> T],
         \A x, y \in S : f[x] = f[y] => x = y,
         \A y \in T : \E x \in S : f[x] = y
  PROVE  IsFiniteSet(T) /\ Cardinality(T) = Cardinality(S)
<1>1. f \in Bijection(S, T)
  BY DEF Bijection, Injection, Surjection, IsInjective
<1>. QED  BY <1>1, FS_Bijection DEF ExistsBijection

LEMMA DisjointCount ==
  ASSUME NEW S, NEW T, IsFiniteSet(S), IsFiniteSet(T), S \cap T = {}
  PROVE  /\ Cardinality(S \cup T) = Cardinality(S) + Cardinality(T)
         /\ Cardinality(S) \in Nat /\ Cardinality(T) \in Nat
<1>1. Cardinality(S \cap T) = 0  BY FS_EmptySet
<1>2. Cardinality(S) \in Nat  BY FS_CardinalityType
<1>3. Cardinality(T) \in Nat  BY FS_CardinalityType
<1>4. Cardinality(S \cup T) = Cardinality(S) + Cardinality(T) - Cardinality(S \cap T)
  BY FS_Union
<1>. QED  BY <1>1, <1>2, <1>3, <1>4

-----------------------------------------------------------------------------
(* Steps. *)

\* The slots in use are cells of the array.
LEMMA SlotCells ==
  ASSUME CtlInv
  PROVE  fd_cnt \in Nat /\ Slots \subseteq Cells
BY CountBound, ChatAssumption DEF CtlInv, CtlType, Slots, Cells

LEMMA RegInit == Init => RegInv
BY DEF Init, RegInv, Sound, Distinct, Owners, Pending, NoLeak, Live, Closing, Slots, OpenFds,
       InRegistry, ClosingFds

\* Steps that leave the table, the registry and main alone, and every thread
\* with the descriptor it works on.
LEMMA RegFrame ==
  ASSUME Sound, UNCHANGED <<fdtab, clnt_fds, fd_cnt, mpc>>,
         mpc # "wait" => clntfd' = clntfd,
         Live' = Live, Closing' = Closing, \A t \in Closing : tfd'[t] = tfd[t],
         \A t \in Threads : tpc'[t] = "start" => tpc[t] = "start",
         \A t \in Live \cup Closing : FdOf(t)' = FdOf(t)
  PROVE  Sound'
<1>1. InRegistry' = InRegistry /\ OpenFds' = OpenFds /\ Slots' = Slots
  BY DEF InRegistry, OpenFds, Slots
<1>2. ClosingFds' = ClosingFds
  <2>1. ClosingFds = {tfd[t] : t \in Closing}  BY DEF ClosingFds, Closing
  <2>2. ClosingFds' = {tfd'[t] : t \in Closing'}  BY DEF ClosingFds, Closing
  <2>. QED  BY <2>1, <2>2
<1>3. Distinct'  BY <1>1 DEF Sound, Distinct
<1>4. Owners'  BY <1>1 DEF Sound, Owners
<1>5. Pending'  BY <1>1, <1>2 DEF Sound, Pending
<1>6. NoLeak'  BY <1>1, <1>2 DEF Sound, NoLeak
<1>. QED  BY <1>3, <1>4, <1>5, <1>6 DEF Sound

\* accept(): as long as no thread has yet to read main's local.
LEMMA RegAccept ==
  ASSUME TypeOK, CtlInv, Sound, ~raced', AcceptOk \/ AcceptFail
  PROVE  Sound'
<1>1. \A t \in Threads : tpc[t] # "start"
  <2>1. SUFFICES ASSUME NEW t \in Threads, tpc[t] = "start" PROVE FALSE
    OBVIOUS
  <2>2. clntfd \in OpenFds
    BY <2>1 DEF Sound, Owners, Distinct, Live, FdOf
  <2>3. clntfd' # clntfd
    <3>1. CASE AcceptOk
      BY <2>2, <3>1 DEF AcceptOk, LowestFree, OpenFds
    <3>2. CASE AcceptFail
      BY <2>2, <3>2, ChatAssumption DEF AcceptFail, OpenFds, Fds, BadFd
    <3>. QED  BY <3>1, <3>2
  <2>. QED  BY <2>1, <2>3 DEF AcceptOk, AcceptFail, Races
<1>2. /\ Live' = Live /\ Closing' = Closing /\ ClosingFds' = ClosingFds
      /\ InRegistry' = InRegistry /\ Slots' = Slots
      /\ \A t \in Live \cup Closing : FdOf(t)' = FdOf(t)
  BY <1>1 DEF AcceptOk, AcceptFail, Live, Closing, ClosingFds, InRegistry, Slots, FdOf,
              globals, threads
<1>3. CASE AcceptFail
  BY <1>1, <1>2, <1>3, RegFrame DEF AcceptFail, globals, threads
<1>4. CASE AcceptOk
  <2>1. PICK f \in Fds : /\ fdtab[f] = NoConn /\ clntfd' = f
                         /\ fdtab' = [fdtab EXCEPT ![f] = Head(backlog)]
    BY <1>4 DEF AcceptOk, LowestFree
  <2>2. OpenFds' = OpenFds \cup {f} /\ f \notin OpenFds
    <3>1. Head(backlog) # NoConn
      BY <1>4, ChatAssumption DEF AcceptOk, TypeOK
    <3>2. fdtab \in [Fds -> Clients \cup {NoConn}]  BY DEF TypeOK
    <3>. QED  BY <2>1, <3>1, <3>2 DEF OpenFds
  <2>3. f \notin InRegistry \cup ClosingFds
    BY <2>2 DEF Sound, Distinct, Owners, ClosingFds, Closing
  <2>4. /\ mpc = "wait" /\ mpc' = "register" /\ UNCHANGED <<clnt_fds, fd_cnt, tfd, tpc>>
    BY <1>4 DEF AcceptOk, globals, threads
  <2>5. Distinct'  BY <1>2, <2>2, <2>4 DEF Sound, Distinct
  <2>6. Owners'  BY <1>2, <2>2, <2>4 DEF Sound, Owners
  <2>7. Pending'  BY <1>1, <1>2, <2>1, <2>2, <2>3, <2>4 DEF Pending
  <2>8. NoLeak'  BY <1>2, <2>1, <2>2, <2>4 DEF Sound, NoLeak
  <2>. QED  BY <2>5, <2>6, <2>7, <2>8 DEF Sound
<1>. QED  BY <1>3, <1>4

LEMMA RegRegister ==
  ASSUME TypeOK, CtlInv, Sound, Register
  PROVE  Sound'
<1>1. /\ mpc = "register" /\ mpc' = "create"
      /\ clnt_fds' = [clnt_fds EXCEPT ![fd_cnt] = clntfd] /\ fd_cnt' = fd_cnt + 1
      /\ UNCHANGED <<fdtab, clntfd, tpc, tfd>>
  BY DEF Register, threads
<1>2. fd_cnt \in Nat /\ fd_cnt \in Cells /\ Slots \subseteq Cells
  BY <1>1, CountBound, SlotCells, ChatAssumption DEF CtlInv, CtlType, Cells
<1>3. /\ Slots' = Slots \cup {fd_cnt} /\ fd_cnt \notin Slots
      /\ clnt_fds'[fd_cnt] = clntfd
      /\ \A i \in Slots : clnt_fds'[i] = clnt_fds[i]
  BY <1>1, <1>2 DEF Slots, TypeOK
<1>4. InRegistry = {clnt_fds[i] : i \in Slots} /\ InRegistry' = {clnt_fds'[i] : i \in Slots'}
  BY DEF InRegistry, Slots
<1>5. InRegistry' = InRegistry \cup {clntfd}
  BY <1>3, <1>4
<1>6. clntfd \in OpenFds /\ clntfd \notin InRegistry /\ clntfd \notin ClosingFds
  BY <1>1 DEF Sound, Pending
<1>7. /\ Live' = Live /\ Closing' = Closing /\ ClosingFds' = ClosingFds
      /\ OpenFds' = OpenFds
      /\ \A t \in Live \cup Closing : FdOf(t)' = FdOf(t)
  BY <1>1 DEF Live, Closing, ClosingFds, OpenFds, FdOf
<1>8. Distinct'
  <2>1. \A i \in Slots : clnt_fds[i] \in InRegistry  BY <1>4
  <2>2. \A i, j \in Slots' : clnt_fds'[i] = clnt_fds'[j] => i = j
    BY <1>3, <1>6, <2>1 DEF Sound, Distinct
  <2>3. InRegistry' \subseteq OpenFds'  BY <1>5, <1>6, <1>7 DEF Sound, Distinct
  <2>. QED  BY <2>2, <2>3 DEF Distinct
<1>9. \A t \in Closing : tfd[t] \in ClosingFds  BY DEF Closing, ClosingFds
<1>10. \A t \in Live \cup Closing : FdOf(t) # clntfd
  BY <1>6, <1>9 DEF Sound, Owners, Closing, FdOf
<1>11. Owners'
  <2>1. \A t \in Live : FdOf(t) \in InRegistry'  BY <1>5 DEF Sound, Owners
  <2>2. \A t \in Closing : tfd[t] \in OpenFds \ InRegistry'
    BY <1>5, <1>6, <1>9 DEF Sound, Owners
  <2>. QED  BY <1>1, <1>7, <2>1, <2>2 DEF Sound, Owners
<1>12. Pending'
  BY <1>1, <1>5, <1>7, <1>10 DEF Sound, Pending
<1>13. NoLeak'  BY <1>1, <1>5, <1>7 DEF Sound, NoLeak
<1>. QED  BY <1>8, <1>11, <1>12, <1>13 DEF Sound

LEMMA RegCreate ==
  ASSUME TypeOK, CtlInv, Sound, CreateOk \/ CreateFail
  PROVE  Sound'
<1>1. PICK x \in {"start", "lost"} : tpc' = [tpc EXCEPT ![nacc] = x]
  BY DEF CreateOk, CreateFail
<1>2. /\ mpc = "create" /\ mpc' = "wait"
      /\ UNCHANGED <<fdtab, clntfd, nacc, clnt_fds, fd_cnt, tfd>>
  BY DEF CreateOk, CreateFail, globals
<1>3. PICK n \in Threads : n = nacc /\ tpc[n] = "none"
  BY <1>2, ChatAssumption DEF CtlInv, Started, CtlType, Threads
<1>4. \A t \in Threads : tpc'[t] = IF t = n THEN x ELSE tpc[t]
  BY <1>1, <1>3 DEF TypeOK
<1>5. Live' = (IF x = "start" THEN Live \cup {n} ELSE Live) /\ Closing' = Closing
  BY <1>3, <1>4 DEF Live, Closing
<1>6. InRegistry' = InRegistry /\ OpenFds' = OpenFds /\ Slots' = Slots /\ ClosingFds' = ClosingFds
  BY <1>2, <1>5 DEF InRegistry, OpenFds, Slots, ClosingFds, Closing
<1>7. n \notin Live \cup Closing  BY <1>3 DEF Live, Closing
<1>8. \A t \in Live \cup Closing : FdOf(t)' = FdOf(t)
  BY <1>2, <1>4, <1>7 DEF FdOf, Live, Closing
<1>9. x = "start" => FdOf(n)' = clntfd
  BY <1>2, <1>3, <1>4 DEF FdOf
<1>10. clntfd \in InRegistry /\ \A t \in Live \cup Closing : FdOf(t) # clntfd
  BY <1>2 DEF Sound, Pending
<1>11. Distinct'  BY <1>2, <1>6 DEF Sound, Distinct
<1>12. Owners'
  <2>1. \A t \in Live' : FdOf(t)' \in InRegistry'
    BY <1>5, <1>6, <1>8, <1>9, <1>10 DEF Sound, Owners
  <2>2. \A t \in Closing' : tfd'[t] \in OpenFds' \ InRegistry'
    BY <1>2, <1>5, <1>6 DEF Sound, Owners
  <2>3. \A t, u \in Live' \cup Closing' : FdOf(t)' = FdOf(u)' => t = u
    BY <1>5, <1>8, <1>9, <1>10 DEF Sound, Owners
  <2>. QED  BY <2>1, <2>2, <2>3 DEF Owners
<1>13. Pending'  BY <1>2 DEF Pending
<1>14. NoLeak'  BY <1>2, <1>6 DEF Sound, NoLeak
<1>. QED  BY <1>11, <1>12, <1>13, <1>14 DEF Sound

\* The shift closes the gap of the one slot that held the descriptor.
LEMMA ShiftSlots ==
  ASSUME CtlInv, Distinct, NEW k \in Slots
  PROVE  \A i \in 0..(fd_cnt - 2) :
           /\ Shifted(clnt_fds[k])[i] = clnt_fds[IF k <= i THEN i + 1 ELSE i]
           /\ i \in Slots /\ i + 1 \in Slots
<1>1. fd_cnt \in Nat /\ Slots \subseteq Cells /\ k \in Nat  BY SlotCells DEF Slots
<1>2. TAKE i \in 0..(fd_cnt - 2)
<1>3. i \in Slots /\ i + 1 \in Slots /\ i \in Cells /\ i < fd_cnt - 1 /\ i \in Nat
  BY <1>1 DEF Slots
<1>4. (\E j \in 0..i : clnt_fds[j] = clnt_fds[k]) <=> k <= i
  <2>1. \A j \in 0..i : j \in Slots  BY <1>1, <1>3 DEF Slots
  <2>2. \A j \in 0..i : clnt_fds[j] = clnt_fds[k] => j = k  BY <2>1 DEF Distinct
  <2>3. k <= i => k \in 0..i  BY <1>1, <1>3
  <2>4. k \in 0..i => k <= i  BY <1>3
  <2>. QED  BY <2>2, <2>3, <2>4, Zenon
<1>5. Shifted(clnt_fds[k])[i] =
        IF i < fd_cnt - 1 /\ \E j \in 0..i : clnt_fds[j] = clnt_fds[k]
        THEN clnt_fds[i + 1] ELSE clnt_fds[i]
  BY <1>3, Zenon DEF Shifted
<1>. QED  BY <1>3, <1>4, <1>5

LEMMA RegRemove ==
  ASSUME TypeOK, CtlInv, Sound, NEW t \in Threads, Remove(t)
  PROVE  Sound'
<1>. DEFINE fd == tfd[t]
<1>1. /\ tpc[t] = "eof" /\ tpc' = [tpc EXCEPT ![t] = "close"]
      /\ clnt_fds' = Shifted(fd) /\ fd_cnt' = fd_cnt - 1
      /\ UNCHANGED <<fdtab, mpc, clntfd, tfd>>
  BY DEF Remove, Step, mainv
<1>2. t \in Live /\ FdOf(t) = fd /\ t \notin Closing
  BY <1>1 DEF Live, FdOf, Closing
<1>3. Live' = Live \ {t} /\ Closing' = Closing \cup {t}
  BY <1>1 DEF Live, Closing, TypeOK
<1>4. \A u \in Live \cup Closing : FdOf(u)' = FdOf(u)
  BY <1>1 DEF FdOf, TypeOK, Live, Closing
<1>5. OpenFds' = OpenFds  BY <1>1 DEF OpenFds
<1>6. ClosingFds' = ClosingFds \cup {fd}
  BY <1>1, <1>3 DEF ClosingFds, Closing
<1>7. fd \in InRegistry /\ fd \in OpenFds  BY <1>2 DEF Sound, Owners, Distinct
<1>8. PICK k \in Slots : clnt_fds[k] = fd  BY <1>7 DEF InRegistry, Slots
<1>9. /\ fd_cnt \in Nat /\ k \in Nat /\ Slots' = 0..(fd_cnt - 2)
      /\ \A i : i \in Slots <=> i \in Nat /\ i < fd_cnt
      /\ \A i : i \in Slots' <=> i \in Nat /\ i < fd_cnt - 1
  BY <1>1, SlotCells DEF Slots
<1>. DEFINE from(i) == IF k <= i THEN i + 1 ELSE i
<1>10. \A i \in Slots' : clnt_fds'[i] = clnt_fds[from(i)] /\ from(i) \in Slots \ {k}
  <2>1. \A i \in Slots' : clnt_fds'[i] = clnt_fds[from(i)] /\ i \in Slots /\ i + 1 \in Slots
    BY <1>1, <1>8, <1>9, ShiftSlots DEF Sound
  <2>2. \A i \in Slots' : i \in Nat  BY <1>9
  <2>. QED  BY <2>1, <2>2, <1>9
<1>11. \A i, j \in Slots' : from(i) = from(j) => i = j
  BY <1>9
<1>12. \A i \in Slots \ {k} : \E j \in Slots' : from(j) = i
  <2>1. TAKE i \in Slots \ {k}
  <2>2. CASE i < k
    <3>1. i \in Slots' /\ from(i) = i  BY <1>9, <2>2
    <3>. QED  BY <3>1
  <2>3. CASE ~(i < k)
    <3>1. i - 1 \in Slots' /\ from(i - 1) = i  BY <1>9, <2>3
    <3>. QED  BY <3>1
  <2>. QED  BY <2>2, <2>3
<1>13. InRegistry = {clnt_fds[i] : i \in Slots} /\ InRegistry' = {clnt_fds'[i] : i \in Slots'}
  BY DEF InRegistry, Slots
<1>. HIDE DEF from, fd
<1>14. InRegistry' = InRegistry \ {fd}
  <2>1. \A i \in Slots \ {k} : clnt_fds[i] # fd  BY <1>8 DEF Sound, Distinct
  <2>2. InRegistry' \subseteq InRegistry \ {fd}  BY <1>10, <1>13, <2>1
  <2>3. InRegistry \ {fd} \subseteq InRegistry'
    <3>1. SUFFICES ASSUME NEW i \in Slots, clnt_fds[i] # fd PROVE clnt_fds[i] \in InRegistry'
      BY <1>13
    <3>2. PICK j \in Slots' : from(j) = i  BY <1>8, <1>12, <3>1
    <3>. QED  BY <1>10, <1>13, <3>2
  <2>. QED  BY <2>2, <2>3
<1>15. Distinct'
  <2>1. \A i, j \in Slots' : clnt_fds'[i] = clnt_fds'[j] => i = j
    BY <1>10, <1>11 DEF Sound, Distinct
  <2>2. InRegistry' \subseteq OpenFds'  BY <1>5, <1>14 DEF Sound, Distinct
  <2>. QED  BY <2>1, <2>2 DEF Distinct
<1>16. Owners'
  <2>1. \A u \in Live' : FdOf(u)' \in InRegistry'
    BY <1>2, <1>3, <1>4, <1>14 DEF Sound, Owners
  <2>2. \A u \in Closing' : tfd'[u] \in OpenFds' \ InRegistry'
    BY <1>1, <1>3, <1>5, <1>7, <1>14 DEF Sound, Owners, fd
  <2>3. \A u, v \in Live' \cup Closing' : FdOf(u)' = FdOf(v)' => u = v
    BY <1>2, <1>3, <1>4 DEF Sound, Owners
  <2>. QED  BY <2>1, <2>2, <2>3 DEF Owners
<1>17. Pending'
  <2>1. \A u \in Threads : tpc'[u] = "start" => tpc[u] = "start"  BY <1>1 DEF TypeOK
  <2>2. mpc = "register" => clntfd # fd  BY <1>7 DEF Sound, Pending
  <2>3. mpc = "create" => clntfd # fd  BY <1>2 DEF Sound, Pending
  <2>4. Live' \cup Closing' = Live \cup Closing  BY <1>2, <1>3
  <2>. QED
    BY <1>1, <1>4, <1>5, <1>6, <1>14, <2>1, <2>2, <2>3, <2>4 DEF Sound, Pending
<1>18. NoLeak'  BY <1>1, <1>5, <1>6, <1>14 DEF Sound, NoLeak
<1>. QED  BY <1>15, <1>16, <1>17, <1>18 DEF Sound

LEMMA RegClose ==
  ASSUME TypeOK, CtlInv, Sound, NEW t \in Threads, Close(t)
  PROVE  Sound'
<1>1. /\ tpc[t] = "close" /\ tpc' = [tpc EXCEPT ![t] = "done"]
      /\ UNCHANGED <<clnt_fds, fd_cnt, mpc, clntfd, tfd>>
      /\ fdtab' = IF Valid(tfd[t]) THEN [fdtab EXCEPT ![tfd[t]] = NoConn] ELSE fdtab
  BY DEF Close, Step, mainv, globals
<1>2. t \in Closing /\ t \notin Live /\ FdOf(t) = tfd[t]
  BY <1>1 DEF Closing, Live, FdOf
<1>3. tfd[t] \in OpenFds \ InRegistry  BY <1>2 DEF Sound, Owners
<1>4. OpenFds' = OpenFds \ {tfd[t]}
  BY <1>1, <1>3 DEF OpenFds, Valid, TypeOK
<1>5. Live' = Live /\ Closing' = Closing \ {t}
  BY <1>1 DEF Live, Closing, TypeOK
<1>6. \A u \in Live \cup Closing : u # t => FdOf(u)' = FdOf(u) /\ FdOf(u) # tfd[t]
  BY <1>1, <1>2 DEF FdOf, TypeOK, Live, Closing, Sound, Owners
<1>7. \A u \in Closing : FdOf(u) = tfd[u]  BY DEF Closing, FdOf
<1>8. ClosingFds = {tfd[u] : u \in Closing} /\ ClosingFds' = {tfd[u] : u \in Closing'}
  BY <1>1 DEF ClosingFds, Closing
<1>9. ClosingFds' = ClosingFds \ {tfd[t]}
  BY <1>5, <1>6, <1>7, <1>8
<1>10. InRegistry' = InRegistry /\ Slots' = Slots  BY <1>1 DEF InRegistry, Slots
<1>11. Distinct'  BY <1>1, <1>3, <1>4, <1>10 DEF Sound, Distinct
<1>12. Owners'
  <2>1. \A u \in Live' : FdOf(u)' \in InRegistry'
    BY <1>2, <1>5, <1>6, <1>10 DEF Sound, Owners
  <2>2. \A u \in Closing' : tfd'[u] \in OpenFds' \ InRegistry'
    BY <1>1, <1>4, <1>5, <1>6, <1>7, <1>10 DEF Sound, Owners
  <2>3. \A u, v \in Live' \cup Closing' : FdOf(u)' = FdOf(v)' => u = v
    BY <1>2, <1>5, <1>6 DEF Sound, Owners
  <2>. QED  BY <2>1, <2>2, <2>3 DEF Owners
<1>13. Pending'
  <2>1. \A u \in Threads : tpc'[u] = "start" => tpc[u] = "start"  BY <1>1 DEF TypeOK
  <2>2. tfd[t] \in ClosingFds  BY <1>2, <1>8
  <2>3. mpc = "register" => clntfd # tfd[t]  BY <2>2 DEF Sound, Pending
  <2>. QED
    BY <1>1, <1>2, <1>4, <1>5, <1>6, <1>9, <1>10, <2>1, <2>3 DEF Sound, Pending
<1>14. NoLeak'
  BY <1>1, <1>4, <1>9, <1>10 DEF Sound, NoLeak
<1>. QED  BY <1>11, <1>12, <1>13, <1>14 DEF Sound

\* All other steps of a thread.
LEMMA RegMove ==
  ASSUME TypeOK, CtlInv, Sound, NEW t \in Threads, Thread(t), ~Remove(t), ~Close(t)
  PROVE  Sound'
<1>1. UNCHANGED <<fdtab, clnt_fds, fd_cnt, clntfd, mpc>>
  BY DEF Thread, Start, ReadCall, ReadBadFd, ReadData, ReadEof, ReadErr, LoopTest, LockSelf,
         LockOther, Write, WriteBadFd, WriteSigpipe, mainv, globals
<1>2. CASE Start(t)
  <2>1. Live' = Live /\ Closing' = Closing
    BY <1>2 DEF Start, Step, Live, Closing, TypeOK
  <2>2. \A u \in Threads : tpc'[u] = "start" => tpc[u] = "start"
    BY <1>2 DEF Start, Step, TypeOK
  <2>3. \A u \in Live \cup Closing : FdOf(u)' = FdOf(u)
    BY <1>1, <1>2 DEF Start, Step, Live, Closing, FdOf, TypeOK
  <2>5. \A u \in Closing : tfd'[u] = tfd[u]
    BY <1>2 DEF Start, Step, Closing, TypeOK
  <2>. QED  BY <1>1, <2>1, <2>2, <2>3, <2>5, RegFrame
<1>3. CASE ~Start(t)
  <2>1. PICK x \in {"read", "blocked", "eof", "test", "lock", "write"} :
          /\ tpc' = [tpc EXCEPT ![t] = x]
          /\ tpc[t] \in {"read", "blocked", "test", "lock", "write"}
          /\ tfd' = tfd
    BY <1>3 DEF Thread, ReadCall, ReadBadFd, ReadData, ReadEof, ReadErr, LoopTest, LockSelf,
         LockOther, Write, WriteBadFd, WriteSigpipe, Step, threads, TypeOK
  <2>2. Live' = Live /\ Closing' = Closing
    BY <2>1 DEF Live, Closing, TypeOK
  <2>3. \A u \in Threads : tpc'[u] = "start" <=> tpc[u] = "start"
    BY <2>1 DEF TypeOK
  <2>4. \A u \in Live \cup Closing : FdOf(u)' = FdOf(u)
    BY <1>1, <2>1, <2>3 DEF FdOf, Live, Closing
  <2>. QED  BY <1>1, <2>1, <2>2, <2>3, <2>4, RegFrame
<1>. QED  BY <1>2, <1>3

LEMMA RegNext == TypeOK /\ CtlInv /\ RegInv /\ [Next]_vars => RegInv'
<1>. SUFFICES ASSUME TypeOK, CtlInv, RegInv, [Next]_vars, ~raced' PROVE Sound'
  BY DEF RegInv
<1>1. UNCHANGED <<fdtab, clnt_fds, fd_cnt, clntfd, mpc, tfd, tpc>> /\ Sound => Sound'
  BY RegFrame DEF Live, Closing, FdOf
<1>2. CASE UNCHANGED vars
  BY <1>1, <1>2 DEF vars, mainv, globals, threads, RegInv
<1>3. ASSUME NEW c \in Clients, Client(c) PROVE Sound'
  BY <1>1, <1>3 DEF Client, Connect, Send, Quit, Kill, ClientRead, mainv, globals, threads,
     RegInv
<1>4. CASE Main
  <2>1. ~raced
    BY <1>4 DEF Main, AcceptOk, AcceptFail, Register, CreateOk, CreateFail, Races
  <2>. QED
    BY <1>4, <2>1, RegAccept, RegRegister, RegCreate DEF Main, RegInv
<1>5. ASSUME NEW t \in Threads, Thread(t) PROVE Sound'
  <2>1. ~raced
    BY <1>5 DEF Thread, Start, ReadCall, ReadBadFd, ReadData, ReadEof, ReadErr, LoopTest,
       LockSelf, LockOther, Write, WriteBadFd, WriteSigpipe, Remove, Close, mainv
  <2>. QED  BY <1>5, <2>1, RegRemove, RegClose, RegMove DEF RegInv
<1>. QED  BY <1>2, <1>3, <1>4, <1>5 DEF Next

LEMMA RegSafe == Spec => []RegInv
BY RegInit, RegNext, CtlSafe, TypeSafe, PTL DEF Spec

-----------------------------------------------------------------------------
(* What the invariant says of the registry and of the threads. *)

\* As many descriptors as slots in use.
LEMMA RegistrySize ==
  ASSUME CtlInv, Distinct
  PROVE  IsFiniteSet(InRegistry) /\ Cardinality(InRegistry) = fd_cnt
<1>1. fd_cnt \in Nat  BY SlotCells
<1>. DEFINE f == [i \in 1..fd_cnt |-> clnt_fds[i - 1]]
<1>2. \A i \in 1..fd_cnt : i - 1 \in Slots  BY <1>1 DEF Slots
<1>3. \A i \in Slots : i + 1 \in 1..fd_cnt /\ (i + 1) - 1 = i  BY <1>1 DEF Slots
<1>4. InRegistry = {clnt_fds[i] : i \in Slots}  BY DEF InRegistry, Slots
<1>5. f \in [1..fd_cnt -> InRegistry]  BY <1>2, <1>4
<1>6. \A x, y \in 1..fd_cnt : f[x] = f[y] => x = y
  <2>1. \A x, y \in 1..fd_cnt : f[x] = f[y] => x - 1 = y - 1
    BY <1>2 DEF Distinct
  <2>. QED  BY <1>1, <2>1
<1>7. \A y \in InRegistry : \E x \in 1..fd_cnt : f[x] = y
  <2>1. SUFFICES ASSUME NEW i \in Slots PROVE f[i + 1] = clnt_fds[i]
    BY <1>3, <1>4
  <2>. QED  BY <1>3
<1>8. IsFiniteSet(1..fd_cnt) /\ Cardinality(1..fd_cnt) = fd_cnt
  BY <1>1, FS_Interval
<1>. HIDE DEF f
<1>. QED  BY <1>5, <1>6, <1>7, <1>8, SameCount

LEMMA MatchesOpen ==
  ASSUME TypeOK, CtlInv, RegInv
  PROVE  RegistryMatchesOpen
<1>1. SUFFICES ASSUME Sound
      PROVE  LET pending == IF mpc = "register" THEN {clntfd} ELSE {} IN
             /\ OpenFds = InRegistry \cup ClosingFds \cup pending
             /\ InRegistry \cap (ClosingFds \cup pending) = {}
             /\ Cardinality(InRegistry) = fd_cnt
  BY DEF RegistryMatchesOpen, RegInv, OpenFds
<1>2. ClosingFds \subseteq OpenFds \ InRegistry
  BY <1>1 DEF Sound, Owners, ClosingFds, Closing
<1>3. mpc = "register" => clntfd \in OpenFds \ InRegistry
  BY <1>1 DEF Sound, Pending
<1>4. Cardinality(InRegistry) = fd_cnt  BY <1>1, RegistrySize DEF Sound
<1>. QED  BY <1>1, <1>2, <1>3, <1>4 DEF Sound, Distinct, NoLeak

LEMMA EachItsOwn ==
  ASSUME TypeOK, CtlInv, RegInv
  PROVE  OwnThread
<1>. DEFINE Lost == {t \in Threads : tpc[t] = "lost"}
            Unserved == {f \in InRegistry : Serving(f) = {}}
            Served_ == {FdOf(t) : t \in Live}
<1>1. SUFFICES ASSUME mpc = "wait", Sound
      PROVE  /\ \A f \in InRegistry : Cardinality(Serving(f)) <= 1
             /\ Cardinality(Unserved) = Cardinality(Lost)
  BY DEF OwnThread, RegInv
<1>2. \A f : Serving(f) = {t \in Live : FdOf(t) = f}
  BY DEF Serving, Live, FdOf
<1>3. \A t, u \in Live : FdOf(t) = FdOf(u) => t = u  BY <1>1 DEF Sound, Owners
<1>4. ASSUME NEW f \in InRegistry PROVE Cardinality(Serving(f)) <= 1
  <2>1. CASE Serving(f) = {}  BY <2>1, FS_EmptySet
  <2>2. CASE Serving(f) # {}
    <3>1. PICK t : t \in Serving(f)  BY <2>2
    <3>2. Serving(f) = {t}  BY <1>2, <1>3, <3>1
    <3>3. Cardinality({t}) = 1  BY FS_Singleton
    <3>. QED  BY <3>2, <3>3
  <2>. QED  BY <2>1, <2>2
<1>5. Counted = Live \cup Lost /\ Live \cap Lost = {}
  BY DEF Counted, Live, TypeOK, TPcs
<1>6. IsFiniteSet(Live) /\ IsFiniteSet(Lost)
  <2>1. Live \in SUBSET Counted /\ Lost \in SUBSET Counted  BY <1>5
  <2>. QED  BY <2>1, CountedFinite, FS_Subset
<1>7. InRegistry = Served_ \cup Unserved /\ Served_ \cap Unserved = {}
  BY <1>1, <1>2 DEF Sound, Owners
<1>8. IsFiniteSet(Served_) /\ Cardinality(Served_) = Cardinality(Live)
  <2>. DEFINE g == [t \in Live |-> FdOf(t)]
  <2>1. g \in [Live -> Served_]  OBVIOUS
  <2>2. \A t, u \in Live : g[t] = g[u] => t = u  BY <1>3
  <2>3. \A f \in Served_ : \E t \in Live : g[t] = f  OBVIOUS
  <2>. HIDE DEF g, Served_
  <2>. QED  BY <1>6, <2>1, <2>2, <2>3, SameCount
<1>9. IsFiniteSet(Unserved)
  <2>1. IsFiniteSet(InRegistry)  BY <1>1, RegistrySize DEF Sound
  <2>2. Unserved \in SUBSET InRegistry  OBVIOUS
  <2>. QED  BY <2>1, <2>2, FS_Subset
<1>. HIDE DEF Lost, Unserved, Served_
<1>10. /\ Cardinality(Counted) = Cardinality(Live) + Cardinality(Lost)
       /\ Cardinality(Live) \in Nat /\ Cardinality(Lost) \in Nat
  BY <1>5, <1>6, DisjointCount
<1>11. /\ Cardinality(InRegistry) = Cardinality(Served_) + Cardinality(Unserved)
       /\ Cardinality(Unserved) \in Nat
  BY <1>7, <1>8, <1>9, DisjointCount
<1>12. Cardinality(InRegistry) = Cardinality(Counted)
  <2>1. Cardinality(InRegistry) = fd_cnt  BY <1>1, RegistrySize DEF Sound
  <2>2. fd_cnt = Cardinality(Counted)
    BY <1>1, CountedFinite DEF CtlInv, CountExact
  <2>. QED  BY <2>1, <2>2
<1>. QED  BY <1>4, <1>8, <1>10, <1>11, <1>12

\* As long as no thread's argument was overwritten, the registry holds exactly
\* the open connections, each once, and each is served by one thread of its
\* own but those whose thread could not be created, for any number of
\* connections and in whatever order they come and leave
\* (chat_server.c:86-99, :124-142).
THEOREM RegistryIsSound == Spec => []RegistrySound
<1>1. TypeOK /\ CtlInv /\ RegInv => RegistrySound
  BY MatchesOpen, EachItsOwn DEF RegistrySound
<1>. QED  BY <1>1, TypeSafe, CtlSafe, RegSafe, PTL

-----------------------------------------------------------------------------
(***************************************************************************)
(* The broadcast: what a thread has written and what it has still to write *)
(* while others come and leave.                                            *)
(***************************************************************************)

ConnAt(j)  == fdtab[clnt_fds[j]]
Waiting(c) == peer[c] = "idle" \/ \E i \in DOMAIN backlog : backlog[i] = c
Members    == {fdtab[f] : f \in InRegistry}

\* A connection waits in the backlog once and is not open yet; an open one has
\* one descriptor.
Apart ==
  /\ \A i, j \in DOMAIN backlog : backlog[i] = backlog[j] => i = j
  /\ \A i \in DOMAIN backlog : peer[backlog[i]] # "idle" /\ \A f \in Fds : fdtab[f] # backlog[i]
  /\ \A f \in OpenFds : peer[fdtab[f]] # "idle"
  /\ \A f, g \in OpenFds : fdtab[f] = fdtab[g] => f = g

\* The connection a thread reads from is that of its descriptor.
Calls(t) ==
  /\ tpc[t] \in {"none", "lost", "start"} => tconn[t] = NoConn
  /\ tpc[t] \in {"blocked", "eof", "test", "lock", "write"} =>
       tconn[t] # NoConn /\ tconn[t] = fdtab[tfd[t]]
  /\ tpc[t] = "read" => tconn[t] \in {NoConn, fdtab[tfd[t]]}

\* Whom the message of a thread went to and is still owed to.
Echoes(t) ==
  /\ tconn[t] = NoConn => owed[t] = {} /\ \A c \in Clients : copies[t][c] = 0
  /\ tconn[t] # NoConn => copies[t][tconn[t]] = 0 /\ tconn[t] \notin owed[t]
  /\ owed[t] \subseteq Members
  /\ \A c \in Clients : Waiting(c) => copies[t][c] = 0
  /\ \A c \in Clients : copies[t][c] > 1 => peer[tconn[t]] = "broken"

\* What is ahead of a thread's index has not been written yet: the slots from
\* there on, the slot it is about to write even if that is no longer in use,
\* and the slot that main will fill next.
Ahead(t) ==
  /\ Sending(t) /\ peer[tconn[t]] # "broken" =>
       /\ \A j \in Slots : j >= ti[t] => copies[t][ConnAt(j)] = 0
       /\ tpc[t] \in {"lock", "write"} /\ Valid(clnt_fds[ti[t]]) => copies[t][ConnAt(ti[t])] = 0
       /\ mpc = "register" /\ ti[t] <= fd_cnt => copies[t][fdtab[clntfd]] = 0
  /\ tpc[t] = "write" => clnt_fds[ti[t]] # tfd[t]

\* Of those the message was owed to, one was left behind at most for each
\* removal.
Missed(t) == {c \in owed[t] : copies[t][c] = 0}
Behind(t) == {c \in Missed(t) : \A j \in Slots : j >= ti[t] => ConnAt(j) # c}
Left(t)   == IF Sending(t) THEN Behind(t) ELSE Missed(t)
Skips(t)  == Cardinality(Left(t)) <= shifts[t]

Cast(t) == Calls(t) /\ Echoes(t) /\ Ahead(t) /\ Skips(t)
CastInv == Apart /\ (~raced => \A t \in Threads : Cast(t))

-----------------------------------------------------------------------------
(* The connections. *)

\* A peer never goes back to where it was not connected, nor forgets a reset.
PeersGoOn == \A d \in Clients :
  /\ peer'[d] = "idle" => peer[d] = "idle"
  /\ peer[d] = "broken" => peer'[d] = "broken"

LEMMA PeerSteps ==
  ASSUME NEW p \in PeerStates
  PROVE  /\ Reads(p) => \A u \in BOOLEAN : CloseBy(p, u) \notin {"idle"}
         /\ ~Reads("broken") /\ ~Reads("idle")
         /\ \A q \in AfterWrite(p) : /\ q = "idle" => p = "idle"
                                     /\ p = "broken" => q = "broken"
BY DEF PeerStates, CloseBy, AfterWrite, Reads

LEMMA GoOn ==
  ASSUME TypeOK, [Next]_vars
  PROVE  PeersGoOn
<1>. SUFFICES ASSUME NEW d \in Clients
     PROVE  /\ peer'[d] = "idle" => peer[d] = "idle"
            /\ peer[d] = "broken" => peer'[d] = "broken"
  BY DEF PeersGoOn
<1>0. peer \in [Clients -> PeerStates]  BY DEF TypeOK
<1>1. ASSUME NEW c \in Clients, Client(c) PROVE PeersGoOn
  <2>1. CASE Kill(c)
    <3>1. Reads(peer[c]) /\ peer[c] \in PeerStates  BY <1>0, <2>1 DEF Kill
    <3>2. (outq[c] > 0) \in BOOLEAN  BY DEF TypeOK
    <3>3. CloseBy(peer[c], outq[c] > 0) # "idle"  BY <3>1, <3>2, PeerSteps, Zenon
    <3>4. peer[c] # "broken"  BY <3>1, PeerSteps
    <3>. QED  BY <1>0, <2>1, <3>3, <3>4 DEF Kill, PeersGoOn
  <2>. QED  BY <1>0, <1>1, <2>1 DEF Client, Connect, Send, Quit, ClientRead, PeersGoOn
<1>2. ASSUME NEW t \in Threads, Thread(t) PROVE PeersGoOn
  <2>1. CASE ReadErr(t)
    BY <1>0, <2>1 DEF ReadErr, PeersGoOn
  <2>2. CASE Write(t)
    <3>1. Target(t) \in Clients
      BY <2>2, ValidClient, TypeParts DEF Write, Target
    <3>2. PICK p \in AfterWrite(peer[Target(t)]) : peer' = [peer EXCEPT ![Target(t)] = p]
      BY <2>2 DEF Write
    <3>. QED  BY <1>0, <3>1, <3>2, PeerSteps DEF PeersGoOn
  <2>. QED
    BY <1>2, <2>1, <2>2
    DEF Thread, Start, ReadCall, ReadBadFd, ReadData, ReadEof, Remove, Close, LoopTest,
        LockSelf, LockOther, WriteBadFd, WriteSigpipe, PeersGoOn, net
<1>3. CASE Main
  BY <1>3 DEF Main, AcceptOk, AcceptFail, Register, CreateOk, CreateFail, PeersGoOn, net
<1>4. CASE UNCHANGED vars  BY <1>4 DEF vars, net, PeersGoOn
<1>. QED  BY <1>1, <1>2, <1>3, <1>4 DEF Next, PeersGoOn

\* Steps that leave the backlog and the table alone.
LEMMA ApartFrame ==
  ASSUME TypeOK, Apart, PeersGoOn, UNCHANGED <<backlog, fdtab>>
  PROVE  Apart' /\ \A c \in Clients : Waiting(c)' => Waiting(c)
<1>1. \A i \in DOMAIN backlog : backlog[i] \in Clients  BY DEF TypeOK
<1>2. \A f \in OpenFds : fdtab[f] \in Clients  BY DEF TypeOK, OpenFds
<1>3. OpenFds' = OpenFds  BY DEF OpenFds
<1>4. Apart'  BY <1>1, <1>2, <1>3 DEF Apart, PeersGoOn
<1>. QED  BY <1>4 DEF Waiting, PeersGoOn

LEMMA ApartStep ==
  ASSUME TypeOK, Apart, [Next]_vars
  PROVE  Apart' /\ \A c \in Clients : Waiting(c)' => Waiting(c)
<1>1. PeersGoOn  BY GoOn
<1>2. \A i \in DOMAIN backlog : backlog[i] \in Clients  BY DEF TypeOK
<1>3. \A f \in OpenFds : fdtab[f] \in Clients  BY DEF TypeOK, OpenFds
<1>4. ASSUME NEW c \in Clients, Connect(c) PROVE Apart' /\ \A d \in Clients : Waiting(d)' => Waiting(d)
  <2>1. peer[c] = "idle" /\ peer' = [peer EXCEPT ![c] = "up"] /\ backlog' = Append(backlog, c)
        /\ fdtab' = fdtab
    BY <1>4 DEF Connect
  <2>2. /\ DOMAIN backlog = 1..Len(backlog) /\ Len(backlog) \in Nat
        /\ DOMAIN backlog' = 1..(Len(backlog) + 1) /\ backlog'[Len(backlog) + 1] = c
        /\ \A i \in DOMAIN backlog : backlog'[i] = backlog[i]
    BY <2>1 DEF TypeOK
  <2>3. \A i \in DOMAIN backlog : backlog[i] # c  BY <2>1 DEF Apart
  <2>4. \A f \in Fds : fdtab[f] # c
    BY <2>1, ChatAssumption DEF Apart, OpenFds
  <2>5. OpenFds' = OpenFds  BY <2>1 DEF OpenFds
  <2>6. \A i, j \in DOMAIN backlog' : backlog'[i] = backlog'[j] => i = j
    BY <2>2, <2>3 DEF Apart
  <2>7. \A d \in Clients : d # c => peer'[d] = peer[d]  BY <2>1 DEF TypeOK
  <2>8. peer'[c] # "idle"  BY <2>1 DEF TypeOK
  <2>9. \A i \in DOMAIN backlog' : peer'[backlog'[i]] # "idle" /\ \A f \in Fds : fdtab'[f] # backlog'[i]
    BY <1>2, <2>1, <2>2, <2>4, <2>7, <2>8 DEF Apart
  <2>10. \A f \in OpenFds : peer'[fdtab[f]] # "idle"
    BY <1>3, <2>7, <2>8 DEF Apart
  <2>11. Apart'  BY <2>1, <2>5, <2>6, <2>9, <2>10 DEF Apart
  <2>12. \A d \in Clients : Waiting(d)' => Waiting(d)
    BY <2>1, <2>2, <2>7 DEF Waiting
  <2>. QED  BY <2>11, <2>12
<1>5. CASE AcceptOk
  <2>1. PICK f \in Fds : fdtab[f] = NoConn /\ fdtab' = [fdtab EXCEPT ![f] = Head(backlog)]
    BY <1>5 DEF AcceptOk, LowestFree
  <2>2. /\ backlog # <<>> /\ backlog' = Tail(backlog) /\ peer' = peer
    BY <1>5 DEF AcceptOk
  <2>3. /\ DOMAIN backlog = 1..Len(backlog) /\ Len(backlog) \in Nat \ {0}
        /\ Head(backlog) = backlog[1] /\ 1 \in DOMAIN backlog
        /\ DOMAIN backlog' = 1..(Len(backlog) - 1)
        /\ \A i \in DOMAIN backlog' : i + 1 \in DOMAIN backlog /\ backlog'[i] = backlog[i + 1]
    BY <2>2 DEF TypeOK
  <2>4. \A g \in Fds : fdtab'[g] = IF g = f THEN backlog[1] ELSE fdtab[g]
    BY <2>1, <2>3 DEF TypeOK
  <2>5. \A i, j \in DOMAIN backlog' : backlog'[i] = backlog'[j] => i = j
    <3>1. \A i, j \in DOMAIN backlog' : backlog'[i] = backlog'[j] => i + 1 = j + 1
      BY <2>3 DEF Apart
    <3>. QED  BY <2>3, <3>1
  <2>6. \A i \in DOMAIN backlog' : backlog'[i] # backlog[1]
    <3>1. \A i \in DOMAIN backlog' : i + 1 # 1  BY <2>3
    <3>. QED  BY <2>3, <3>1 DEF Apart
  <2>7. \A i \in DOMAIN backlog' : peer'[backlog'[i]] # "idle" /\ \A g \in Fds : fdtab'[g] # backlog'[i]
    BY <2>2, <2>3, <2>4, <2>6 DEF Apart
  <2>8. OpenFds' = OpenFds \cup {f}
    <3>1. backlog[1] # NoConn  BY <1>2, <2>3, ChatAssumption
    <3>. QED  BY <2>4, <3>1 DEF OpenFds
  <2>9. \A g \in OpenFds' : peer'[fdtab'[g]] # "idle"
    BY <2>2, <2>3, <2>4, <2>8 DEF Apart, OpenFds
  <2>10. \A g, h \in OpenFds' : fdtab'[g] = fdtab'[h] => g = h
    BY <2>1, <2>3, <2>4, <2>8 DEF Apart, OpenFds
  <2>11. Apart'  BY <2>5, <2>7, <2>9, <2>10 DEF Apart
  <2>12. \A d \in Clients : Waiting(d)' => Waiting(d)
    BY <2>2, <2>3 DEF Waiting
  <2>. QED  BY <2>11, <2>12
<1>6. ASSUME NEW t \in Threads, Close(t) PROVE Apart' /\ \A c \in Clients : Waiting(c)' => Waiting(c)
  <2>1. UNCHANGED <<peer, backlog>>  BY <1>6 DEF Close, net
  <2>2. \A g \in Fds : fdtab'[g] \in {fdtab[g], NoConn}
    BY <1>6 DEF Close, TypeOK
  <2>3. \A g \in OpenFds' : g \in OpenFds /\ fdtab'[g] = fdtab[g]
    BY <2>2 DEF OpenFds
  <2>4. \A i \in DOMAIN backlog : \A g \in Fds : fdtab'[g] # backlog[i]
    BY <1>2, <2>2, ChatAssumption DEF Apart
  <2>5. Apart'  BY <2>1, <2>3, <2>4 DEF Apart
  <2>. QED  BY <2>1, <2>5 DEF Waiting
<1>7. UNCHANGED <<backlog, fdtab>> \/ (\E c \in Clients : Connect(c)) \/ AcceptOk
        \/ \E t \in Threads : Close(t)
  <2>1. ASSUME NEW c \in Clients, Client(c), ~Connect(c) PROVE UNCHANGED <<backlog, fdtab>>
    BY <2>1 DEF Client, Send, Quit, Kill, ClientRead
  <2>2. ASSUME NEW t \in Threads, Thread(t), ~Close(t) PROVE UNCHANGED <<backlog, fdtab>>
    BY <2>2 DEF Thread, Start, ReadCall, ReadBadFd, ReadData, ReadEof, ReadErr, Remove,
      LoopTest, LockSelf, LockOther, Write, WriteBadFd, WriteSigpipe, net
  <2>3. ASSUME Main, ~AcceptOk PROVE UNCHANGED <<backlog, fdtab>>
    BY <2>3 DEF Main, AcceptFail, Register, CreateOk, CreateFail, net
  <2>4. UNCHANGED vars => UNCHANGED <<backlog, fdtab>>  BY DEF vars, net
  <2>. QED  BY <2>1, <2>2, <2>3, <2>4 DEF Next
<1>. QED  BY <1>1, <1>4, <1>5, <1>6, <1>7, ApartFrame

-----------------------------------------------------------------------------
(* Who is registered. *)

LEMMA Fewer ==
  ASSUME NEW S, NEW T, IsFiniteSet(T), S \subseteq T
  PROVE  /\ IsFiniteSet(S) /\ Cardinality(S) \in Nat /\ Cardinality(T) \in Nat
         /\ Cardinality(S) <= Cardinality(T)
<1>1. S \in SUBSET T  OBVIOUS
<1>2. IsFiniteSet(S) /\ Cardinality(S) <= Cardinality(T)  BY <1>1, FS_Subset
<1>. QED  BY <1>2, FS_CardinalityType

LEMMA OneMore ==
  ASSUME NEW S, NEW T, NEW x, IsFiniteSet(T), S \subseteq T \cup {x}
  PROVE  Cardinality(S) \in Nat /\ Cardinality(S) <= Cardinality(T) + 1
<1>1. IsFiniteSet(T \cup {x}) /\ Cardinality(T \cup {x}) <= Cardinality(T) + 1
  <2>1. Cardinality(T) \in Nat  BY FS_CardinalityType
  <2>2. /\ IsFiniteSet(T \cup {x})
        /\ \/ Cardinality(T \cup {x}) = Cardinality(T)
           \/ Cardinality(T \cup {x}) = Cardinality(T) + 1
    BY FS_AddElement, Zenon
  <2>. QED  BY <2>1, <2>2
<1>2. Cardinality(T) \in Nat  BY FS_CardinalityType
<1>3. Cardinality(S) \in Nat /\ Cardinality(S) <= Cardinality(T \cup {x})
      /\ Cardinality(T \cup {x}) \in Nat
  BY <1>1, Fewer
<1>. QED  BY <1>1, <1>2, <1>3

\* Each slot in use has a connection of its own.
LEMMA SlotConns ==
  ASSUME TypeOK, CtlInv, Sound, Apart
  PROVE  /\ \A j \in Slots : /\ j \in Nat /\ j < fd_cnt /\ clnt_fds[j] \in OpenFds
                             /\ ConnAt(j) \in Members
         /\ \A i, j \in Slots : ConnAt(i) = ConnAt(j) => i = j
         /\ \A c \in Members : \E j \in Slots : c = ConnAt(j)
         /\ \A f \in OpenFds : fdtab[f] \in Clients
         /\ InRegistry \subseteq OpenFds /\ Members \subseteq Clients
<1>1. InRegistry = {clnt_fds[i] : i \in Slots}  BY DEF InRegistry, Slots
<1>2. \A f \in OpenFds : fdtab[f] \in Clients  BY DEF TypeOK, OpenFds
<1>3. InRegistry \subseteq OpenFds  BY DEF Sound, Distinct
<1>4. \A j \in Slots : clnt_fds[j] \in InRegistry /\ ConnAt(j) \in Members
  BY <1>1 DEF Members, ConnAt
<1>5. \A i, j \in Slots : ConnAt(i) = ConnAt(j) => i = j
  BY <1>3, <1>4 DEF ConnAt, Apart, Sound, Distinct
<1>6. \A c \in Members : \E j \in Slots : c = ConnAt(j)
  BY <1>1 DEF Members, ConnAt
<1>7. fd_cnt \in Nat  BY SlotCells
<1>8. \A j \in Slots : j \in Nat /\ j < fd_cnt  BY <1>7 DEF Slots
<1>. QED  BY <1>2, <1>3, <1>4, <1>5, <1>6, <1>8 DEF Members

LEMMA MembersFinite ==
  ASSUME TypeOK, CtlInv, Sound
  PROVE  IsFiniteSet(Members)
<1>1. IsFiniteSet(InRegistry)  BY RegistrySize DEF Sound
<1>2. DEFINE g == [f \in InRegistry |-> fdtab[f]]
<1>3. g \in Surjection(InRegistry, Members)
  BY DEF Surjection, Members
<1>. HIDE DEF g
<1>. QED  BY <1>1, <1>3, FS_Surjection

\* A thread that reads or sends has its descriptor in the registry.
LEMMA OwnFd ==
  ASSUME TypeOK, Sound, NEW t \in Threads, tpc[t] \in {"read", "blocked", "eof", "test", "lock", "write"}
  PROVE  /\ tfd[t] \in InRegistry /\ tfd[t] \in OpenFds /\ Valid(tfd[t])
         /\ fdtab[tfd[t]] \in Members /\ fdtab[tfd[t]] \in Clients
<1>1. t \in Live /\ FdOf(t) = tfd[t]  BY DEF Live, FdOf
<1>2. tfd[t] \in InRegistry /\ tfd[t] \in OpenFds  BY <1>1 DEF Sound, Owners, Distinct
<1>. QED  BY <1>2 DEF OpenFds, Valid, Members, TypeOK

LEMMA LeftFinite ==
  ASSUME TypeOK, CtlInv, Sound, NEW t \in Threads, Echoes(t)
  PROVE  /\ IsFiniteSet(Left(t)) /\ IsFiniteSet(Missed(t)) /\ IsFiniteSet(Behind(t))
         /\ Behind(t) \subseteq Missed(t)
<1>1. Missed(t) \subseteq Members /\ Behind(t) \subseteq Missed(t)
  BY DEF Echoes, Missed, Behind
<1>2. Behind(t) \subseteq Members  BY <1>1
<1>. QED  BY <1>1, <1>2, MembersFinite, Fewer DEF Left

LEMMA SkipsKept ==
  ASSUME TypeOK, CtlInv, Sound, NEW t \in Threads, Cast(t), Left(t)' \subseteq Left(t),
         shifts'[t] = shifts[t]
  PROVE  Skips(t)'
<1>1. PICK S : S = Left(t)'  OBVIOUS
<1>2. Cardinality(S) <= Cardinality(Left(t)) /\ Cardinality(S) \in Nat
      /\ Cardinality(Left(t)) \in Nat
  BY <1>1, LeftFinite, Fewer DEF Cast
<1>3. Cardinality(S) <= shifts[t]  BY <1>2 DEF Cast, Skips, TypeOK
<1>. QED  BY <1>1, <1>3 DEF Skips
-----------------------------------------------------------------------------
(* Steps that leave a thread its loop and its message. *)

Mine(t) == <<ti[t], tfd[t], copies[t], owed[t], shifts[t]>>
Onward  == PeersGoOn /\ \A c \in Clients : Waiting(c)' => Waiting(c)

LEMMA CastFrame ==
  ASSUME TypeOK, CtlInv, Sound, Onward, NEW t \in Threads, Cast(t), UNCHANGED Mine(t),
         Calls(t)',
         \/ tpc'[t] = tpc[t] /\ tconn'[t] = tconn[t]
         \/ ~Sending(t) /\ ~Sending(t)',
         tconn'[t] # tconn[t] => tconn[t] = NoConn /\ tconn'[t] \in Clients,
         UNCHANGED <<fdtab, clnt_fds, fd_cnt>>,
         mpc' = "register" => mpc = "register" /\ clntfd' = clntfd
  PROVE  Cast(t)'
<1>1. /\ Slots' = Slots /\ Members' = Members /\ \A j : ConnAt(j)' = ConnAt(j)
      /\ \A f : Valid(f)' = Valid(f)
  BY DEF Slots, Members, InRegistry, ConnAt, Valid
<1>2. Missed(t)' = Missed(t) /\ Behind(t)' = Behind(t)
  BY <1>1 DEF Missed, Behind, Mine
<1>3. Skips(t)'
  <2>1. Left(t)' = Left(t)  BY <1>2 DEF Left, Sending
  <2>. QED  BY <2>1, SkipsKept DEF Mine
<1>4. Echoes(t)'
  <2>1. \A c \in Clients : copies'[t][c] > 1 => peer'[tconn'[t]] = "broken"
    <3>1. SUFFICES ASSUME NEW c \in Clients, copies[t][c] > 1 PROVE peer'[tconn'[t]] = "broken"
      BY DEF Mine
    <3>2. tconn[t] # NoConn  BY <3>1 DEF Cast, Echoes
    <3>3. tconn[t] \in Clients /\ tconn'[t] = tconn[t]  BY <3>2 DEF TypeOK
    <3>. QED  BY <3>1, <3>3 DEF Cast, Echoes, Onward, PeersGoOn
  <2>. QED  BY <1>1, <2>1, ChatAssumption DEF Cast, Echoes, Mine, Onward
<1>5. Ahead(t)'
  <2>1. CASE ~Sending(t)'  BY <2>1 DEF Ahead, Sending
  <2>2. CASE Sending(t)'
    <3>1. tpc'[t] = tpc[t] /\ tconn'[t] = tconn[t]  BY <2>2
    <3>2. tconn[t] \in Clients
      BY <2>2, <3>1 DEF Cast, Calls, Sending, TypeOK
    <3>3. peer'[tconn[t]] # "broken" => peer[tconn[t]] # "broken"
      BY <3>2 DEF Onward, PeersGoOn
    <3>. QED  BY <1>1, <3>1, <3>3 DEF Cast, Ahead, Sending, Mine
  <2>. QED  BY <2>1, <2>2
<1>. QED  BY <1>3, <1>4, <1>5 DEF Cast

\* The steps of the clients, of other threads in their loop, and main's when
\* accept() fails.
LEMMA CastStill ==
  ASSUME TypeOK, CtlInv, Sound, Onward, NEW t \in Threads, Cast(t), UNCHANGED Mine(t),
         tpc'[t] = tpc[t], tconn'[t] = tconn[t], UNCHANGED <<fdtab, clnt_fds, fd_cnt>>,
         mpc' = "register" => mpc = "register" /\ clntfd' = clntfd
  PROVE  Cast(t)'
<1>1. Calls(t)'  BY DEF Cast, Calls, Mine
<1>. QED  BY <1>1, CastFrame

-----------------------------------------------------------------------------
(* The steps of a thread. *)

\* Outside the loop.
LEMMA CastOutside ==
  ASSUME TypeOK, CtlInv, Sound, Apart, Onward, NEW t \in Threads, Cast(t),
         Start(t) \/ ReadCall(t) \/ ReadEof(t) \/ WriteSigpipe(t)
  PROVE  Cast(t)'
<1>1. CASE Start(t)
  <2>1. tpc[t] = "start" /\ tpc'[t] = "read"  BY <1>1 DEF Start, Step, TypeOK
  <2>2. Calls(t)'  BY <1>1, <2>1 DEF Cast, Calls, Start
  <2>3. tconn'[t] = NoConn /\ tconn[t] = NoConn  BY <1>1, <2>1 DEF Cast, Calls, Start
  <2>4. Left(t)' = Left(t)
    BY <1>1, <2>1 DEF Left, Sending, Missed, Start, hist
  <2>5. Skips(t)'  BY <1>1, <2>4, SkipsKept DEF Start, hist
  <2>6. Members' = Members  BY <1>1 DEF Start, Members, InRegistry, globals
  <2>7. Echoes(t)'
    BY <1>1, <2>3, <2>6 DEF Cast, Echoes, Start, hist, Onward
  <2>8. Ahead(t)'  BY <2>1 DEF Ahead, Sending
  <2>. QED  BY <2>2, <2>5, <2>7, <2>8 DEF Cast
<1>2. CASE ReadCall(t)
  <2>1. tpc[t] = "read" /\ tpc'[t] = "blocked"  BY <1>2 DEF ReadCall, Step, TypeOK
  <2>2. tconn'[t] = fdtab[tfd[t]] /\ tconn'[t] \in Clients /\ tconn'[t] # NoConn
    BY <1>2, <2>1, OwnFd, ChatAssumption DEF ReadCall, TypeOK
  <2>3. Calls(t)'  BY <1>2, <2>1, <2>2 DEF Calls, ReadCall
  <2>4. tconn'[t] = tconn[t] \/ tconn[t] = NoConn
    BY <2>1, <2>2 DEF Cast, Calls
  <2>. QED
    BY <1>2, <2>1, <2>2, <2>3, <2>4, CastFrame
    DEF ReadCall, Sending, Mine, globals, mainv, hist
<1>3. CASE ReadEof(t)
  <2>1. tpc[t] = "blocked" /\ tpc'[t] = "eof"  BY <1>3 DEF ReadEof, Step, TypeOK
  <2>2. Calls(t)'  BY <1>3, <2>1 DEF Cast, Calls, ReadEof
  <2>3. ~Sending(t) /\ ~Sending(t)'  BY <2>1 DEF Sending
  <2>. QED
    BY <1>3, <2>2, <2>3, CastFrame DEF ReadEof, Mine, globals, mainv, hist
<1>4. CASE WriteSigpipe(t)
  BY <1>4, CastStill DEF WriteSigpipe, Mine, globals, mainv, hist, threads
<1>. QED  BY <1>1, <1>2, <1>3, <1>4

\* A read that starts a round: a new message, or the error of a reset peer.
LEMMA CastRead ==
  ASSUME TypeOK, CtlInv, Sound, Apart, Onward, NEW t \in Threads, Cast(t),
         ReadData(t) \/ ReadErr(t)
  PROVE  Cast(t)'
<1>1. tpc[t] = "blocked" /\ tpc'[t] = "test" /\ ti'[t] = 0
  BY DEF ReadData, ReadErr, Step, TypeOK
<1>2. UNCHANGED <<fdtab, clnt_fds, fd_cnt, mpc, clntfd, tconn, tfd>>
  BY DEF ReadData, ReadErr, globals, mainv
<1>3. /\ Slots' = Slots /\ Members' = Members /\ \A j : ConnAt(j)' = ConnAt(j)
  BY <1>2 DEF Slots, Members, InRegistry, ConnAt
<1>4. tconn[t] # NoConn /\ tconn[t] \in Clients
  BY <1>1 DEF Cast, Calls, TypeOK
<1>5. Calls(t)'  BY <1>1, <1>2 DEF Cast, Calls
<1>6. Behind(t)' = {} \/ ~(owed'[t] \subseteq Members)
  BY <1>1, <1>3, SlotConns DEF Behind, Missed
<1>7. Sending(t)'  BY <1>1 DEF Sending
<1>8. CASE ReadData(t)
  <2>1. Registered = Members
    <3>1. Registered = {fdtab[clnt_fds[i]] : i \in {j \in Slots : Valid(clnt_fds[j])}}
      BY DEF Registered, Slots
    <3>2. \A j \in Slots : Valid(clnt_fds[j])  BY SlotConns DEF Valid, OpenFds
    <3>3. InRegistry = {clnt_fds[i] : i \in Slots}  BY DEF InRegistry, Slots
    <3>. QED  BY <3>1, <3>2, <3>3 DEF Members
  <2>2. /\ owed'[t] = Members \ {tconn[t]} /\ shifts'[t] = 0
        /\ \A c \in Clients : copies'[t][c] = 0
    BY <1>8, <2>1 DEF ReadData, TypeOK
  <2>3. Echoes(t)'  BY <1>2, <1>3, <1>4, <2>2 DEF Echoes
  <2>4. \A j \in Slots : ConnAt(j) \in Clients  BY SlotConns
  <2>5. mpc = "register" => fdtab[clntfd] \in Clients
    BY DEF Sound, Pending, OpenFds, TypeOK
  <2>6. Ahead(t)'
    BY <1>1, <1>2, <1>3, <2>2, <2>4, <2>5 DEF Ahead
  <2>7. Left(t)' = {}  BY <1>6, <1>7, <2>2 DEF Left
  <2>8. Skips(t)'  BY <2>2, <2>7, FS_EmptySet DEF Skips
  <2>. QED  BY <1>5, <2>3, <2>6, <2>8 DEF Cast
<1>9. CASE ReadErr(t)
  <2>1. /\ UNCHANGED <<copies, owed, shifts>> /\ peer'[tconn[t]] = "broken"
    BY <1>4, <1>9 DEF ReadErr, hist, TypeOK
  <2>2. Echoes(t)'  BY <1>2, <1>3, <1>4, <2>1 DEF Cast, Echoes, Onward
  <2>3. Ahead(t)'  BY <1>1, <1>2, <2>1 DEF Ahead
  <2>4. Left(t)' = {}  BY <1>6, <1>7, <2>1 DEF Left, Cast, Echoes
  <2>5. Skips(t)'
    <3>1. shifts'[t] \in Nat  BY <2>1 DEF TypeOK
    <3>. QED  BY <2>4, <3>1, FS_EmptySet DEF Skips
  <2>. QED  BY <1>5, <2>2, <2>3, <2>5 DEF Cast
<1>. QED  BY <1>8, <1>9
\* The loop of line 149: its test, and a round that writes nothing.
LEMMA CastLoop ==
  ASSUME TypeOK, CtlInv, Sound, Apart, Onward, NEW t \in Threads, Cast(t),
         LoopTest(t) \/ LockSelf(t) \/ LockOther(t) \/ WriteBadFd(t)
  PROVE  Cast(t)'
<1>1. /\ UNCHANGED <<fdtab, clnt_fds, fd_cnt, mpc, clntfd, tconn, tfd, peer, copies, owed, shifts>>
      /\ Sending(t)
  BY DEF LoopTest, LockSelf, LockOther, WriteBadFd, Step, net, mainv, globals, hist, Sending
<1>2. /\ Slots' = Slots /\ Members' = Members /\ \A j : ConnAt(j)' = ConnAt(j)
      /\ \A f : Valid(f)' = Valid(f) /\ Missed(t)' = Missed(t)
  BY <1>1 DEF Slots, Members, InRegistry, ConnAt, Valid, Missed
<1>3. /\ tconn[t] # NoConn /\ tconn[t] = fdtab[tfd[t]] /\ ti[t] \in Nat /\ fd_cnt \in Nat
      /\ tpc'[t] \in {"read", "test", "lock", "write"}
  BY <1>1, SlotCells DEF Cast, Calls, Sending, TypeOK, LoopTest, LockSelf, LockOther,
     WriteBadFd, Step
<1>4. Calls(t)'  BY <1>1, <1>3 DEF Calls
<1>5. Echoes(t)'  BY <1>1, <1>2 DEF Cast, Echoes, Onward
<1>6. \A j \in Slots : /\ j \in Nat /\ j < fd_cnt /\ clnt_fds[j] \in OpenFds
                       /\ ConnAt(j) \in Members
  BY SlotConns
<1>7. SUFFICES Ahead(t)' /\ Left(t)' \subseteq Left(t)
  BY <1>1, <1>4, <1>5, SkipsKept DEF Cast
<1>8. Left(t) = Behind(t)  BY <1>1 DEF Left
<1>9. CASE LoopTest(t)
  <2>1. /\ ti' = ti /\ tpc[t] = "test"
        /\ tpc'[t] = IF ti[t] < fd_cnt THEN "lock" ELSE "read"
    BY <1>9 DEF LoopTest, TypeOK
  <2>2. CASE ti[t] < fd_cnt
    <3>1. ti[t] \in Slots  BY <1>3, <2>2 DEF Slots
    <3>2. Ahead(t)'
      BY <1>1, <1>2, <1>3, <2>1, <2>2, <3>1 DEF Cast, Ahead, Sending, ConnAt
    <3>3. Left(t)' = Behind(t)
      BY <1>2, <2>1, <2>2 DEF Left, Sending, Behind
    <3>. QED  BY <1>8, <3>2, <3>3
  <2>3. CASE ~(ti[t] < fd_cnt)
    <3>1. Ahead(t)'  BY <2>1, <2>3 DEF Ahead, Sending
    <3>2. Missed(t) \subseteq Behind(t)  BY <1>3, <1>6, <2>3 DEF Behind
    <3>3. Left(t)' = Missed(t)  BY <1>2, <2>1, <2>3 DEF Left, Sending
    <3>. QED  BY <1>8, <3>1, <3>2, <3>3
  <2>. QED  BY <2>2, <2>3
<1>10. CASE LockOther(t)
  <2>1. /\ ti' = ti /\ tpc[t] = "lock" /\ tpc'[t] = "write" /\ clnt_fds[ti[t]] # tfd[t]
    BY <1>10 DEF LockOther, Step, TypeOK
  <2>2. Ahead(t)'
    BY <1>1, <1>2, <2>1 DEF Cast, Ahead, Sending
  <2>3. Left(t)' = Behind(t)
    BY <1>2, <2>1 DEF Left, Sending, Behind
  <2>. QED  BY <1>8, <2>2, <2>3
<1>11. CASE LockSelf(t) \/ WriteBadFd(t)
  <2>1. ti'[t] = ti[t] + 1 /\ tpc'[t] = "test"
    BY <1>11 DEF LockSelf, WriteBadFd, Step, NextSlot, TypeOK
  <2>2. Ahead(t)'
    BY <1>1, <1>2, <1>3, <1>6, <2>1 DEF Cast, Ahead, Sending
  <2>3. \A j \in Slots : j = ti[t] => ConnAt(j) \notin Missed(t)
    <3>1. CASE LockSelf(t)
      BY <1>3, <3>1 DEF LockSelf, ConnAt, Missed, Cast, Echoes
    <3>2. CASE WriteBadFd(t)
      BY <1>6, <3>2 DEF WriteBadFd, OpenFds, Valid
    <3>. QED  BY <1>11, <3>1, <3>2
  <2>4. Left(t)' = {c \in Missed(t) : \A j \in Slots : j >= ti[t] + 1 => ConnAt(j) # c}
    BY <1>2, <2>1 DEF Left, Sending, Behind
  <2>5. \A j \in Slots : j >= ti[t] => j = ti[t] \/ j >= ti[t] + 1
    BY <1>3, <1>6
  <2>6. Left(t)' \subseteq Behind(t)
    BY <2>3, <2>4, <2>5 DEF Behind
  <2>. QED  BY <1>8, <2>2, <2>6
<1>. QED  BY <1>9, <1>10, <1>11

\* A round that writes: to another connection, that is not written again.
LEMMA CastWrite ==
  ASSUME TypeOK, CtlInv, Sound, Apart, Onward, NEW t \in Threads, Cast(t), Write(t)
  PROVE  Cast(t)'
<1>1. /\ UNCHANGED <<fdtab, clnt_fds, fd_cnt, mpc, clntfd, tconn, tfd, owed, shifts>>
      /\ tpc[t] = "write" /\ tpc'[t] = "test" /\ ti'[t] = ti[t] + 1 /\ ti[t] \in Nat
      /\ Valid(clnt_fds[ti[t]])
  BY DEF Write, Step, NextSlot, mainv, TypeOK
<1>2. PICK d \in Clients : d = Target(t)
  BY <1>1, ValidClient, TypeParts DEF Target
<1>3. /\ copies' = [copies EXCEPT ![t][d] = IF @ < 2 THEN @ + 1 ELSE @]
      /\ \E p \in AfterWrite(peer[d]) : peer' = [peer EXCEPT ![d] = p]
  BY <1>2 DEF Write
<1>4. \A c \in Clients : copies[t][c] \in 0..2  BY DEF TypeOK
<1>5. /\ \A c \in Clients : c # d => copies'[t][c] = copies[t][c] /\ peer'[c] = peer[c]
      /\ copies'[t][d] # 0
      /\ copies'[t][d] > 1 => copies[t][d] # 0
  BY <1>3, <1>4 DEF TypeOK
<1>6. /\ Slots' = Slots /\ Members' = Members /\ \A j : ConnAt(j)' = ConnAt(j)
  BY <1>1 DEF Slots, Members, InRegistry, ConnAt
<1>7. /\ tconn[t] = fdtab[tfd[t]] /\ tconn[t] \in Clients /\ tconn[t] # NoConn
      /\ tfd[t] \in OpenFds
  BY <1>1, OwnFd DEF Cast, Calls, TypeOK
<1>8. clnt_fds[ti[t]] \in OpenFds /\ d = fdtab[clnt_fds[ti[t]]] /\ d = ConnAt(ti[t])
  BY <1>1, <1>2 DEF Target, Valid, OpenFds, ConnAt
<1>9. d # tconn[t]
  BY <1>1, <1>7, <1>8 DEF Cast, Ahead, Apart
<1>10. ~Waiting(d)
  BY <1>8 DEF Apart, Waiting, OpenFds
<1>11. \A j \in Slots : /\ j \in Nat /\ j < fd_cnt /\ clnt_fds[j] \in OpenFds
                        /\ ConnAt(j) \in Members /\ ConnAt(j) \in Clients
  BY SlotConns
<1>12. \A i, j \in Slots : ConnAt(i) = ConnAt(j) => i = j  BY SlotConns
<1>13. fd_cnt \in Nat /\ (ti[t] < fd_cnt => ti[t] \in Slots)
  BY <1>1, SlotCells DEF Slots
<1>14. Calls(t)'  BY <1>1, <1>7 DEF Calls
<1>15. peer[tconn[t]] # "broken" => copies[t][d] = 0
  BY <1>1, <1>8 DEF Cast, Ahead, Sending
<1>16. Echoes(t)'
  <2>1. owed'[t] \subseteq Members' /\ tconn'[t] # NoConn /\ tconn'[t] \notin owed'[t]
        /\ copies'[t][tconn'[t]] = 0
    BY <1>1, <1>5, <1>6, <1>7, <1>9 DEF Cast, Echoes
  <2>2. \A c \in Clients : Waiting(c)' => copies'[t][c] = 0
    BY <1>5, <1>10 DEF Cast, Echoes, Onward
  <2>3. \A c \in Clients : copies'[t][c] > 1 => peer[tconn[t]] = "broken"
    <3>1. \A c \in Clients : c # d /\ copies'[t][c] > 1 => peer[tconn[t]] = "broken"
      BY <1>5 DEF Cast, Echoes
    <3>. QED  BY <1>5, <1>15, <3>1
  <2>4. peer[tconn[t]] = "broken" => peer'[tconn'[t]] = "broken"
    BY <1>1, <1>5, <1>7, <1>9
  <2>. QED  BY <2>1, <2>2, <2>3, <2>4 DEF Echoes
<1>17. Ahead(t)'
  <2>1. \A j \in Slots : j >= ti[t] + 1 => ti[t] \in Slots /\ ConnAt(j) # d
    BY <1>1, <1>8, <1>11, <1>12, <1>13
  <2>2. mpc = "register" /\ ti[t] + 1 <= fd_cnt =>
          fdtab[clntfd] # d /\ fdtab[clntfd] \in Clients
    <3>1. SUFFICES ASSUME mpc = "register", ti[t] + 1 <= fd_cnt
          PROVE fdtab[clntfd] # d /\ fdtab[clntfd] \in Clients
      OBVIOUS
    <3>2. ti[t] \in Slots  BY <1>1, <1>13, <3>1
    <3>3. clnt_fds[ti[t]] \in InRegistry  BY <3>2 DEF InRegistry, Slots
    <3>4. clntfd \in OpenFds /\ clntfd # clnt_fds[ti[t]]
      BY <3>1, <3>3 DEF Sound, Pending
    <3>. QED  BY <1>8, <3>4, SlotConns DEF Apart
  <2>3. tconn'[t] = tconn[t] /\ peer'[tconn[t]] = peer[tconn[t]]  BY <1>1, <1>5, <1>7, <1>9
  <2>4. peer[tconn[t]] # "broken" =>
          /\ \A j \in Slots : j >= ti[t] + 1 => copies'[t][ConnAt(j)] = 0
          /\ mpc = "register" /\ ti[t] + 1 <= fd_cnt => copies'[t][fdtab[clntfd]] = 0
    BY <1>1, <1>5, <1>11, <1>13, <2>1, <2>2 DEF Cast, Ahead, Sending
  <2>. QED  BY <1>1, <1>6, <2>3, <2>4 DEF Ahead
<1>18. Left(t)' \subseteq Left(t)
  <2>1. Left(t) = Behind(t)  BY <1>1 DEF Left, Sending
  <2>2. Left(t)' = {c \in owed[t] : copies'[t][c] = 0 /\ \A j \in Slots : j >= ti[t] + 1 => ConnAt(j) # c}
    BY <1>1, <1>6 DEF Left, Sending, Behind, Missed
  <2>3. \A j \in Slots : j >= ti[t] => j = ti[t] \/ j >= ti[t] + 1
    BY <1>1, <1>11
  <2>4. owed[t] \subseteq Clients  BY DEF TypeOK
  <2>. QED  BY <1>5, <1>8, <2>1, <2>2, <2>3, <2>4 DEF Behind, Missed
<1>. QED  BY <1>1, <1>14, <1>16, <1>17, <1>18, SkipsKept DEF Cast
-----------------------------------------------------------------------------
(* The steps that change the registry. *)

\* A removal: the slots from the one that is gone on move down by one.
LEMMA RemoveSlots ==
  ASSUME TypeOK, CtlInv, Sound, NEW t \in Threads, Remove(t)
  PROVE  /\ fd_cnt \in Nat
         /\ \A i : i \in Slots <=> i \in Nat /\ i < fd_cnt
         /\ \A i : i \in Slots' <=> i \in Nat /\ i < fd_cnt - 1
         /\ \E k \in Slots :
              /\ clnt_fds[k] = tfd[t]
              /\ \A i \in Slots' : clnt_fds'[i] = clnt_fds[IF k <= i THEN i + 1 ELSE i]
         /\ \A i \in Cells : clnt_fds'[i] # clnt_fds[i] =>
           i + 1 \in Slots /\ clnt_fds'[i] = clnt_fds[i + 1]
<1>1. /\ tpc[t] = "eof" /\ clnt_fds' = Shifted(tfd[t]) /\ fd_cnt' = fd_cnt - 1
  BY DEF Remove, Step
<1>2. tfd[t] \in InRegistry  BY <1>1, OwnFd
<1>3. PICK k \in Slots : clnt_fds[k] = tfd[t]  BY <1>2 DEF InRegistry, Slots
<1>4. /\ fd_cnt \in Nat /\ Slots' = 0..(fd_cnt - 2)
      /\ \A i : i \in Slots <=> i \in Nat /\ i < fd_cnt
      /\ \A i : i \in Slots' <=> i \in Nat /\ i < fd_cnt - 1
  BY <1>1, SlotCells DEF Slots
<1>5. \A i \in Slots' : clnt_fds'[i] = clnt_fds[IF k <= i THEN i + 1 ELSE i]
  BY <1>1, <1>3, <1>4, ShiftSlots DEF Sound
<1>6. ASSUME NEW i \in Cells, clnt_fds'[i] # clnt_fds[i]
      PROVE  i + 1 \in Slots /\ clnt_fds'[i] = clnt_fds[i + 1]
  <2>1. i \in Nat  BY ChatAssumption DEF Cells
  <2>2. i < fd_cnt - 1 => i + 1 \in Slots  BY <1>4, <2>1
  <2>3. Shifted(tfd[t])[i] =
          IF i < fd_cnt - 1 /\ \E j \in 0..i : clnt_fds[j] = tfd[t]
          THEN clnt_fds[i + 1] ELSE clnt_fds[i]
    BY Zenon DEF Shifted
  <2>. QED  BY <1>1, <1>6, <2>2, <2>3
<1>. QED  BY <1>3, <1>4, <1>5, <1>6

LEMMA CastRemove ==
  ASSUME TypeOK, CtlInv, Sound, Apart, Onward, NEW t \in Threads, Remove(t),
         NEW u \in Threads, Cast(u)
  PROVE  Cast(u)'
<1>1. /\ tpc[t] = "eof" /\ tpc'[t] = "close" /\ mutex = Free
      /\ UNCHANGED <<peer, fdtab, mpc, clntfd, tfd, tconn, ti, copies>>
      /\ fd_cnt' = fd_cnt - 1 /\ (u # t => tpc'[u] = tpc[u])
  BY DEF Remove, Step, mainv, net, TypeOK
<1>2. tfd[t] \in InRegistry /\ Valid(tfd[t])  BY <1>1, OwnFd
<1>3. PICK x : x = fdtab[tfd[t]]  OBVIOUS
<1>4. /\ owed'[u] = owed[u] \ {x}
      /\ shifts'[u] = IF Sending(u) THEN shifts[u] + 1 ELSE shifts[u]
  BY <1>2, <1>3 DEF Remove
<1>5. PICK k \in Slots :
        /\ clnt_fds[k] = tfd[t]
        /\ \A i \in Slots' : clnt_fds'[i] = clnt_fds[IF k <= i THEN i + 1 ELSE i]
  BY RemoveSlots
<1>6. /\ fd_cnt \in Nat
      /\ \A i : i \in Slots <=> i \in Nat /\ i < fd_cnt
      /\ \A i : i \in Slots' <=> i \in Nat /\ i < fd_cnt - 1
      /\ \A i \in Cells : clnt_fds'[i] # clnt_fds[i] =>
           i + 1 \in Slots /\ clnt_fds'[i] = clnt_fds[i + 1]
  BY RemoveSlots
<1>7. ConnAt(k) = x /\ k \in Nat  BY <1>3, <1>5, <1>6 DEF ConnAt
<1>8. \A i \in Slots' : \E j \in Slots : j >= i /\ j # k /\ ConnAt(i)' = ConnAt(j)
  <2>1. TAKE i \in Slots'
  <2>2. i \in Nat /\ i < fd_cnt - 1  BY <1>6
  <2>3. CASE k <= i
    <3>1. i + 1 \in Slots /\ i + 1 >= i /\ i + 1 # k  BY <1>6, <1>7, <2>2, <2>3
    <3>2. ConnAt(i)' = ConnAt(i + 1)  BY <1>1, <1>5, <2>3 DEF ConnAt
    <3>. QED  BY <3>1, <3>2
  <2>4. CASE ~(k <= i)
    <3>1. i \in Slots /\ i >= i /\ i # k  BY <1>6, <1>7, <2>2, <2>4
    <3>2. ConnAt(i)' = ConnAt(i)  BY <1>1, <1>5, <2>4 DEF ConnAt
    <3>. QED  BY <3>1, <3>2
  <2>. QED  BY <2>3, <2>4
<1>9. \A i \in Slots : i # k => \E j \in Slots' : (j = i \/ j = i - 1) /\ ConnAt(j)' = ConnAt(i)
  <2>1. SUFFICES ASSUME NEW i \in Slots, i # k
        PROVE \E j \in Slots' : (j = i \/ j = i - 1) /\ ConnAt(j)' = ConnAt(i)
    OBVIOUS
  <2>2. i \in Nat /\ i < fd_cnt /\ k < fd_cnt  BY <1>6
  <2>3. CASE k < i
    <3>1. i - 1 \in Slots' /\ k <= i - 1 /\ (i - 1) + 1 = i  BY <1>6, <1>7, <2>2, <2>3
    <3>2. ConnAt(i - 1)' = ConnAt(i)  BY <1>1, <1>5, <3>1 DEF ConnAt
    <3>. QED  BY <3>1, <3>2
  <2>4. CASE ~(k < i)
    <3>1. i \in Slots' /\ ~(k <= i)  BY <1>6, <1>7, <2>1, <2>2, <2>4
    <3>2. ConnAt(i)' = ConnAt(i)  BY <1>1, <1>5, <3>1 DEF ConnAt
    <3>. QED  BY <3>1, <3>2
  <2>. QED  BY <2>3, <2>4
<1>10. \A c \in Members : c # x => c \in Members'
  <2>1. SUFFICES ASSUME NEW c \in Members, c # x PROVE c \in Members'
    OBVIOUS
  <2>2. PICK i \in Slots : c = ConnAt(i)  BY SlotConns
  <2>3. PICK j \in Slots' : ConnAt(j)' = c  BY <1>7, <1>9, <2>1, <2>2
  <2>4. clnt_fds'[j] \in InRegistry' /\ fdtab'[clnt_fds'[j]] = c
    BY <2>3 DEF InRegistry, Slots, ConnAt
  <2>. QED  BY <2>4 DEF Members
<1>11. Calls(u)'  BY <1>1 DEF Cast, Calls
<1>12. Echoes(u)'
  <2>1. owed'[u] \subseteq Members'  BY <1>4, <1>10 DEF Cast, Echoes
  <2>. QED  BY <1>1, <1>4, <2>1 DEF Cast, Echoes, Onward
<1>13. tpc[u] # "write" /\ tpc'[u] # "write"
  BY <1>1 DEF CtlInv, MutexHeld, Free, Threads
<1>14. ti[u] \in Nat  BY DEF TypeOK
<1>15. Ahead(u)'
  <2>1. SUFFICES ASSUME Sending(u)', peer'[tconn'[u]] # "broken"
        PROVE /\ \A j \in Slots' : j >= ti[u] => copies[u][fdtab[clnt_fds'[j]]] = 0
              /\ tpc'[u] = "lock" /\ Valid(clnt_fds'[ti[u]]) =>
                   copies[u][fdtab[clnt_fds'[ti[u]]]] = 0
              /\ mpc = "register" /\ ti[u] <= fd_cnt - 1 => copies[u][fdtab[clntfd]] = 0
    BY <1>1, <1>13 DEF Ahead, ConnAt, Valid
  <2>2. Sending(u) /\ tpc'[u] = tpc[u] /\ peer[tconn[u]] # "broken"
    BY <1>1, <2>1 DEF Sending
  <2>3. \A j \in Slots : j >= ti[u] => copies[u][ConnAt(j)] = 0
    BY <2>2 DEF Cast, Ahead
  <2>4. \A j \in Slots' : j >= ti[u] => copies[u][fdtab[clnt_fds'[j]]] = 0
    <3>0. \A j \in Slots' : fdtab[clnt_fds'[j]] = ConnAt(j)'  BY <1>1 DEF ConnAt
    <3>1. \A j \in Slots' : j \in Nat  BY <1>6
    <3>2. \A j \in Slots : j \in Nat  BY <1>6
    <3>. QED  BY <1>8, <1>14, <2>3, <3>0, <3>1, <3>2
  <2>5. ASSUME tpc'[u] = "lock", Valid(clnt_fds'[ti[u]])
        PROVE copies[u][fdtab[clnt_fds'[ti[u]]]] = 0
    <3>1. ti[u] \in Cells  BY <2>2, <2>5 DEF CtlInv, SlotsWritten
    <3>2. CASE clnt_fds'[ti[u]] = clnt_fds[ti[u]]
      BY <1>1, <2>2, <2>5, <3>2 DEF Cast, Ahead, Valid, ConnAt
    <3>3. CASE ti[u] + 1 \in Slots /\ clnt_fds'[ti[u]] = clnt_fds[ti[u] + 1]
      <4>1. ti[u] + 1 >= ti[u]  BY <1>14
      <4>. QED  BY <2>3, <3>3, <4>1 DEF ConnAt
    <3>. QED  BY <1>6, <3>1, <3>2, <3>3
  <2>6. mpc = "register" /\ ti[u] <= fd_cnt - 1 => copies[u][fdtab[clntfd]] = 0
    BY <1>6, <1>14, <2>2 DEF Cast, Ahead
  <2>. QED  BY <2>4, <2>5, <2>6
<1>16. Missed(u)' \subseteq Missed(u) \ {x}  BY <1>1, <1>4 DEF Missed
<1>17. Skips(u)'
  <2>1. CASE Sending(u)
    <3>1. u # t /\ Sending(u)'  BY <1>1, <2>1 DEF Sending
    <3>2. \A c \in Behind(u)' : c \in Behind(u) \/ c = ConnAt(ti[u])
      <4>1. SUFFICES ASSUME NEW c \in Behind(u)', c # ConnAt(ti[u]),
                            NEW i \in Slots, i >= ti[u], ConnAt(i) = c
            PROVE FALSE
        BY <1>16 DEF Behind
      <4>2. c # x  BY <1>16 DEF Behind
      <4>3. PICK j \in Slots' : (j = i \/ j = i - 1) /\ ConnAt(j)' = c
        BY <1>7, <1>9, <4>1, <4>2
      <4>4. i # ti[u] /\ i \in Nat  BY <1>6, <4>1
      <4>5. j >= ti[u]  BY <1>14, <4>1, <4>3, <4>4
      <4>. QED  BY <1>1, <4>3, <4>5 DEF Behind
    <3>3. PICK S : S = Left(u)'  OBVIOUS
    <3>4. S \subseteq Left(u) \cup {ConnAt(ti[u])}
      BY <2>1, <3>1, <3>2, <3>3 DEF Left
    <3>5. Cardinality(S) \in Nat /\ Cardinality(S) <= Cardinality(Left(u)) + 1
          /\ Cardinality(Left(u)) \in Nat
      BY <3>4, OneMore, LeftFinite, FS_CardinalityType DEF Cast
    <3>6. Cardinality(S) <= shifts[u] + 1
      BY <3>5 DEF Cast, Skips, TypeOK
    <3>. QED  BY <1>4, <2>1, <3>3, <3>6 DEF Skips
  <2>2. CASE ~Sending(u)
    <3>1. ~Sending(u)'  BY <1>1, <2>2 DEF Sending
    <3>2. Left(u)' \subseteq Left(u)  BY <1>16, <2>2, <3>1 DEF Left
    <3>. QED  BY <1>4, <2>2, <3>2, SkipsKept
  <2>. QED  BY <2>1, <2>2
<1>. QED  BY <1>11, <1>12, <1>15, <1>17 DEF Cast
\* A descriptor is closed: nobody's slot and nobody else's connection.
LEMMA CastClose ==
  ASSUME TypeOK, CtlInv, Sound, Apart, Onward, NEW t \in Threads, Close(t),
         NEW u \in Threads, Cast(u)
  PROVE  Cast(u)'
<1>1. /\ tpc[t] = "close" /\ tpc'[t] = "done"
      /\ UNCHANGED <<peer, mpc, clntfd, clnt_fds, fd_cnt, tfd, tconn, ti, hist>>
      /\ (u # t => tpc'[u] = tpc[u])
  BY DEF Close, Step, mainv, globals, net, TypeOK
<1>2. PICK f : f = tfd[t]  OBVIOUS
<1>3. t \in Closing /\ f \in OpenFds /\ f \notin InRegistry /\ f \in ClosingFds
  BY <1>1, <1>2 DEF Sound, Owners, Closing, ClosingFds
<1>4. /\ \A g \in Fds : g # f => fdtab'[g] = fdtab[g]
      /\ fdtab'[f] = NoConn
  BY <1>2, <1>3 DEF Close, Valid, OpenFds, TypeOK
<1>5. Slots' = Slots /\ InRegistry' = InRegistry  BY <1>1 DEF Slots, InRegistry
<1>6. InRegistry \subseteq Fds \ {f}  BY <1>3 DEF Sound, Distinct, OpenFds
<1>7. \A g \in InRegistry : fdtab'[g] = fdtab[g]  BY <1>4, <1>6
<1>8. Members' = Members  BY <1>5, <1>7 DEF Members
<1>9. \A j \in Slots : ConnAt(j)' = ConnAt(j)
  BY <1>1, <1>7 DEF ConnAt, InRegistry, Slots
<1>10. Missed(u)' = Missed(u)  BY <1>1 DEF Missed, hist
<1>11. Behind(u)' = Behind(u)  BY <1>1, <1>5, <1>9, <1>10 DEF Behind
<1>12. Sending(u)' <=> Sending(u)  BY <1>1 DEF Sending
<1>13. Skips(u)'
  <2>1. Left(u)' = Left(u)  BY <1>10, <1>11, <1>12 DEF Left
  <2>. QED  BY <1>1, <2>1, SkipsKept DEF hist
<1>14. Echoes(u)'  BY <1>1, <1>8 DEF Cast, Echoes, Onward, hist
<1>15. Calls(u)'
  <2>1. CASE u = t  BY <1>1, <2>1 DEF Calls
  <2>2. CASE tpc[u] \in {"none", "lost", "start"}  BY <1>1, <2>2 DEF Cast, Calls
  <2>3. CASE tpc[u] \in {"read", "blocked", "eof", "test", "lock", "write"}
    <3>1. tfd[u] \in InRegistry  BY <2>3, OwnFd
    <3>. QED  BY <1>1, <1>7, <2>3, <3>1 DEF Cast, Calls
  <2>. QED  BY <1>1, <2>1, <2>2, <2>3 DEF Calls, TypeOK, TPcs
<1>16. Ahead(u)'
  <2>1. mpc = "register" => fdtab'[clntfd] = fdtab[clntfd]
    BY <1>3, <1>4 DEF Sound, Pending, OpenFds
  <2>2. Valid(clnt_fds[ti[u]])' => Valid(clnt_fds[ti[u]]) /\ ConnAt(ti[u])' = ConnAt(ti[u])
    BY <1>1, <1>4 DEF Valid, ConnAt
  <2>3. tpc'[u] \in {"lock", "write"} => tpc[u] \in {"lock", "write"}
    BY <1>1
  <2>. QED  BY <1>1, <1>5, <1>9, <1>12, <2>1, <2>2, <2>3 DEF Cast, Ahead, hist
<1>. QED  BY <1>13, <1>14, <1>15, <1>16 DEF Cast

\* A connection is accepted: nobody has written to it.
LEMMA CastAccept ==
  ASSUME TypeOK, CtlInv, Sound, Apart, Onward, Sound', AcceptOk, NEW u \in Threads, Cast(u)
  PROVE  Cast(u)'
<1>1. /\ backlog # <<>> /\ mpc' = "register"
      /\ UNCHANGED <<peer, clnt_fds, fd_cnt, tpc, tfd, tconn, ti, hist>>
  BY DEF AcceptOk, globals, threads
<1>2. PICK f \in Fds : /\ fdtab[f] = NoConn /\ clntfd' = f
                       /\ fdtab' = [fdtab EXCEPT ![f] = Head(backlog)]
  BY DEF AcceptOk, LowestFree
<1>3. PICK c \in Clients : c = Head(backlog)  BY <1>1 DEF TypeOK
<1>4. Waiting(c)
  <2>1. 1 \in DOMAIN backlog /\ c = backlog[1]  BY <1>1, <1>3 DEF TypeOK
  <2>. QED  BY <2>1 DEF Waiting
<1>5. copies[u][c] = 0  BY <1>4 DEF Cast, Echoes
<1>6. fdtab'[f] = c /\ \A g \in Fds : g # f => fdtab'[g] = fdtab[g]
  BY <1>2, <1>3 DEF TypeOK
<1>7. Slots' = Slots /\ InRegistry' = InRegistry  BY <1>1 DEF Slots, InRegistry
<1>8. f \notin OpenFds  BY <1>2 DEF OpenFds
<1>9. \A g \in InRegistry : fdtab'[g] = fdtab[g]
  BY <1>6, <1>8 DEF Sound, Distinct, OpenFds
<1>10. Members' = Members  BY <1>7, <1>9 DEF Members
<1>11. \A j \in Slots : ConnAt(j)' = ConnAt(j)
  BY <1>1, <1>9 DEF ConnAt, InRegistry, Slots
<1>12. Missed(u)' = Missed(u)  BY <1>1 DEF Missed, hist
<1>13. Behind(u)' = Behind(u)  BY <1>1, <1>7, <1>11, <1>12 DEF Behind
<1>14. Skips(u)'
  <2>1. Left(u)' = Left(u)  BY <1>1, <1>12, <1>13 DEF Left, Sending
  <2>. QED  BY <1>1, <2>1, SkipsKept DEF hist
<1>15. Echoes(u)'  BY <1>1, <1>10 DEF Cast, Echoes, Onward, hist
<1>16. Calls(u)'
  <2>1. CASE tpc[u] \in {"read", "blocked", "eof", "test", "lock", "write"}
    <3>1. tfd[u] \in InRegistry  BY <2>1, OwnFd
    <3>. QED  BY <1>1, <1>9, <2>1, <3>1 DEF Cast, Calls
  <2>. QED  BY <1>1, <2>1 DEF Cast, Calls
<1>17. Ahead(u)'
  <2>1. Valid(clnt_fds[ti[u]])' =>
          \/ ConnAt(ti[u])' = c
          \/ Valid(clnt_fds[ti[u]]) /\ ConnAt(ti[u])' = ConnAt(ti[u])
    BY <1>1, <1>6 DEF Valid, ConnAt
  <2>2. fdtab'[clntfd'] = c  BY <1>2, <1>6
  <2>. QED  BY <1>1, <1>5, <1>7, <1>11, <2>1, <2>2 DEF Cast, Ahead, Sending, hist
<1>. QED  BY <1>14, <1>15, <1>16, <1>17 DEF Cast

\* A connection is registered: the array grows by a slot that is ahead of
\* every thread, or was already passed.
LEMMA CastRegister ==
  ASSUME TypeOK, CtlInv, Sound, Apart, Onward, Register, NEW u \in Threads, Cast(u)
  PROVE  Cast(u)'
<1>1. /\ mpc = "register" /\ mpc' = "create" /\ mutex = Free
      /\ clnt_fds' = [clnt_fds EXCEPT ![fd_cnt] = clntfd] /\ fd_cnt' = fd_cnt + 1
      /\ UNCHANGED <<peer, fdtab, tpc, tfd, tconn, ti, hist>>
  BY DEF Register, threads, net
<1>2. fd_cnt \in Nat /\ fd_cnt \in Cells /\ Slots \subseteq Cells
  BY <1>1, CountBound, SlotCells, ChatAssumption DEF CtlInv, CtlType, Cells
<1>3. /\ Slots' = Slots \cup {fd_cnt} /\ clnt_fds'[fd_cnt] = clntfd
      /\ \A i \in Cells : i # fd_cnt => clnt_fds'[i] = clnt_fds[i]
      /\ \A i \in Slots : clnt_fds'[i] = clnt_fds[i]
  BY <1>1, <1>2 DEF Slots, TypeOK
<1>4. \A j \in Slots : ConnAt(j)' = ConnAt(j)  BY <1>1, <1>3 DEF ConnAt
<1>5. InRegistry \subseteq InRegistry'
  <2>1. InRegistry = {clnt_fds[i] : i \in Slots} /\ InRegistry' = {clnt_fds'[i] : i \in Slots'}
    BY DEF InRegistry, Slots
  <2>. QED  BY <1>3, <2>1
<1>6. Members \subseteq Members'  BY <1>1, <1>5 DEF Members
<1>7. tpc[u] # "write"
  BY <1>1 DEF CtlInv, MutexHeld, Free, Threads
<1>8. Left(u)' \subseteq Left(u)
  BY <1>1, <1>3, <1>4 DEF Left, Sending, Behind, Missed, hist
<1>9. Skips(u)'  BY <1>1, <1>8, SkipsKept DEF hist
<1>10. Echoes(u)'  BY <1>1, <1>6 DEF Cast, Echoes, Onward, hist
<1>11. Calls(u)'  BY <1>1 DEF Cast, Calls
<1>12. Ahead(u)'
  <2>1. SUFFICES ASSUME Sending(u)', peer'[tconn'[u]] # "broken"
        PROVE /\ \A j \in Slots' : j >= ti[u] => copies[u][fdtab[clnt_fds'[j]]] = 0
              /\ tpc[u] = "lock" /\ Valid(clnt_fds'[ti[u]]) =>
                   copies[u][fdtab[clnt_fds'[ti[u]]]] = 0
    BY <1>1, <1>7 DEF Ahead, ConnAt, Valid, hist
  <2>2. Sending(u) /\ peer[tconn[u]] # "broken"  BY <1>1, <2>1 DEF Sending
  <2>3. ti[u] <= fd_cnt => copies[u][fdtab[clntfd]] = 0
    BY <1>1, <2>2 DEF Cast, Ahead
  <2>4. ti[u] \in Nat  BY DEF TypeOK
  <2>5. \A j \in Slots' : j >= ti[u] => copies[u][fdtab[clnt_fds'[j]]] = 0
    <3>1. \A j \in Slots : j >= ti[u] => copies[u][fdtab[clnt_fds'[j]]] = 0
      BY <1>3, <2>2 DEF Cast, Ahead, ConnAt
    <3>. QED  BY <1>2, <1>3, <2>3, <2>4, <3>1
  <2>6. ASSUME tpc[u] = "lock", Valid(clnt_fds'[ti[u]])
        PROVE  copies[u][fdtab[clnt_fds'[ti[u]]]] = 0
    <3>1. ti[u] \in Cells  BY <2>6 DEF CtlInv, SlotsWritten
    <3>2. CASE ti[u] = fd_cnt  BY <1>2, <1>3, <2>3, <3>2
    <3>3. CASE ti[u] # fd_cnt
      BY <1>3, <2>2, <2>6, <3>1, <3>3 DEF Cast, Ahead, ConnAt
    <3>. QED  BY <3>2, <3>3
  <2>. QED  BY <2>5, <2>6
<1>. QED  BY <1>9, <1>10, <1>11, <1>12 DEF Cast

LEMMA CastCreate ==
  ASSUME TypeOK, CtlInv, Sound, Onward, CreateOk \/ CreateFail, NEW u \in Threads, Cast(u)
  PROVE  Cast(u)'
<1>1. PICK x \in {"start", "lost"} : tpc' = [tpc EXCEPT ![nacc] = x]
  BY DEF CreateOk, CreateFail
<1>2. /\ mpc = "create" /\ mpc' = "wait"
      /\ UNCHANGED <<fdtab, clntfd, nacc, clnt_fds, fd_cnt, tfd, tconn, ti, hist>>
  BY DEF CreateOk, CreateFail, globals
<1>3. PICK n \in Threads : n = nacc /\ tpc[n] = "none"
  BY <1>2, ChatAssumption DEF CtlInv, Started, CtlType, Threads
<1>4. \A t \in Threads : tpc'[t] = IF t = n THEN x ELSE tpc[t]
  BY <1>1, <1>3 DEF TypeOK
<1>5. UNCHANGED Mine(u)  BY <1>2 DEF Mine, hist
<1>6. CASE u = n
  <2>1. Calls(u)'  BY <1>2, <1>3, <1>4, <1>6 DEF Cast, Calls
  <2>2. ~Sending(u) /\ ~Sending(u)'  BY <1>3, <1>4, <1>6 DEF Sending
  <2>. QED  BY <1>2, <1>5, <2>1, <2>2, CastFrame
<1>7. CASE u # n
  BY <1>2, <1>4, <1>5, <1>7, CastStill
<1>. QED  BY <1>6, <1>7
-----------------------------------------------------------------------------
(* The invariant is inductive. *)

LEMMA CastInit == Init => CastInv
<1>. SUFFICES ASSUME Init PROVE CastInv  OBVIOUS
<1>1. Apart  BY DEF Init, Apart, OpenFds
<1>2. ASSUME NEW t \in Threads PROVE Cast(t)
  <2>1. Calls(t) /\ Echoes(t) /\ Ahead(t)
    BY ChatAssumption DEF Init, Calls, Echoes, Ahead, Sending
  <2>2. Left(t) = {}  BY DEF Init, Left, Sending, Missed
  <2>3. Skips(t)  BY <2>2, FS_EmptySet DEF Init, Skips
  <2>. QED  BY <2>1, <2>3 DEF Cast
<1>. QED  BY <1>1, <1>2 DEF CastInv

\* What other threads see of a thread's step in its loop or at its read.
LEMMA CastOthers ==
  ASSUME TypeOK, CtlInv, Sound, Onward, NEW t \in Threads, Thread(t), ~Remove(t), ~Close(t),
         NEW u \in Threads, u # t, Cast(u)
  PROVE  Cast(u)'
<1>1. UNCHANGED <<fdtab, clnt_fds, fd_cnt, clntfd, mpc>>
  BY DEF Thread, Start, ReadCall, ReadBadFd, ReadData, ReadEof, ReadErr, LoopTest, LockSelf,
         LockOther, Write, WriteBadFd, WriteSigpipe, mainv, globals
<1>2. tpc'[u] = tpc[u] /\ tconn'[u] = tconn[u] /\ ti'[u] = ti[u] /\ tfd'[u] = tfd[u]
  BY DEF Thread, Start, ReadCall, ReadBadFd, ReadData, ReadEof, ReadErr, LoopTest, LockSelf,
         LockOther, Write, WriteBadFd, WriteSigpipe, Step, NextSlot, threads, TypeOK
<1>3. copies'[u] = copies[u] /\ owed'[u] = owed[u] /\ shifts'[u] = shifts[u]
  BY DEF Thread, Start, ReadCall, ReadBadFd, ReadData, ReadEof, ReadErr, LoopTest, LockSelf,
         LockOther, Write, WriteBadFd, WriteSigpipe, hist, TypeOK
<1>. QED  BY <1>1, <1>2, <1>3, CastStill DEF Mine

LEMMA CastNext == TypeOK /\ CtlInv /\ RegInv /\ RegInv' /\ CastInv /\ [Next]_vars => CastInv'
<1>. SUFFICES ASSUME TypeOK, CtlInv, RegInv, RegInv', CastInv, [Next]_vars PROVE CastInv'
  OBVIOUS
<1>1. Apart /\ Apart' /\ Onward  BY ApartStep, GoOn DEF CastInv, Onward
<1>2. SUFFICES ASSUME ~raced', NEW u \in Threads PROVE Cast(u)'
  BY <1>1 DEF CastInv
<1>3. Sound'  BY <1>2 DEF RegInv
<1>4. ASSUME ~raced PROVE Sound /\ Cast(u)  BY <1>4 DEF RegInv, CastInv
<1>5. ASSUME ~raced, UNCHANGED <<fdtab, mainv, globals, threads, hist>> PROVE Cast(u)'
  BY <1>1, <1>4, <1>5, CastStill DEF Mine, mainv, globals, threads, hist
<1>6. CASE UNCHANGED vars
  BY <1>2, <1>5, <1>6 DEF vars, mainv
<1>7. ASSUME NEW c \in Clients, Client(c) PROVE Cast(u)'
  BY <1>2, <1>5, <1>7 DEF Client, Connect, Send, Quit, Kill, ClientRead, mainv
<1>8. CASE Main
  <2>1. ~raced
    BY <1>2, <1>8 DEF Main, AcceptOk, AcceptFail, Register, CreateOk, CreateFail, Races
  <2>2. CASE AcceptFail
    <3>1. mpc' # "register" /\ UNCHANGED <<fdtab, globals, threads, hist>>
      BY <2>2 DEF AcceptFail
    <3>. QED
      BY <1>1, <1>4, <2>1, <3>1, CastStill DEF Mine, globals, threads, hist
  <2>. QED
    BY <1>1, <1>3, <1>4, <1>8, <2>1, <2>2, CastAccept, CastRegister, CastCreate DEF Main
<1>9. ASSUME NEW t \in Threads, Thread(t) PROVE Cast(u)'
  <2>1. ~raced
    BY <1>2, <1>9 DEF Thread, Start, ReadCall, ReadBadFd, ReadData, ReadEof, ReadErr, LoopTest,
       LockSelf, LockOther, Write, WriteBadFd, WriteSigpipe, Remove, Close, mainv
  <2>2. CASE Remove(t) \/ Close(t)
    BY <1>1, <1>4, <2>1, <2>2, CastRemove, CastClose
  <2>3. CASE ~Remove(t) /\ ~Close(t) /\ u # t
    BY <1>1, <1>4, <1>9, <2>1, <2>3, CastOthers
  <2>4. CASE ~Remove(t) /\ ~Close(t) /\ u = t
    <3>1. ~ReadBadFd(t)
      BY <1>4, <2>1, OwnFd DEF ReadBadFd, Step
    <3>. QED
      BY <1>1, <1>4, <1>9, <2>1, <2>4, <3>1, CastOutside, CastRead, CastLoop, CastWrite
      DEF Thread
  <2>. QED  BY <2>2, <2>3, <2>4
<1>. QED  BY <1>6, <1>7, <1>8, <1>9 DEF Next

LEMMA CastSafe == Spec => []CastInv
BY CastInit, CastNext, RegSafe, CtlSafe, TypeSafe, PTL DEF Spec

\* As long as no thread's argument was overwritten, a message is written to
\* each of the other clients at most once, never to its sender, and to all
\* that were registered when it was read and still are, but one for each
\* removal meanwhile, for any number of clients and whoever comes and leaves
\* during the loop; never, in any case, to a slot that was not written
\* (chat_server.c:121-158).
THEOREM BroadcastIsSound == Spec => []BroadcastSound
<1>1. TypeOK /\ CtlInv /\ CastInv => BroadcastSound
  <2>. SUFFICES ASSUME TypeOK, CastInv, ~raced, NEW t \in Threads
       PROVE  /\ Sending(t) /\ tconn[t] # NoConn => copies[t][tconn[t]] = 0
              /\ \A c \in Clients : copies[t][c] > 1 => peer[tconn[t]] = "broken"
              /\ tpc[t] = "read" => Cardinality(Missed(t)) <= shifts[t]
    BY DEF BroadcastSound, OthersOnce, NoMiss, Missed, CtlInv
  <2>1. Cast(t)  BY DEF CastInv
  <2>. QED  BY <2>1 DEF Cast, Echoes, Skips, Left, Sending
<1>. QED  BY <1>1, TypeSafe, CtlSafe, CastSafe, PTL

-----------------------------------------------------------------------------
(***************************************************************************)
(* The room.                                                               *)
(***************************************************************************)

\* What is known before and after a step.
Known == TypeOK /\ CtlInv /\ Sound /\ Apart /\ \A t \in Threads : Cast(t)

\* Who is registered or closing is open, and nobody is both.
LEMMA Whereabouts == TypeOK /\ Sound /\ Apart =>
  /\ Registered = Members /\ Registered \subseteq OpenConns
  /\ ClosingConns \subseteq OpenConns /\ Registered \cap ClosingConns = {}
  /\ OpenConns \subseteq Clients
<1>. SUFFICES ASSUME TypeOK, Sound, Apart
     PROVE  /\ Registered = Members /\ Registered \subseteq OpenConns
            /\ ClosingConns \subseteq OpenConns /\ Registered \cap ClosingConns = {}
            /\ OpenConns \subseteq Clients
  OBVIOUS
<1>1. InRegistry \subseteq OpenFds /\ InRegistry = {clnt_fds[i] : i \in 0..(fd_cnt - 1)}
  BY DEF Sound, Distinct, InRegistry
<1>2. \A f \in OpenFds : Valid(f) /\ fdtab[f] \in Clients
  BY DEF OpenFds, Valid, TypeOK
<1>3. Registered = Members
  BY <1>1, <1>2 DEF Registered, Members
<1>4. ClosingFds \subseteq OpenFds \ InRegistry
  BY DEF Sound, Owners, ClosingFds, Closing
<1>5. ClosingConns = {fdtab[f] : f \in ClosingFds}
  BY <1>2, <1>4 DEF ClosingConns
<1>6. OpenConns = {fdtab[f] : f \in OpenFds}
  BY DEF OpenConns, OpenFds
<1>7. \A f, g \in OpenFds : fdtab[f] = fdtab[g] => f = g
  BY DEF Apart
<1>. QED  BY <1>1, <1>2, <1>3, <1>4, <1>5, <1>6, <1>7 DEF Members

LEMMA StillMembers == (TypeOK /\ Sound /\ Apart)' => (Registered = Members)'
<1>1. TypeOK /\ Sound /\ Apart => Registered = Members  BY Whereabouts
<1>. QED  BY <1>1, PTL

\* Steps that leave the table and the registry alone and close nothing.
LEMMA PlacesStay ==
  ASSUME UNCHANGED <<fdtab, clnt_fds, fd_cnt>>, ClosingFds' = ClosingFds
  PROVE  UNCHANGED <<AtDoor, Registered, ClosingConns, OpenConns>>
<1>1. Registered' = Registered  BY DEF Registered, Valid
<1>2. ClosingConns' = ClosingConns  BY DEF ClosingConns, Valid
<1>3. OpenConns' = OpenConns  BY DEF OpenConns
<1>. QED  BY <1>1, <1>2, <1>3 DEF AtDoor

LEMMA GoneStay ==
  ASSUME UNCHANGED <<fdtab, backlog>>, \A c \in Clients : peer'[c] = "idle" <=> peer[c] = "idle"
  PROVE  Gone' = Gone
BY DEF Gone, Open, Queued

\* Threads that do not close, end or start to send.
LEMMA VoicesStay ==
  ASSUME TypeOK, TypeOK', \A t \in Threads :
           /\ tconn'[t] = tconn[t]
           /\ tpc[t] \in {"close", "done"} <=> tpc'[t] \in {"close", "done"}
           /\ Sending(t)' <=> Sending(t)
  PROVE  UNCHANGED <<VoiceOf, Speakers>>
BY DEF VoiceOf, Speakers

\* What the clients do does not change the room, but that one is reset.
LEMMA RoomClient ==
  ASSUME Known, TypeOK', NEW c \in Clients, Client(c)
  PROVE  Chat!RoomNext \/ UNCHANGED Chat!room
<1>1. UNCHANGED <<fdtab, clnt_fds, fd_cnt, tpc, tfd, tconn, copies, owed, shifts>>
  BY DEF Client, Connect, Send, Quit, Kill, ClientRead, globals, threads, hist
<1>2. UNCHANGED <<AtDoor, Registered, ClosingConns>>
  BY <1>1, PlacesStay DEF ClosingFds
<1>3. UNCHANGED <<VoiceOf, Speakers>>
  BY <1>1 DEF VoiceOf, Speakers, Sending
<1>4. peer \in [Clients -> PeerStates]  BY DEF Known, TypeOK
<1>5. CASE Connect(c)
  <2>1. peer[c] = "idle" /\ peer' = [peer EXCEPT ![c] = "up"] /\ backlog' = Append(backlog, c)
    BY <1>5 DEF Connect
  <2>2. \A d : Queued(d)' <=> Queued(d) \/ d = c
    <3>1. backlog \in Seq(Clients)  BY DEF Known, TypeOK
    <3>2. /\ DOMAIN backlog = 1..Len(backlog) /\ Len(backlog) \in Nat
          /\ DOMAIN backlog' = 1..(Len(backlog) + 1)
          /\ backlog'[Len(backlog) + 1] = c
          /\ \A i \in 1..Len(backlog) : backlog'[i] = backlog[i]
      BY <2>1, <3>1
    <3>3. \A i : i \in 1..(Len(backlog) + 1) <=> i \in 1..Len(backlog) \/ i = Len(backlog) + 1
      BY <3>2
    <3>. QED  BY <3>2, <3>3 DEF Queued
  <2>3. Gone' = Gone
    BY <1>1, <1>4, <2>1, <2>2 DEF Gone, Open
  <2>4. Broken' = Broken  BY <1>4, <2>1 DEF Broken
  <2>. QED  BY <1>1, <1>2, <1>3, <2>3, <2>4 DEF Chat!room, Chat!places, Chat!speech
<1>6. CASE Send(c) \/ Quit(c) \/ ClientRead(c)
  <2>1. backlog' = backlog /\ \A d \in Clients :
          (peer'[d] = "idle" <=> peer[d] = "idle") /\ (peer'[d] = "broken" <=> peer[d] = "broken")
    BY <1>4, <1>6 DEF Send, Quit, ClientRead
  <2>2. Gone' = Gone  BY <1>1, <2>1, GoneStay
  <2>3. Broken' = Broken  BY <2>1 DEF Broken
  <2>. QED  BY <1>1, <1>2, <1>3, <2>2, <2>3 DEF Chat!room, Chat!places, Chat!speech
<1>7. CASE Kill(c)
  <2>1. /\ backlog' = backlog /\ Reads(peer[c])
        /\ peer' = [peer EXCEPT ![c] = CloseBy(peer[c], outq[c] > 0)]
    BY <1>7 DEF Kill
  <2>2. peer'[c] # "idle" /\ peer[c] # "idle" /\ peer[c] # "broken"
    <3>1. (outq[c] > 0) \in BOOLEAN  BY DEF Known, TypeOK
    <3>2. CloseBy(peer[c], outq[c] > 0) # "idle"  BY <1>4, <2>1, <3>1, PeerSteps, Zenon
    <3>3. peer[c] # "idle" /\ peer[c] # "broken"  BY <1>4, <2>1, PeerSteps
    <3>. QED  BY <1>4, <2>1, <3>2, <3>3
  <2>3. \A d \in Clients : d # c => peer'[d] = peer[d]  BY <1>4, <2>1
  <2>4. Gone' = Gone  BY <1>1, <2>1, <2>2, <2>3, GoneStay
  <2>5. Broken' = Broken \/ Broken' = Broken \cup {c}
    <3>1. peer'[c] = "broken" => Broken' = Broken \cup {c}  BY <2>3 DEF Broken
    <3>2. peer'[c] # "broken" => Broken' = Broken  BY <2>2, <2>3 DEF Broken
    <3>. QED  BY <3>1, <3>2
  <2>6. CASE Broken' = Broken
    BY <1>1, <1>2, <1>3, <2>4, <2>6 DEF Chat!room, Chat!places, Chat!speech
  <2>7. CASE Broken' = Broken \cup {c}
    <3>1. Chat!Reset(c)
      BY <1>1, <1>2, <1>3, <2>4, <2>7 DEF Chat!Reset, Chat!places, Chat!speech
    <3>. QED  BY <3>1 DEF Chat!RoomNext
  <2>. QED  BY <2>5, <2>6, <2>7
<1>. QED  BY <1>5, <1>6, <1>7 DEF Client

\* accept() lets the first of the backlog in; to register is to enter.
LEMMA RoomMain ==
  ASSUME Known, Sound', TypeOK', Main
  PROVE  Chat!RoomNext \/ UNCHANGED Chat!room
<1>1. UNCHANGED <<peer, tfd, tconn, copies, owed, shifts>>
  BY DEF Main, AcceptOk, AcceptFail, Register, CreateOk, CreateFail, net, threads, hist
<1>2. Broken' = Broken  BY <1>1 DEF Broken
<1>3. ASSUME UNCHANGED tpc PROVE UNCHANGED <<VoiceOf, Speakers, ClosingFds>>
  BY <1>1, <1>3 DEF VoiceOf, Speakers, Sending, ClosingFds
<1>4. CASE AcceptOk
  <2>1. UNCHANGED <<tpc, clnt_fds, fd_cnt>> /\ backlog # <<>> /\ backlog' = Tail(backlog)
    BY <1>4 DEF AcceptOk, globals, threads
  <2>2. PICK f \in Fds : fdtab[f] = NoConn /\ fdtab' = [fdtab EXCEPT ![f] = Head(backlog)]
    BY <1>4 DEF AcceptOk, LowestFree
  <2>0. backlog \in Seq(Clients)  BY DEF Known, TypeOK
  <2>3. PICK c \in Clients : c = Head(backlog)  BY <2>0, <2>1
  <2>4. /\ DOMAIN backlog = 1..Len(backlog) /\ Len(backlog) \in Nat \ {0} /\ c = backlog[1]
        /\ DOMAIN backlog' = 1..(Len(backlog) - 1)
        /\ \A i \in 1..(Len(backlog) - 1) : backlog'[i] = backlog[i + 1]
    BY <2>0, <2>1, <2>3
  <2>5. \A d : Queued(d)' <=> Queued(d) /\ d # c
    <3>1. \A i \in 1..(Len(backlog) - 1) : i + 1 \in DOMAIN backlog /\ i + 1 # 1
      BY <2>4
    <3>2. \A i \in DOMAIN backlog : i # 1 => i - 1 \in DOMAIN backlog' /\ backlog'[i - 1] = backlog[i]
      BY <2>4
    <3>3. 1 \in DOMAIN backlog  BY <2>4
    <3>4. \A i, j \in DOMAIN backlog : backlog[i] = backlog[j] => i = j  BY DEF Known, Apart
    <3>5. ASSUME NEW d, Queued(d)' PROVE Queued(d) /\ d # c
      BY <2>4, <3>1, <3>3, <3>4, <3>5 DEF Queued
    <3>6. ASSUME NEW d, Queued(d), d # c PROVE Queued(d)'
      BY <2>4, <3>2, <3>6 DEF Queued
    <3>. QED  BY <3>5, <3>6
  <2>6. Queued(c) /\ peer[c] # "idle" /\ \A g \in Fds : fdtab[g] # c
    BY <2>4 DEF Known, Apart, Queued
  <2>7. fdtab'[f] = c /\ c # NoConn /\ \A g \in Fds : g # f => fdtab'[g] = fdtab[g]
    BY <2>2, <2>3, ChatAssumption DEF Known, TypeOK
  <2>8. Gone' = Gone  BY <1>1, <2>2, <2>5, <2>6, <2>7, ChatAssumption DEF Gone, Open
  <2>9. OpenConns' = OpenConns \cup {c} /\ c \notin OpenConns
    BY <2>2, <2>6, <2>7 DEF OpenConns
  <2>10. InRegistry \subseteq OpenFds /\ ClosingFds \subseteq OpenFds /\ f \notin OpenFds
    BY <2>2 DEF Known, Sound, Distinct, Owners, OpenFds, ClosingFds, Closing
  <2>11. \A g \in OpenFds : fdtab'[g] = fdtab[g] /\ Valid(g) /\ Valid(g)'
    BY <2>7, <2>10 DEF OpenFds, Valid
  <2>12. Registered' = Registered
    <3>1. \A i \in 0..(fd_cnt - 1) : clnt_fds[i] \in OpenFds  BY <2>10 DEF InRegistry
    <3>. QED  BY <2>1, <2>11, <3>1 DEF Registered
  <2>13. ClosingConns' = ClosingConns
    BY <1>3, <2>1, <2>10, <2>11 DEF ClosingConns
  <2>14. AtDoor' = AtDoor \cup {c} /\ c \notin AtDoor \cup Registered \cup ClosingConns \cup Gone
    BY <2>6, <2>9, <2>12, <2>13, Whereabouts DEF AtDoor, Gone, Open, Known
  <2>15. Chat!Arrive(c)
    BY <1>1, <1>2, <1>3, <2>1, <2>8, <2>12, <2>13, <2>14 DEF Chat!Arrive, Chat!speech
  <2>. QED  BY <2>15 DEF Chat!RoomNext
<1>5. CASE AcceptFail
  <2>1. UNCHANGED <<tpc, fdtab, clnt_fds, fd_cnt, backlog>>
    BY <1>5 DEF AcceptFail, globals, threads, net
  <2>2. Gone' = Gone  BY <1>1, <2>1, GoneStay
  <2>. QED  BY <1>1, <1>2, <1>3, <2>1, <2>2, PlacesStay DEF Chat!room, Chat!places, Chat!speech
<1>6. CASE Register
  <2>1. /\ mpc = "register" /\ UNCHANGED <<tpc, fdtab, backlog>>
        /\ clnt_fds' = [clnt_fds EXCEPT ![fd_cnt] = clntfd] /\ fd_cnt' = fd_cnt + 1
    BY <1>6 DEF Register, threads, net
  <2>2. clntfd \in OpenFds \ (InRegistry \cup ClosingFds)
    BY <2>1 DEF Known, Sound, Pending
  <2>3. PICK c \in Clients : c = fdtab[clntfd]  BY <2>2 DEF OpenFds, Known, TypeOK
  <2>4. fd_cnt \in Nat /\ fd_cnt \in Cells /\ Slots \subseteq Cells
    BY <2>1, CountBound, SlotCells, ChatAssumption DEF Known, CtlInv, CtlType, Cells
  <2>5. /\ Slots' = Slots \cup {fd_cnt} /\ clnt_fds'[fd_cnt] = clntfd
        /\ \A i \in Slots : clnt_fds'[i] = clnt_fds[i]
    BY <2>1, <2>4 DEF Slots, Known, TypeOK
  <2>6. InRegistry' = InRegistry \cup {clntfd}
    BY <2>5 DEF InRegistry, Slots
  <2>7. Registered' = Members' /\ Registered = Members
    <3>1. Apart'  BY <1>1, <2>1 DEF Known, Apart, OpenFds
    <3>2. Registered' = Members'  BY <3>1, StillMembers
    <3>. QED  BY <3>2, Whereabouts DEF Known
  <2>8. Registered' = Registered \cup {c}
    BY <2>1, <2>3, <2>6, <2>7 DEF Members
  <2>9. ClosingConns' = ClosingConns /\ OpenConns' = OpenConns
    BY <1>3, <2>1 DEF ClosingConns, OpenConns, Valid
  <2>10. c \in AtDoor
    <3>1. c \in OpenConns  BY <2>2, <2>3 DEF OpenConns, OpenFds
    <3>2. c \notin Members
      BY <2>2, <2>3 DEF Members, Known, Apart, Sound, Distinct
    <3>3. c \notin ClosingConns
      BY <2>2, <2>3 DEF ClosingConns, Known, Apart, Valid, OpenFds
    <3>. QED  BY <2>7, <3>1, <3>2, <3>3 DEF AtDoor
  <2>11. AtDoor' = AtDoor \ {c}
    BY <2>8, <2>9 DEF AtDoor
  <2>12. Gone' = Gone  BY <1>1, <2>1, GoneStay
  <2>13. Chat!Enter(c)
    BY <1>1, <1>2, <1>3, <2>1, <2>8, <2>9, <2>10, <2>11, <2>12 DEF Chat!Enter, Chat!speech
  <2>. QED  BY <2>13 DEF Chat!RoomNext
<1>7. CASE CreateOk \/ CreateFail
  <2>1. PICK x \in {"start", "lost"} : tpc' = [tpc EXCEPT ![nacc] = x]
    BY <1>7 DEF CreateOk, CreateFail
  <2>2. mpc = "create" /\ mpc' = "wait" /\ UNCHANGED <<fdtab, clnt_fds, fd_cnt, backlog>>
    BY <1>7 DEF CreateOk, CreateFail, globals, net
  <2>3. nacc \in Threads /\ tpc[nacc] = "none"
    BY <2>2, ChatAssumption DEF Known, CtlInv, Started, CtlType, Threads
  <2>4. \A t \in Threads : tpc'[t] = IF t = nacc THEN x ELSE tpc[t]
    BY <2>1, <2>3 DEF Known, TypeOK
  <2>5. UNCHANGED <<VoiceOf, Speakers>>
    BY <1>1, <2>3, <2>4 DEF VoiceOf, Speakers, Sending
  <2>6. ClosingFds' = ClosingFds
    <3>1. {u \in Threads : tpc[u] = "close"}' = {u \in Threads : tpc[u] = "close"}
      BY <2>3, <2>4
    <3>. QED  BY <1>1, <3>1 DEF ClosingFds
  <2>7. Gone' = Gone  BY <1>1, <2>2, GoneStay
  <2>. QED  BY <1>1, <1>2, <2>2, <2>5, <2>6, <2>7, PlacesStay DEF Chat!room, Chat!places, Chat!speech
<1>. QED  BY <1>4, <1>5, <1>6, <1>7 DEF Main

-----------------------------------------------------------------------------
(* What a thread does. *)

\* Every step but a removal and a close leaves the clients where they are.
LEMMA PlacesKept ==
  ASSUME TypeOK, TypeOK', NEW t \in Threads, UNCHANGED <<fdtab, clnt_fds, fd_cnt, backlog>>,
         tpc[t] # "close", tpc'[t] # "close",
         \A u \in Threads : u # t => tpc'[u] = tpc[u] /\ tfd'[u] = tfd[u],
         \A c \in Clients : peer'[c] = "idle" <=> peer[c] = "idle"
  PROVE  UNCHANGED <<AtDoor, Registered, ClosingConns, Gone>>
<1>1. {u \in Threads : tpc[u] = "close"}' = {u \in Threads : tpc[u] = "close"}
  OBVIOUS
<1>2. \A u \in Threads : tpc[u] = "close" => tfd'[u] = tfd[u]  OBVIOUS
<1>3. ClosingFds' = ClosingFds  BY <1>1, <1>2 DEF ClosingFds
<1>. QED  BY <1>3, PlacesStay, GoneStay

\* Steps that nobody hears.
LEMMA RoomQuiet ==
  ASSUME Known, TypeOK', NEW t \in Threads,
         \/ Start(t) \/ ReadEof(t) \/ LockSelf(t) \/ LockOther(t) \/ WriteBadFd(t)
         \/ WriteSigpipe(t) \/ (LoopTest(t) /\ tpc'[t] = "lock")
  PROVE  UNCHANGED Chat!room
<1>0. TypeOK  BY DEF Known
<1>1. UNCHANGED <<fdtab, clnt_fds, fd_cnt, backlog, peer, tconn, copies, owed, shifts>>
  BY DEF Start, ReadEof, LockSelf, LockOther, WriteBadFd, WriteSigpipe, LoopTest,
         net, globals, threads, hist
<1>2. /\ tpc[t] \notin {"close", "done"} /\ tpc'[t] \notin {"close", "done"}
      /\ Sending(t)' <=> Sending(t)
  BY <1>0 DEF Start, ReadEof, LockSelf, LockOther, WriteBadFd, WriteSigpipe, LoopTest, Step,
         threads, TypeOK, Sending
<1>3. \A u \in Threads : u # t => tpc'[u] = tpc[u] /\ tfd'[u] = tfd[u]
  BY <1>0 DEF Start, ReadEof, LockSelf, LockOther, WriteBadFd, WriteSigpipe, LoopTest, Step,
         threads, TypeOK
<1>4. UNCHANGED <<AtDoor, Registered, ClosingConns, Gone>>
  BY <1>0, <1>1, <1>2, <1>3, PlacesKept
<1>5. UNCHANGED <<VoiceOf, Speakers>>
  <2>1. \A u \in Threads : /\ tconn'[u] = tconn[u]
                           /\ tpc[u] \in {"close", "done"} <=> tpc'[u] \in {"close", "done"}
                           /\ Sending(u)' <=> Sending(u)
    BY <1>1, <1>2, <1>3 DEF Sending
  <2>. QED  BY <1>0, <2>1, VoicesStay
<1>. QED  BY <1>1, <1>4, <1>5 DEF Broken, Chat!room, Chat!places, Chat!speech

\* A thread that reads or sends is the voice of a member, and no other is.
LEMMA OneVoice ==
  ASSUME Known, NEW t \in Threads, tpc[t] \in {"read", "blocked", "eof", "test", "lock", "write"}
  PROVE  /\ fdtab[tfd[t]] \in Registered /\ fdtab[tfd[t]] \in Clients
         /\ VoiceOf[t] = tconn[t]
         /\ tpc[t] # "read" => tconn[t] = fdtab[tfd[t]]
         /\ \A u \in Threads : u # t => VoiceOf[u] # fdtab[tfd[t]]
<1>0. TypeOK /\ Sound /\ Apart /\ \A u \in Threads : Cast(u)  BY DEF Known
<1>1. Registered = Members  BY <1>0, Whereabouts
<1>2. /\ tfd[t] \in OpenFds /\ fdtab[tfd[t]] \in Members /\ fdtab[tfd[t]] \in Clients
  BY <1>0, OwnFd
<1>3. VoiceOf[t] = tconn[t] /\ (tpc[t] # "read" => tconn[t] = fdtab[tfd[t]])
  BY <1>0 DEF VoiceOf, Cast, Calls
<1>4. ASSUME NEW u \in Threads, u # t, VoiceOf[u] = fdtab[tfd[t]] PROVE FALSE
  <2>1. VoiceOf[u] # NoConn  BY <1>2, <1>4, ChatAssumption
  <2>2. tpc[u] \notin {"close", "done"} /\ VoiceOf[u] = tconn[u]
    BY <2>1 DEF VoiceOf
  <2>3. tpc[u] \in {"read", "blocked", "eof", "test", "lock", "write"}
    BY <1>0, <2>1, <2>2 DEF Cast, Calls, TypeOK, TPcs
  <2>4. tconn[u] = fdtab[tfd[u]]
    BY <1>0, <2>1, <2>2, <2>3 DEF Cast, Calls
  <2>5. tfd[u] \in OpenFds  BY <1>0, <2>3, OwnFd
  <2>6. tfd[u] = tfd[t]  BY <1>0, <1>2, <1>4, <2>2, <2>4, <2>5 DEF Apart
  <2>7. u \in Live /\ t \in Live /\ FdOf(u) = FdOf(t)
    BY <2>3, <2>6 DEF Live, FdOf
  <2>. QED  BY <1>0, <1>4, <2>7 DEF Sound, Owners
<1>. QED  BY <1>1, <1>2, <1>3, <1>4

\* read(): a thread becomes the voice of its connection.
LEMMA RoomCall ==
  ASSUME Known, TypeOK', NEW t \in Threads, ReadCall(t)
  PROVE  Chat!RoomNext \/ UNCHANGED Chat!room
<1>0. TypeOK  BY DEF Known
<1>1. /\ UNCHANGED <<fdtab, clnt_fds, fd_cnt, backlog, peer, tfd, copies, owed, shifts>>
      /\ tpc[t] = "read" /\ tpc'[t] = "blocked"
      /\ \A u \in Threads : u # t => tpc'[u] = tpc[u]
  BY <1>0 DEF ReadCall, Step, net, globals, hist, TypeOK
<1>2. PICK c \in Clients : c = fdtab[tfd[t]]  BY <1>1, OneVoice
<1>3. c \in Registered /\ VoiceOf[t] = tconn[t] /\ \A u \in Threads : u # t => VoiceOf[u] # c
  BY <1>1, <1>2, OneVoice
<1>4. UNCHANGED <<AtDoor, Registered, ClosingConns, Gone, Broken>>
  BY <1>0, <1>1, PlacesKept DEF Broken
<1>5. Speakers' = Speakers  BY <1>1 DEF Speakers, Sending
<1>6. tconn[t] = NoConn \/ tconn[t] = c
  BY <1>1, <1>2 DEF Known, Cast, Calls
<1>7. tconn' = [tconn EXCEPT ![t] = c]  BY <1>2 DEF ReadCall
<1>8. VoiceOf' = [VoiceOf EXCEPT ![t] = c]
  BY <1>0, <1>1, <1>7 DEF VoiceOf, TypeOK
<1>9. CASE tconn[t] = c
  <2>1. VoiceOf' = VoiceOf  BY <1>3, <1>8, <1>9 DEF VoiceOf
  <2>. QED  BY <1>1, <1>4, <1>5, <2>1 DEF Chat!room, Chat!places, Chat!speech
<1>10. CASE tconn[t] = NoConn
  <2>1. \A u \in Threads : VoiceOf[u] # c  BY <1>3, <1>10, ChatAssumption
  <2>2. Chat!Take(t, c)
    BY <1>1, <1>3, <1>4, <1>5, <1>8, <1>10, <2>1 DEF Chat!Take, Chat!places, Chat!speech
  <2>. QED  BY <2>2 DEF Chat!RoomNext
<1>. QED  BY <1>6, <1>9, <1>10

\* A message read is spoken; so is the old one when the read fails.
LEMMA RoomRead ==
  ASSUME Known, TypeOK', NEW t \in Threads, ReadData(t) \/ ReadErr(t)
  PROVE  Chat!RoomNext
<1>0. TypeOK  BY DEF Known
<1>1. /\ UNCHANGED <<fdtab, clnt_fds, fd_cnt, backlog, tfd, tconn>>
      /\ tpc[t] = "blocked" /\ tpc'[t] = "test"
      /\ \A u \in Threads : u # t => tpc'[u] = tpc[u]
  BY <1>0 DEF ReadData, ReadErr, Step, globals, TypeOK
<1>2. /\ VoiceOf[t] = tconn[t] /\ tconn[t] \in Registered /\ tconn[t] \in Clients
  BY <1>1, OneVoice
<1>3. \A c \in Clients : peer'[c] = "idle" <=> peer[c] = "idle"
  BY <1>0 DEF ReadData, ReadErr, TypeOK
<1>4. UNCHANGED <<AtDoor, Registered, ClosingConns, Gone>>
  BY <1>0, <1>1, <1>3, PlacesKept
<1>5. VoiceOf' = VoiceOf  BY <1>1 DEF VoiceOf
<1>6. t \notin Speakers /\ Speakers' = Speakers \cup {t}
  BY <1>1 DEF Speakers, Sending
<1>7. CASE ReadData(t)
  <2>1. /\ copies' = [copies EXCEPT ![t] = [c \in Clients |-> 0]]
        /\ owed' = [owed EXCEPT ![t] = Registered \ {VoiceOf[t]}]
        /\ shifts' = [shifts EXCEPT ![t] = 0] /\ Broken' = Broken
    BY <1>2, <1>7 DEF ReadData, Broken
  <2>2. Chat!Speak(t)
    BY <1>2, <1>4, <1>5, <1>6, <2>1 DEF Chat!Speak, Chat!places
  <2>. QED  BY <2>2 DEF Chat!RoomNext
<1>8. CASE ReadErr(t)
  <2>1. /\ UNCHANGED <<copies, owed, shifts>> /\ peer[tconn[t]] = "rst"
        /\ peer' = [peer EXCEPT ![tconn[t]] = "broken"]
    BY <1>8 DEF ReadErr, hist
  <2>2. Broken' = Broken \cup {VoiceOf[t]} /\ VoiceOf[t] \notin Broken
    BY <1>0, <1>2, <2>1 DEF Broken, TypeOK
  <2>3. Chat!Again(t)
    BY <1>2, <1>4, <1>5, <1>6, <2>1, <2>2 DEF Chat!Again, Chat!places, Chat!speech
  <2>. QED  BY <2>3 DEF Chat!RoomNext
<1>. QED  BY <1>7, <1>8

\* The loop ends: what was due has been given, but for the removals.
LEMMA RoomDone ==
  ASSUME Known, Known', NEW t \in Threads, LoopTest(t), tpc'[t] = "read"
  PROVE  Chat!RoomNext
<1>0. TypeOK /\ TypeOK'  BY DEF Known
<1>1. /\ UNCHANGED <<fdtab, clnt_fds, fd_cnt, backlog, peer, tfd, tconn, copies, owed, shifts>>
      /\ tpc[t] = "test" /\ \A u \in Threads : u # t => tpc'[u] = tpc[u]
  BY <1>0 DEF LoopTest, net, globals, hist, TypeOK
<1>2. UNCHANGED <<AtDoor, Registered, ClosingConns, Gone, Broken>>
  BY <1>0, <1>1, PlacesKept DEF Broken
<1>3. VoiceOf' = VoiceOf  BY <1>1 DEF VoiceOf
<1>4. t \in Speakers /\ Speakers' = Speakers \ {t}
  BY <1>1 DEF Speakers, Sending
<1>5. Cardinality(Missed(t)) <= shifts[t]
  <2>1. Skips(t)' /\ ~Sending(t)'  BY DEF Known, Cast, Sending
  <2>2. Left(t)' = Missed(t)  BY <1>1, <2>1 DEF Left, Missed
  <2>. QED  BY <1>1, <2>1, <2>2 DEF Skips
<1>6. Cardinality({c \in owed[t] : copies[t][c] = 0}) <= shifts[t]
  BY <1>5 DEF Missed
<1>7. Chat!Done(t)
  BY <1>1, <1>2, <1>3, <1>4, <1>6 DEF Chat!Done, Chat!places, Chat!speech, Cardinality, Chat!Cardinality
<1>. QED  BY <1>7 DEF Chat!RoomNext

\* write(): the message is given to another client.
LEMMA RoomWrite ==
  ASSUME Known, TypeOK', NEW t \in Threads, Write(t)
  PROVE  Chat!RoomNext
<1>0. TypeOK /\ Sound /\ Apart /\ Cast(t)  BY DEF Known
<1>1. /\ UNCHANGED <<fdtab, clnt_fds, fd_cnt, backlog, tfd, tconn, owed, shifts>>
      /\ tpc[t] = "write" /\ tpc'[t] = "test" /\ Valid(clnt_fds[ti[t]])
      /\ \A u \in Threads : u # t => tpc'[u] = tpc[u]
  BY <1>0 DEF Write, Step, TypeOK
<1>2. PICK d \in Clients : d = Target(t)
  BY <1>0, <1>1, ValidClient, TypeParts DEF Target
<1>3. copies' = [copies EXCEPT ![t][d] = IF @ < 2 THEN @ + 1 ELSE @]
  BY <1>2 DEF Write
<1>4. PICK p \in AfterWrite(peer[d]) : peer' = [peer EXCEPT ![d] = p]
  BY <1>2 DEF Write
<1>5. /\ VoiceOf[t] = tconn[t] /\ tconn[t] = fdtab[tfd[t]] /\ tconn[t] \in Clients
  BY <1>1, OneVoice
<1>6. tfd[t] \in OpenFds  BY <1>0, <1>1, OwnFd
<1>7. clnt_fds[ti[t]] \in OpenFds /\ d = fdtab[clnt_fds[ti[t]]]
  BY <1>1, <1>2 DEF Target, Valid, OpenFds
<1>8. d # VoiceOf[t]
  BY <1>0, <1>1, <1>5, <1>6, <1>7 DEF Cast, Ahead, Apart
<1>9. d \in AtDoor \cup Registered \cup ClosingConns
  BY <1>7 DEF AtDoor, OpenConns, OpenFds
<1>10. copies[t][d] = 0 \/ VoiceOf[t] \in Broken
  BY <1>0, <1>1, <1>5, <1>7 DEF Cast, Ahead, Sending, ConnAt, Broken
<1>11. peer[d] # "idle"  BY <1>0, <1>7 DEF Apart
<1>12. peer[d] \in PeerStates  BY <1>0 DEF TypeOK
<1>13. p # "idle" /\ (peer[d] = "broken" => p = "broken")
  BY <1>4, <1>11, <1>12, PeerSteps
<1>14. \A c \in Clients : peer'[c] = IF c = d THEN p ELSE peer[c]
  BY <1>0, <1>4 DEF TypeOK
<1>15. UNCHANGED <<AtDoor, Registered, ClosingConns, Gone>>
  BY <1>0, <1>1, <1>11, <1>13, <1>14, PlacesKept
<1>16. Broken' = Broken \/ Broken' = Broken \cup {d}
  <2>1. p = "broken" => Broken' = Broken \cup {d}  BY <1>14 DEF Broken
  <2>2. p # "broken" => Broken' = Broken  BY <1>13, <1>14 DEF Broken
  <2>. QED  BY <2>1, <2>2
<1>17. VoiceOf' = VoiceOf  BY <1>1 DEF VoiceOf
<1>18. t \in Speakers /\ Speakers' = Speakers  BY <1>1 DEF Speakers, Sending
<1>19. Chat!Give(t, d)
  BY <1>1, <1>3, <1>8, <1>9, <1>10, <1>15, <1>16, <1>17, <1>18 DEF Chat!Give, Chat!places
<1>. QED  BY <1>19 DEF Chat!RoomNext

\* A thread removes its connection from the registry: the client leaves.
LEMMA RoomLeave ==
  ASSUME Known, Known', NEW t \in Threads, Remove(t)
  PROVE  Chat!RoomNext
<1>0. TypeOK /\ CtlInv /\ Sound /\ Apart /\ TypeOK' /\ Sound' /\ Apart'  BY DEF Known
<1>1. /\ UNCHANGED <<fdtab, backlog, peer, mpc, clntfd, tfd, tconn, copies>>
      /\ tpc[t] = "eof" /\ tpc'[t] = "close"
      /\ \A u \in Threads : u # t => tpc'[u] = tpc[u]
  BY <1>0 DEF Remove, Step, net, mainv, TypeOK
<1>2. PICK f : f = tfd[t]  OBVIOUS
<1>3. f \in InRegistry /\ f \in OpenFds /\ Valid(f)  BY <1>0, <1>1, <1>2, OwnFd
<1>4. PICK c \in Clients : c = fdtab[f]  BY <1>0, <1>1, <1>2, OwnFd
<1>5. VoiceOf[t] = c /\ c \in Registered  BY <1>1, <1>2, <1>4, OneVoice
<1>6. OpenFds' = OpenFds /\ OpenConns' = OpenConns  BY <1>1 DEF OpenFds, OpenConns
<1>7. Closing' = Closing \cup {t}  BY <1>1 DEF Closing
<1>8. ClosingFds' = ClosingFds \cup {f}
  <2>1. ClosingFds = {tfd[u] : u \in Closing} /\ ClosingFds' = {tfd[u] : u \in Closing'}
    BY <1>1 DEF ClosingFds, Closing
  <2>. QED  BY <1>2, <1>7, <2>1
<1>9. InRegistry' = InRegistry \ {f}
  <2>1. f \notin InRegistry'
    BY <1>0, <1>1, <1>2, <1>7 DEF Sound, Owners
  <2>2. InRegistry' \subseteq InRegistry
    <3>1. /\ fd_cnt \in Nat /\ \A i : i \in Slots <=> i \in Nat /\ i < fd_cnt
          /\ \A i : i \in Slots' <=> i \in Nat /\ i < fd_cnt - 1
      BY <1>0, RemoveSlots
    <3>2. PICK k \in Slots :
            \A i \in Slots' : clnt_fds'[i] = clnt_fds[IF k <= i THEN i + 1 ELSE i]
      BY <1>0, RemoveSlots
    <3>3. \A i \in Slots' : i \in Slots /\ i + 1 \in Slots  BY <3>1
    <3>4. \A i \in Slots' : \E j \in Slots : clnt_fds'[i] = clnt_fds[j]
      BY <3>2, <3>3
    <3>5. InRegistry = {clnt_fds[i] : i \in Slots} /\ InRegistry' = {clnt_fds'[i] : i \in Slots'}
      BY DEF InRegistry, Slots
    <3>. QED  BY <3>4, <3>5
  <2>3. ClosingFds \cap InRegistry = {}
    BY <1>0 DEF Sound, Owners, ClosingFds, Closing
  <2>4. mpc = "register" => clntfd \notin InRegistry  BY <1>0 DEF Sound, Pending
  <2>5. InRegistry \subseteq OpenFds  BY <1>0 DEF Sound, Distinct
  <2>6. OpenFds' \subseteq InRegistry' \cup ClosingFds' \cup (IF mpc = "register" THEN {clntfd} ELSE {})
    BY <1>0, <1>1 DEF Sound, NoLeak
  <2>. QED  BY <1>6, <1>8, <2>1, <2>2, <2>3, <2>4, <2>5, <2>6
<1>10. Registered' = Registered \ {c}
  <2>1. Registered' = Members' /\ Registered = Members
    BY <1>0, StillMembers, Whereabouts
  <2>2. \A g \in InRegistry : g # f => fdtab[g] # c
    BY <1>0, <1>3, <1>4 DEF Apart, Sound, Distinct
  <2>. QED  BY <1>1, <1>4, <1>9, <2>1, <2>2 DEF Members
<1>11. ClosingConns' = ClosingConns \cup {c}
  BY <1>1, <1>3, <1>4, <1>8 DEF ClosingConns, Valid
<1>12. AtDoor' = AtDoor  BY <1>5, <1>6, <1>10, <1>11 DEF AtDoor
<1>13. Gone' = Gone  BY <1>1, GoneStay
<1>14. VoiceOf' = [VoiceOf EXCEPT ![t] = NoConn]  BY <1>1 DEF VoiceOf
<1>15. t \notin Speakers /\ Speakers' = Speakers /\ Broken' = Broken
  BY <1>1 DEF Speakers, Sending, Broken
<1>16. /\ owed' = [u \in Threads |-> owed[u] \ {VoiceOf[t]}]
       /\ shifts' = [u \in Threads |-> IF u \in Speakers THEN shifts[u] + 1 ELSE shifts[u]]
  BY <1>2, <1>3, <1>4, <1>5 DEF Remove, Speakers
<1>17. Chat!Leave(t)
  BY <1>1, <1>5, <1>10, <1>11, <1>12, <1>13, <1>14, <1>15, <1>16 DEF Chat!Leave
<1>. QED  BY <1>17 DEF Chat!RoomNext

\* close(): the client is gone.
LEMMA RoomClose ==
  ASSUME Known, TypeOK', NEW t \in Threads, Close(t)
  PROVE  Chat!RoomNext
<1>0. TypeOK /\ Sound /\ Apart  BY DEF Known
<1>1. /\ UNCHANGED <<clnt_fds, fd_cnt, backlog, peer, tfd, tconn, copies, owed, shifts>>
      /\ tpc[t] = "close" /\ tpc'[t] = "done"
      /\ \A u \in Threads : u # t => tpc'[u] = tpc[u]
  BY <1>0 DEF Close, Step, net, globals, hist, TypeOK
<1>2. PICK f : f = tfd[t]  OBVIOUS
<1>3. f \in OpenFds /\ f \notin InRegistry /\ f \in ClosingFds
  BY <1>0, <1>1, <1>2 DEF Sound, Owners, Closing, ClosingFds
<1>4. fdtab'[f] = NoConn /\ \A g \in Fds : g # f => fdtab'[g] = fdtab[g]
  BY <1>0, <1>2, <1>3 DEF Close, Valid, OpenFds, TypeOK
<1>5. PICK c \in Clients : c = fdtab[f]  BY <1>0, <1>3 DEF OpenFds, TypeOK
<1>6. /\ \A g \in OpenFds : g # f => fdtab[g] # c
      /\ peer[c] # "idle" /\ ~Queued(c)
  BY <1>0, <1>3, <1>5 DEF Apart, Queued, OpenFds
<1>7. OpenConns' = OpenConns \ {c}
  BY <1>3, <1>4, <1>5, <1>6 DEF OpenConns, OpenFds
<1>8. \A g \in OpenFds : g # f => fdtab'[g] = fdtab[g] /\ Valid(g) /\ Valid(g)'
  BY <1>4 DEF OpenFds, Valid
<1>9. Registered' = Registered
  <2>1. InRegistry \subseteq OpenFds \ {f}  BY <1>0, <1>3 DEF Sound, Distinct
  <2>2. \A i \in 0..(fd_cnt - 1) : clnt_fds[i] \in OpenFds \ {f}  BY <2>1 DEF InRegistry
  <2>. QED  BY <1>1, <1>8, <2>2 DEF Registered
<1>10. ClosingFds' = ClosingFds \ {f}
  <2>1. Closing' = Closing \ {t} /\ t \in Closing  BY <1>1 DEF Closing
  <2>2. ClosingFds = {tfd[u] : u \in Closing} /\ ClosingFds' = {tfd[u] : u \in Closing'}
    BY <1>1 DEF ClosingFds, Closing
  <2>3. \A u \in Closing : u # t => tfd[u] # f
    BY <1>0, <1>2, <2>1 DEF Sound, Owners, Closing, FdOf
  <2>. QED  BY <1>2, <2>1, <2>2, <2>3
<1>11. ClosingFds \subseteq OpenFds
  BY <1>0 DEF Sound, Owners, ClosingFds, Closing
<1>12. ClosingConns' = ClosingConns \ {c} /\ c \in ClosingConns
  <2>1. ClosingConns = {fdtab[g] : g \in ClosingFds}
    BY <1>11 DEF ClosingConns, OpenFds, Valid
  <2>2. ClosingConns' = {fdtab[g] : g \in ClosingFds \ {f}}
    BY <1>8, <1>10, <1>11 DEF ClosingConns
  <2>. QED  BY <1>3, <1>5, <1>6, <1>11, <2>1, <2>2
<1>13. AtDoor' = AtDoor  BY <1>7, <1>9, <1>12 DEF AtDoor
<1>14. Gone' = Gone \cup {c}
  <2>1. \A d \in Clients : Queued(d)' <=> Queued(d)  BY <1>1 DEF Queued
  <2>2. \A d \in Clients : d # c => ((\E g \in Fds : fdtab'[g] = d) <=> \E g \in Fds : fdtab[g] = d)
    BY <1>3, <1>4, <1>5, ChatAssumption DEF OpenFds
  <2>3. ~\E g \in Fds : fdtab'[g] = c
    BY <1>3, <1>4, <1>5, <1>6, ChatAssumption DEF OpenFds
  <2>. QED  BY <1>1, <1>6, <2>1, <2>2, <2>3 DEF Gone, Open
<1>15. VoiceOf' = VoiceOf /\ Speakers' = Speakers /\ Broken' = Broken
  BY <1>1 DEF VoiceOf, Speakers, Sending, Broken
<1>16. Chat!Go(c)
  BY <1>1, <1>9, <1>12, <1>13, <1>14, <1>15 DEF Chat!Go, Chat!speech
<1>. QED  BY <1>16 DEF Chat!RoomNext

LEMMA RoomThread ==
  ASSUME Known, Known', NEW t \in Threads, Thread(t)
  PROVE  Chat!RoomNext \/ UNCHANGED Chat!room
<1>0. TypeOK /\ Sound /\ TypeOK'  BY DEF Known
<1>1. ~ReadBadFd(t)  BY <1>0, OwnFd DEF ReadBadFd, Step
<1>2. LoopTest(t) => tpc'[t] = "lock" \/ tpc'[t] = "read"
  BY <1>0 DEF LoopTest, TypeOK
<1>3. CASE \/ Start(t) \/ ReadEof(t) \/ LockSelf(t) \/ LockOther(t) \/ WriteBadFd(t)
           \/ WriteSigpipe(t) \/ (LoopTest(t) /\ tpc'[t] = "lock")
  BY <1>0, <1>3, RoomQuiet, Zenon
<1>4. CASE ReadCall(t)  BY <1>0, <1>4, RoomCall
<1>5. CASE ReadData(t) \/ ReadErr(t)  BY <1>0, <1>5, RoomRead, Zenon
<1>6. CASE LoopTest(t) /\ tpc'[t] = "read"  BY <1>6, RoomDone, Zenon
<1>7. CASE Write(t)  BY <1>0, <1>7, RoomWrite, Zenon
<1>8. CASE Remove(t)  BY <1>8, RoomLeave, Zenon
<1>9. CASE Close(t)  BY <1>0, <1>9, RoomClose, Zenon
<1>. QED  BY <1>1, <1>2, <1>3, <1>4, <1>5, <1>6, <1>7, <1>8, <1>9 DEF Thread

-----------------------------------------------------------------------------
(* The server is a room. *)

LEMMA RoomStarts == Init => Chat!RoomInit
<1>. SUFFICES ASSUME Init PROVE Chat!RoomInit  OBVIOUS
<1>1. fdtab = [f \in Fds |-> NoConn] /\ peer = [c \in Clients |-> "idle"]
      /\ tpc = [t \in Threads |-> "none"] /\ tconn = [t \in Threads |-> NoConn]
  BY DEF Init
<1>2. \A f : ~Valid(f)  BY <1>1 DEF Valid
<1>3. Registered = {} /\ ClosingConns = {} /\ AtDoor = {}
  BY <1>1, <1>2 DEF Registered, ClosingConns, AtDoor, OpenConns
<1>4. Gone = {} /\ Broken = {} /\ Speakers = {}
  BY <1>1 DEF Gone, Broken, Speakers, Sending
<1>5. VoiceOf = [t \in Threads |-> NoConn]  BY <1>1 DEF VoiceOf
<1>. QED  BY <1>3, <1>4, <1>5 DEF Init, Chat!RoomInit

LEMMA RoomStep == Known /\ Known' /\ [Next]_vars => [Chat!RoomNext]_(Chat!room)
<1>. SUFFICES ASSUME Known, Known', [Next]_vars PROVE Chat!RoomNext \/ UNCHANGED Chat!room
  OBVIOUS
<1>1. CASE UNCHANGED vars
  <2>1. UNCHANGED <<fdtab, clnt_fds, fd_cnt, backlog, peer, tpc, tfd, tconn, copies, owed, shifts>>
    BY <1>1 DEF vars, net, globals, threads, hist
  <2>2. UNCHANGED <<AtDoor, Registered, ClosingConns>>
    BY <2>1, PlacesStay DEF ClosingFds
  <2>3. Gone' = Gone  BY <2>1, GoneStay
  <2>. QED
    BY <2>1, <2>2, <2>3 DEF Broken, VoiceOf, Speakers, Sending, Chat!room, Chat!places, Chat!speech
<1>. QED  BY <1>1, RoomClient, RoomMain, RoomThread DEF Next, Known

\* As long as no thread's argument is overwritten, the server implements the
\* room for any number of clients, descriptors and messages: connections are
\* accepted, registered, removed and closed in this order, each has one thread
\* for a voice, and a message is given to the others once, in a loop that
\* others interrupt (chat_server.c:86-99, :121-142, :148-159).
THEOREM ServerIsARoom == SpacedSpec => ChatsInRoom
<1>1. Init /\ [][Next /\ ~raced']_vars => []~raced
  <2>1. Init => ~raced  BY DEF Init
  <2>2. ~raced /\ [Next /\ ~raced']_vars => ~raced'  BY DEF vars, mainv
  <2>. QED  BY <2>1, <2>2, PTL
<1>2. [Next /\ ~raced']_vars => [Next]_vars  OBVIOUS
<1>3. TypeOK /\ CtlInv /\ RegInv /\ CastInv /\ ~raced => Known
  BY DEF RegInv, CastInv, Known
<1>. QED
  BY <1>1, <1>2, <1>3, RoomStarts, RoomStep, TypeSafe, CtlSafe, RegSafe, CastSafe, PTL
  DEF SpacedSpec, Spec, ChatsInRoom, Chat!RoomSpec
=============================================================================

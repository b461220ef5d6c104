----------------------------- MODULE ChatServer -----------------------------
(***************************************************************************)
(* chat_server.c: a main thread accepts connections, registers their       *)
(* descriptors in the global array clnt_fds and creates one detached       *)
(* thread per connection; each thread reads its connection and writes what *)
(* it read to every other registered descriptor, under the global mutex.   *)
(*                                                                         *)
(* A client is one connection.  A thread is named by the rank of the       *)
(* accept() that led to it.  A descriptor is 1..MaxFd (the descriptors     *)
(* left after stdio, the listening socket and epoll); NoFd is the zero a   *)
(* slot of the static array holds until it is written, BadFd is -1.        *)
(***************************************************************************)
EXTENDS Integers, FiniteSets, Sequences, Tcp

CONSTANTS
  Clients,        \* the connections that may be made
  NoConn,         \* no connection
  MaxConns,       \* bound: connections the server accepts
  MaxFd,          \* client descriptors the process may have open
  Talkers,        \* bound: the clients that send
  MaxMsgs,        \* bound: messages each of them sends
  SndBuf,         \* messages a socket buffers before write() blocks
  MayQuit,        \* clients may half-close ('q' in chat_client.c)
  MayKill,        \* client processes may exit at any time
  CreateMayFail   \* pthread_create() may return an error

ASSUME ChatAssumption ==
  /\ NoConn \notin Clients /\ Talkers \subseteq Clients
  /\ MaxConns \in Nat /\ MaxFd \in Nat /\ MaxMsgs \in Nat
  /\ SndBuf \in Nat \ {0}
  /\ {MayQuit, MayKill, CreateMayFail} \subseteq BOOLEAN

VARIABLES
  \* the clients and the kernel
  peer,      \* state of each connection (Tcp)
  nsent,     \* messages each client has sent
  nread,     \* messages of each client the server has read
  outq,      \* messages written to each client it has not read
  backlog,   \* completed connections not yet accepted
  fdtab,     \* descriptor -> connection
  \* the main thread
  mpc, clntfd, nacc,
  raced,     \* history: clntfd was written while a thread had yet to read it
  \* the globals
  clnt_fds, fd_cnt, mutex,
  \* the threads: pc, local clntfd, connection of the read, loop index
  tpc, tfd, tconn, ti,
  alive,     \* FALSE once SIGPIPE killed the process
  \* history, per thread: copies of its current message written to each
  \* client, the clients that were registered when it read the message, and
  \* the removals since
  copies, owed, shifts

net     == <<peer, nsent, nread, outq, backlog>>
mainv   == <<mpc, clntfd, nacc, raced>>
globals == <<clnt_fds, fd_cnt, mutex>>
threads == <<tpc, tfd, tconn, ti>>
hist    == <<copies, owed, shifts>>
vars    == <<net, fdtab, mainv, globals, threads, alive, hist>>

Threads == 1..MaxConns
Cells   == 0..(MaxConns - 1)     \* clnt_fds: the bound is MAX_CLNT at most
Fds     == 1..MaxFd
NoFd    == 0
BadFd   == -1
FdVals  == Fds \cup {NoFd, BadFd}
Free    == 0                     \* nobody holds the mutex

TPcs == {"none", "lost", "start", "read", "blocked", "eof", "close",
         "test", "lock", "write", "done"}

Init ==
  /\ peer = [c \in Clients |-> "idle"]
  /\ nsent = [c \in Clients |-> 0] /\ nread = [c \in Clients |-> 0]
  /\ outq = [c \in Clients |-> 0] /\ backlog = <<>>
  /\ fdtab = [f \in Fds |-> NoConn]
  /\ mpc = "wait" /\ clntfd = NoFd /\ nacc = 0 /\ raced = FALSE
  /\ clnt_fds = [i \in Cells |-> NoFd] /\ fd_cnt = 0 /\ mutex = Free
  /\ tpc = [t \in Threads |-> "none"] /\ tfd = [t \in Threads |-> NoFd]
  /\ tconn = [t \in Threads |-> NoConn] /\ ti = [t \in Threads |-> 0]
  /\ alive = TRUE
  /\ copies = [t \in Threads |-> [c \in Clients |-> 0]]
  /\ owed = [t \in Threads |-> {}] /\ shifts = [t \in Threads |-> 0]

-----------------------------------------------------------------------------
(* The clients. *)

Queued(c) == \E i \in DOMAIN backlog : backlog[i] = c
Open(c)   == Queued(c) \/ \E f \in Fds : fdtab[f] = c

Connect(c) ==
  /\ peer[c] = "idle"
  /\ peer' = [peer EXCEPT ![c] = "up"]
  /\ backlog' = Append(backlog, c)
  /\ UNCHANGED <<nsent, nread, outq, fdtab, mainv, globals, threads, alive, hist>>

Send(c) ==
  /\ c \in Talkers /\ nsent[c] < MaxMsgs
  /\ peer[c] = "up" /\ Open(c)
  /\ nsent' = [nsent EXCEPT ![c] = @ + 1]
  /\ UNCHANGED <<peer, nread, outq, backlog, fdtab, mainv, globals, threads, alive, hist>>

\* chat_client.c: 'q' shuts the writing side down.
Quit(c) ==
  /\ MayQuit /\ peer[c] = "up" /\ Open(c)
  /\ peer' = [peer EXCEPT ![c] = "fin"]
  /\ UNCHANGED <<nsent, nread, outq, backlog, fdtab, mainv, globals, threads, alive, hist>>

\* The process exits; or, in chat_client.c after 'q', fclose(wfp) closes the
\* descriptor the reader thread uses as well.
Kill(c) ==
  /\ MayKill \/ peer[c] = "fin"
  /\ Reads(peer[c]) /\ Open(c)
  /\ peer' = [peer EXCEPT ![c] = CloseBy(peer[c], outq[c] > 0)]
  /\ outq' = [outq EXCEPT ![c] = 0]
  /\ UNCHANGED <<nsent, nread, backlog, fdtab, mainv, globals, threads, alive, hist>>

\* chat_client.c: the reader thread takes what is buffered.
ClientRead(c) ==
  /\ Reads(peer[c]) /\ outq[c] > 0
  /\ outq' = [outq EXCEPT ![c] = 0]
  /\ UNCHANGED <<peer, nsent, nread, backlog, fdtab, mainv, globals, threads, alive, hist>>

-----------------------------------------------------------------------------
(* The main thread. *)

\* A new thread reads main's local through the address it was given.
Races == raced' = (raced \/ (clntfd' # clntfd /\ \E t \in Threads : tpc[t] = "start"))

LowestFree(f) == fdtab[f] = NoConn /\ \A g \in 1..(f - 1) : fdtab[g] # NoConn

AcceptOk ==
  /\ mpc = "wait" /\ backlog # <<>> /\ nacc < MaxConns
  /\ \E f \in Fds :
       /\ LowestFree(f)
       /\ fdtab' = [fdtab EXCEPT ![f] = Head(backlog)]
       /\ clntfd' = f
  /\ Races
  /\ backlog' = Tail(backlog)
  /\ nacc' = nacc + 1 /\ mpc' = "register"
  /\ UNCHANGED <<peer, nsent, nread, outq, globals, threads, alive, hist>>

\* accept() fails, for want of a descriptor or of the kernel's memory: main's
\* local is now -1.
AcceptFail ==
  /\ mpc = "wait" /\ backlog # <<>>
  /\ clntfd' = BadFd
  /\ Races
  /\ UNCHANGED <<net, fdtab, mpc, nacc, globals, threads, alive, hist>>

\* Deviation: the newcomer is put in front.
RegisterInFront ==
  /\ mpc = "register" /\ mutex = Free
  /\ clnt_fds' = [i \in Cells |-> IF i = 0 THEN clntfd ELSE
                     IF i <= fd_cnt THEN clnt_fds[i - 1] ELSE clnt_fds[i]]
  /\ fd_cnt' = fd_cnt + 1
  /\ mpc' = "create"
  /\ UNCHANGED <<net, fdtab, clntfd, nacc, raced, mutex, threads, alive, hist>>

Register ==
  /\ mpc = "register" /\ mutex = Free
  /\ clnt_fds' = [clnt_fds EXCEPT ![fd_cnt] = clntfd]
  /\ fd_cnt' = fd_cnt + 1
  /\ mpc' = "create"
  /\ UNCHANGED <<net, fdtab, clntfd, nacc, raced, mutex, threads, alive, hist>>

CreateOk ==
  /\ mpc = "create"
  /\ tpc' = [tpc EXCEPT ![nacc] = "start"]
  /\ mpc' = "wait"
  /\ UNCHANGED <<net, fdtab, clntfd, nacc, raced, globals, tfd, tconn, ti, alive, hist>>

\* An error of pthread_create() is a positive number, so the test "== -1"
\* never holds: the connection stays registered and no thread serves it.
CreateFail ==
  /\ CreateMayFail /\ mpc = "create"
  /\ tpc' = [tpc EXCEPT ![nacc] = "lost"]
  /\ mpc' = "wait"
  /\ UNCHANGED <<net, fdtab, clntfd, nacc, raced, globals, tfd, tconn, ti, alive, hist>>

-----------------------------------------------------------------------------
(* thread_send_message. *)

Step(t, from, to) == tpc[t] = from /\ tpc' = [tpc EXCEPT ![t] = to]

\* The argument is the address of main's local, read when the thread runs.
Start(t) ==
  /\ Step(t, "start", "read")
  /\ tfd' = [tfd EXCEPT ![t] = clntfd]
  /\ UNCHANGED <<net, fdtab, mainv, globals, tconn, ti, alive, hist>>

Valid(f) == f \in Fds /\ fdtab[f] # NoConn

\* read() looks the descriptor up when it is called ...
ReadCall(t) ==
  /\ Valid(tfd[t])
  /\ Step(t, "read", "blocked")
  /\ tconn' = [tconn EXCEPT ![t] = fdtab[tfd[t]]]
  /\ UNCHANGED <<net, fdtab, mainv, globals, tfd, ti, alive, hist>>

\* ... and a result of -1 is not tested: the old message is sent again.
ReadBadFd(t) ==
  /\ ~Valid(tfd[t])
  /\ Step(t, "read", "test")
  /\ ti' = [ti EXCEPT ![t] = 0]
  /\ UNCHANGED <<net, fdtab, mainv, globals, tfd, tconn, alive, hist>>

Registered == {fdtab[clnt_fds[i]] : i \in {j \in 0..(fd_cnt - 1) : Valid(clnt_fds[j])}}

ReadData(t) ==
  LET c == tconn[t] IN
  /\ Step(t, "blocked", "test")
  /\ nread[c] < nsent[c]
  /\ nread' = [nread EXCEPT ![c] = @ + 1]
  /\ ti' = [ti EXCEPT ![t] = 0]
  /\ copies' = [copies EXCEPT ![t] = [d \in Clients |-> 0]]
  /\ owed' = [owed EXCEPT ![t] = Registered \ {c}]
  /\ shifts' = [shifts EXCEPT ![t] = 0]
  /\ UNCHANGED <<peer, nsent, outq, backlog, fdtab, mainv, globals, tfd, tconn, alive>>

Drained(c) == nread[c] = nsent[c]

\* Deviation: a hang-up is taken for the end of the data.
ReadEofEarly(t) ==
  /\ Step(t, "blocked", "eof")
  /\ AtEof(peer[tconn[t]])
  /\ UNCHANGED <<net, fdtab, mainv, globals, tfd, tconn, ti, alive, hist>>

ReadEof(t) ==
  /\ Step(t, "blocked", "eof")
  /\ Drained(tconn[t]) /\ AtEof(peer[tconn[t]])
  /\ UNCHANGED <<net, fdtab, mainv, globals, tfd, tconn, ti, alive, hist>>

ReadErr(t) ==
  /\ Step(t, "blocked", "test")
  /\ Drained(tconn[t]) /\ peer[tconn[t]] = "rst"
  /\ peer' = [peer EXCEPT ![tconn[t]] = "broken"]
  /\ ti' = [ti EXCEPT ![t] = 0]
  /\ UNCHANGED <<nsent, nread, outq, backlog, fdtab, mainv, globals, tfd, tconn, alive, hist>>

\* Deviations: no shift; a shift one short; the vacated slot cleared.
Unshifted(fd) == clnt_fds
ShiftedShort(fd) ==
  [i \in Cells |->
     IF i < fd_cnt - 2 /\ \E j \in 0..i : clnt_fds[j] = fd
     THEN clnt_fds[i + 1] ELSE clnt_fds[i]]
ShiftedCleared(fd) ==
  [i \in Cells |->
     IF i < fd_cnt - 1 /\ \E j \in 0..i : clnt_fds[j] = fd
     THEN clnt_fds[i + 1] ELSE IF i = fd_cnt - 1 THEN NoFd ELSE clnt_fds[i]]

\* The array without the first occurrence of fd, its last cell left behind.
Shifted(fd) ==
  [i \in Cells |->
     IF i < fd_cnt - 1 /\ \E j \in 0..i : clnt_fds[j] = fd
     THEN clnt_fds[i + 1] ELSE clnt_fds[i]]

Sending(u) == tpc[u] \in {"test", "lock", "write"}

\* Deviation: the counter is decremented only when the descriptor is found.
RemoveIfFound(t) ==
  /\ Step(t, "eof", "close")
  /\ mutex = Free
  /\ clnt_fds' = Shifted(tfd[t])
  /\ fd_cnt' = IF \E j \in 0..(fd_cnt - 1) : clnt_fds[j] = tfd[t]
               THEN fd_cnt - 1 ELSE fd_cnt
  /\ owed' = IF Valid(tfd[t])
             THEN [u \in Threads |-> owed[u] \ {fdtab[tfd[t]]}] ELSE owed
  /\ shifts' = [u \in Threads |-> IF Sending(u) THEN shifts[u] + 1 ELSE shifts[u]]
  /\ UNCHANGED <<net, fdtab, mainv, mutex, tfd, tconn, ti, alive, copies>>

Remove(t) ==
  /\ Step(t, "eof", "close")
  /\ mutex = Free
  /\ clnt_fds' = Shifted(tfd[t])
  /\ fd_cnt' = fd_cnt - 1
  /\ owed' = IF Valid(tfd[t])
             THEN [u \in Threads |-> owed[u] \ {fdtab[tfd[t]]}] ELSE owed
  /\ shifts' = [u \in Threads |-> IF Sending(u) THEN shifts[u] + 1 ELSE shifts[u]]
  /\ UNCHANGED <<net, fdtab, mainv, mutex, tfd, tconn, ti, alive, copies>>

Close(t) ==
  /\ Step(t, "close", "done")
  /\ fdtab' = IF Valid(tfd[t]) THEN [fdtab EXCEPT ![tfd[t]] = NoConn] ELSE fdtab
  /\ UNCHANGED <<net, mainv, globals, tfd, tconn, ti, alive, hist>>

\* Deviation: the loop stops one short.
LoopTestShort(t) ==
  /\ tpc[t] = "test"
  /\ tpc' = [tpc EXCEPT ![t] = IF ti[t] < fd_cnt - 1 THEN "lock" ELSE "read"]
  /\ UNCHANGED <<net, fdtab, mainv, globals, tfd, tconn, ti, alive, hist>>

\* "i < fd_cnt" reads the counter without the mutex.
LoopTest(t) ==
  /\ tpc[t] = "test"
  /\ tpc' = [tpc EXCEPT ![t] = IF ti[t] < fd_cnt THEN "lock" ELSE "read"]
  /\ UNCHANGED <<net, fdtab, mainv, globals, tfd, tconn, ti, alive, hist>>

NextSlot(t) == ti' = [ti EXCEPT ![t] = @ + 1]

\* Deviation: the descriptor is skipped without unlocking.
LockSelfKept(t) ==
  /\ Step(t, "lock", "test") /\ mutex = Free
  /\ clnt_fds[ti[t]] = tfd[t]
  /\ mutex' = t /\ NextSlot(t)
  /\ UNCHANGED <<net, fdtab, mainv, clnt_fds, fd_cnt, tfd, tconn, alive, hist>>

\* The mutex is taken; the thread's own descriptor is skipped.
LockSelf(t) ==
  /\ Step(t, "lock", "test") /\ mutex = Free
  /\ clnt_fds[ti[t]] = tfd[t]
  /\ NextSlot(t)
  /\ UNCHANGED <<net, fdtab, mainv, globals, tfd, tconn, alive, hist>>

LockOther(t) ==
  /\ Step(t, "lock", "write") /\ mutex = Free
  /\ clnt_fds[ti[t]] # tfd[t]
  /\ mutex' = t
  /\ UNCHANGED <<net, fdtab, mainv, clnt_fds, fd_cnt, tfd, tconn, ti, alive, hist>>

Target(t) == fdtab[clnt_fds[ti[t]]]

\* write() to a live peer waits for room in the socket's buffer.
Write(t) ==
  LET c == Target(t) IN
  /\ Step(t, "write", "test")
  /\ Valid(clnt_fds[ti[t]])
  /\ ~RaisesSigpipe(peer[c])
  /\ Reads(peer[c]) => outq[c] < SndBuf
  /\ \E p \in AfterWrite(peer[c]) : peer' = [peer EXCEPT ![c] = p]
  /\ outq' = [outq EXCEPT ![c] = IF Reads(peer[c]) THEN @ + 1 ELSE @]
  /\ copies' = [copies EXCEPT ![t][c] = IF @ < 2 THEN @ + 1 ELSE @]
  /\ mutex' = Free /\ NextSlot(t)
  /\ UNCHANGED <<nsent, nread, backlog, fdtab, mainv, clnt_fds, fd_cnt, tfd, tconn, alive, owed, shifts>>

WriteBadFd(t) ==
  /\ Step(t, "write", "test")
  /\ ~Valid(clnt_fds[ti[t]])
  /\ mutex' = Free /\ NextSlot(t)
  /\ UNCHANGED <<net, fdtab, mainv, clnt_fds, fd_cnt, tfd, tconn, alive, hist>>

\* SIGPIPE has its default disposition: the whole process ends.
WriteSigpipe(t) ==
  /\ tpc[t] = "write"
  /\ Valid(clnt_fds[ti[t]]) /\ RaisesSigpipe(peer[Target(t)])
  /\ alive' = FALSE
  /\ UNCHANGED <<net, fdtab, mainv, globals, threads, hist>>

-----------------------------------------------------------------------------
Client(c) == Connect(c) \/ Send(c) \/ Quit(c) \/ Kill(c) \/ ClientRead(c)

Main == AcceptOk \/ AcceptFail \/ Register \/ CreateOk \/ CreateFail

Thread(t) ==
  \/ Start(t) \/ ReadCall(t) \/ ReadBadFd(t)
  \/ ReadData(t) \/ ReadEof(t) \/ ReadErr(t)
  \/ Remove(t) \/ Close(t)
  \/ LoopTest(t) \/ LockSelf(t) \/ LockOther(t)
  \/ Write(t) \/ WriteBadFd(t) \/ WriteSigpipe(t)

\* Once the process has ended there is nothing left to say of its clients.
Next ==
  /\ alive
  /\ \/ \E c \in Clients : Client(c)
     \/ Main
     \/ \E t \in Threads : Thread(t)

Spec == Init /\ [][Next]_vars

\* Executions in which a new thread reads its argument before main's local
\* is written again: what the code needs, and does not enforce.
SpacedSpec == Init /\ [][Next /\ ~raced']_vars

\* The threads run, the mutex is handed on, clients read what is buffered.
ServerFairness ==
  WF_vars(alive /\ Main) /\ \A t \in Threads : WF_vars(alive /\ Thread(t))
FairSpec == Spec /\ ServerFairness /\ \A c \in Clients : WF_vars(alive /\ ClientRead(c))

-----------------------------------------------------------------------------
(* Properties. *)

\* Every variable stays in its type.
TypeOK ==
  /\ peer \in [Clients -> PeerStates]
  /\ nsent \in [Clients -> Nat] /\ nread \in [Clients -> Nat]
  /\ outq \in [Clients -> Nat] /\ backlog \in Seq(Clients)
  /\ fdtab \in [Fds -> Clients \cup {NoConn}]
  /\ mpc \in {"wait", "register", "create"}
  /\ clntfd \in FdVals /\ nacc \in 0..MaxConns /\ raced \in BOOLEAN
  /\ clnt_fds \in [Cells -> FdVals] /\ fd_cnt \in Int
  /\ mutex \in Threads \cup {Free}
  /\ tpc \in [Threads -> TPcs] /\ tfd \in [Threads -> FdVals]
  /\ tconn \in [Threads -> Clients \cup {NoConn}] /\ ti \in [Threads -> Nat]
  /\ alive \in BOOLEAN
  /\ copies \in [Threads -> [Clients -> 0..2]]
  /\ owed \in [Threads -> SUBSET Clients] /\ shifts \in [Threads -> Nat]

\* The threads whose registration has not been undone.
Counted == {t \in Threads : tpc[t] \notin {"none", "close", "done"}}

\* fd_cnt, decremented by every leaving thread even when it finds nothing to
\* remove, is exactly the number of threads that have still to decrement it
\* (chat_server.c:96, :139): it never underflows, and "i < fd_cnt" never
\* compares with a negative number turned into a huge size_t.
CountExact ==
  fd_cnt = Cardinality(Counted) + (IF mpc = "create" THEN 1 ELSE 0)

\* The index tested without the mutex at :149 may be stale when the slot is
\* read at :152 and :155, yet it only ever names a slot that was written:
\* nobody writes to descriptor 0, the static array's initial content.
SlotsWritten ==
  \A t \in Threads : tpc[t] \in {"lock", "write"} =>
    ti[t] \in Cells /\ clnt_fds[ti[t]] # NoFd

\* At most one thread is between lock and unlock of the broadcast, and the
\* mutex names it (:151-157).
MutexHeld == \A t \in Threads : tpc[t] = "write" <=> mutex = t

InRegistry == {clnt_fds[i] : i \in 0..(fd_cnt - 1)}
ClosingFds == {tfd[t] : t \in {u \in Threads : tpc[u] = "close"}}

\* As long as no thread's argument was overwritten, the first fd_cnt slots
\* hold the open descriptors, each once, but for one accepted and not yet
\* registered and those removed and not yet closed (:86-97, :124-142).
RegistryMatchesOpen ==
  LET pending == IF mpc = "register" THEN {clntfd} ELSE {} IN
  /\ TypeOK
  /\ ~raced =>
       /\ {f \in Fds : fdtab[f] # NoConn} = InRegistry \cup ClosingFds \cup pending
       /\ InRegistry \cap (ClosingFds \cup pending) = {}
       /\ Cardinality(InRegistry) = fd_cnt

Serving(f) == {t \in Threads :
  \/ tpc[t] = "start" /\ clntfd = f
  \/ tpc[t] \notin {"none", "lost", "start", "close", "done"} /\ tfd[t] = f}

\* Every registered connection has one thread of its own (:99 "one thread per
\* connection"), once main has finished with it.
OneThreadEach == mpc = "wait" => \A f \in InRegistry : Cardinality(Serving(f)) = 1

\* The same as long as no thread's argument was overwritten: threads that
\* could not be created are missing, and no connection has two.
OwnThread ==
  mpc = "wait" /\ ~raced =>
    /\ \A f \in InRegistry : Cardinality(Serving(f)) <= 1
    /\ Cardinality({f \in InRegistry : Serving(f) = {}})
         = Cardinality({t \in Threads : tpc[t] = "lost"})

\* The registry agrees with the connections and with the threads: main appends
\* to it and every thread removes from it in the meantime (:86-99, :124-142).
RegistrySound == RegistryMatchesOpen /\ OwnThread

\* A message goes to the other clients (:148), to each at most once: never to
\* the connection it was read from, although the code compares descriptors,
\* which are reused, and not twice although the array is shifted under the
\* loop (:149-158), unless its sender was reset: then the failing read() at
\* :121 sends the old message again.
OthersOnce == ~raced => \A t \in Threads :
  /\ Sending(t) /\ tconn[t] # NoConn => copies[t][tconn[t]] = 0
  /\ \A c \in Clients : copies[t][c] > 1 => peer[tconn[t]] = "broken"

\* When a thread is back at its read(), the clients that were registered when
\* the message was read, and still are, have been written it; each removal in
\* between shifted the array (:131-135) past at most one of them (:149-158).
NoMiss ==
  ~raced => \A t \in Threads : tpc[t] = "read" =>
    Cardinality({c \in owed[t] : copies[t][c] = 0}) <= shifts[t]

\* A message is written once to each of the others, whoever comes and leaves
\* during the loop that takes the mutex anew for each slot, and never to a
\* descriptor from a slot that was not written (:149-158).
BroadcastSound == SlotsWritten /\ OthersOnce /\ NoMiss

OpenConns    == {fdtab[f] : f \in {g \in Fds : fdtab[g] # NoConn}}
ClosingConns == {fdtab[f] : f \in {g \in ClosingFds : Valid(g)}}

\* Where the clients of a room are (Room): who is accepted and not registered
\* stands at the door.
AtDoor == OpenConns \ (Registered \cup ClosingConns)
Gone   == {c \in Clients : peer[c] # "idle" /\ ~Open(c)}
Broken == {c \in Clients : peer[c] = "broken"}

\* A thread is the voice of its connection until it has removed it.
VoiceOf  == [t \in Threads |-> IF tpc[t] \in {"close", "done"} THEN NoConn ELSE tconn[t]]
Speakers == {t \in Threads : Sending(t)}

Chat == INSTANCE Room WITH
  Voices <- Threads, door <- AtDoor, members <- Registered, leaving <- ClosingConns,
  gone <- Gone, reset <- Broken, voice <- VoiceOf, speaking <- Speakers,
  given <- copies, due <- owed, slack <- shifts

\* The server keeps what a room promises: connections come and go in order,
\* each has one voice, and a message is given to the others once, in a loop
\* that others interrupt, with no more holes than there were removals
\* (:86-99, :121-142, :148-159).
ChatsInRoom == Chat!RoomSpec

Accepted(c) == \E f \in Fds : fdtab[f] = c

\* The process lives, and every connection has been given its thread.
Served == alive /\ ~raced /\ \A t \in Threads : tpc[t] # "lost"

\* A client that has left is removed and its descriptor closed (:126, :142)
\* as long as the server serves.
LeaverClosed ==
  \A c \in Clients : Accepted(c) /\ AtEof(peer[c]) ~> ~Accepted(c) \/ ~Served

\* Every message sent by an accepted client is read (:121), whatever others
\* hold the mutex, as long as the server serves and its clients read.
SentIsRead ==
  \A c \in Clients : Accepted(c) /\ ~Drained(c) ~> Drained(c) \/ ~Served

\* No thread is held up for ever in its read or its removal (:121-142).
ClientsServed == LeaverClosed /\ SentIsRead
=============================================================================

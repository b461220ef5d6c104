------------------------------ MODULE OneShot ------------------------------
(***************************************************************************)
(* epoll_oneshot.c: main waits for events and creates a thread for each    *)
(* event of a connection; EPOLLONESHOT disarms the connection until its    *)
(* thread has read everything and re-arms it.  Nothing is sent back.       *)
(*                                                                         *)
(* A thread gets the address of a struct in main's frame: what it reads    *)
(* there is what main put there last, or anything (NoFd) once the block of *)
(* the struct was left and its place used for the address of accept().     *)
(*                                                                         *)
(* A connection can be left behind, open and disarmed for ever: its thread *)
(* ends at any error but EAGAIN without closing or re-arming it, and the   *)
(* result of pthread_create() is not looked at.                            *)
(***************************************************************************)
EXTENDS EdgeNet, FiniteSets

CONSTANTS
  MaxWorkers,       \* bound: threads alive at once
  CreateMayFail     \* pthread_create() may fail

ASSUME OneShotAssumption == MaxWorkers \in Nat /\ CreateMayFail \in BOOLEAN

VARIABLES
  armed,     \* the descriptors whose events are enabled
  arg,       \* the sockfd in the struct fds of main's frame
  tpc,       \* thread -> "none", "start", "recv", "rearm" or "close"
  wfd,       \* thread -> its sockfd
  raced,     \* history: arg was written while a thread had yet to read it
  left       \* history: clients whose open connection was left behind

work == <<armed, arg, tpc, wfd, raced, left>>
ShotVars == <<net, edge, work>>

Workers == 1..MaxWorkers
NoFd    == 0

ShotInit ==
  /\ EdgeInit
  /\ armed = {Listen} /\ arg = NoFd
  /\ tpc = [w \in Workers |-> "none"] /\ wfd = [w \in Workers |-> NoFd]
  /\ raced = FALSE /\ left = {}

-----------------------------------------------------------------------------
(* main. *)

Races == raced' = (raced \/ (arg' # arg /\ \E w \in Workers : tpc[w] = "start"))

\* Deviation: the connections are registered without EPOLLONESHOT.
ShotWaitArmed ==
  /\ Report({})
  /\ UNCHANGED work

ShotWait ==
  /\ Report({})
  /\ armed' = (armed \ batch') \cup {Listen}
  /\ UNCHANGED <<arg, tpc, wfd, raced, left>>

\* addfd() with EPOLLONESHOT; the listening socket is added without it.
ShotAccept ==
  /\ Event(Listen) /\ AcceptAndAdd
  /\ armed' = armed \cup {f \in Fds : fdtab'[f] # fdtab[f]}
  /\ arg' \in {arg, NoFd} /\ Races
  /\ UNCHANGED <<tpc, wfd, left>>

\* A failed accept() is passed over, and with it the edge.
ShotAcceptFail ==
  /\ Event(Listen)
  /\ UNCHANGED <<net, fdtab, rdy, work>>

CreateThread(f) ==
  /\ f # Listen /\ Event(f)
  /\ arg' = f /\ Races
  /\ \E w \in Workers :
       /\ tpc[w] = "none" /\ \A v \in Workers : v < w => tpc[v] # "none"
       /\ tpc' = [tpc EXCEPT ![w] = "start"]
  /\ UNCHANGED <<net, fdtab, rdy, armed, wfd, left>>

\* No thread, and the one event of the connection is spent.
CreateFails(f) ==
  /\ CreateMayFail
  /\ f # Listen /\ Event(f)
  /\ arg' = f /\ Races
  /\ left' = left \cup ({fdtab[f]} \cap Clients)
  /\ UNCHANGED <<net, fdtab, rdy, armed, tpc, wfd>>

-----------------------------------------------------------------------------
(* woker. *)

Step(w, from, to) == tpc[w] = from /\ tpc' = [tpc EXCEPT ![w] = to]
Fd(w)   == wfd[w]
Live(w) == Fd(w) \in Opened

Start(w) ==
  /\ Step(w, "start", "recv")
  /\ wfd' = [wfd EXCEPT ![w] = arg]
  /\ UNCHANGED <<net, edge, armed, arg, raced, left>>

RecvData(w) ==
  /\ tpc[w] = "recv" /\ Live(w) /\ TakeData(fdtab[Fd(w)])
  /\ UNCHANGED <<edge, work>>

\* Deviation: the thread ends without reset_oneshot().
RecvAgainEnds(w) ==
  /\ Step(w, "recv", "none") /\ Live(w) /\ ~Readable(fdtab[Fd(w)])
  /\ UNCHANGED <<net, edge, armed, arg, wfd, raced, left>>

RecvAgain(w) ==
  /\ Step(w, "recv", "rearm") /\ Live(w) /\ ~Readable(fdtab[Fd(w)])
  /\ UNCHANGED <<net, edge, armed, arg, wfd, raced, left>>

RecvEof(w) ==
  /\ Step(w, "recv", "close") /\ Live(w) /\ EofReady(fdtab[Fd(w)])
  /\ UNCHANGED <<net, edge, armed, arg, wfd, raced, left>>

\* Any other error ends the thread and nothing else: a descriptor that another
\* thread closed, or a reset of the connection, which stays open.
RecvErr(w) ==
  /\ Step(w, "recv", "none")
  /\ \/ ~Live(w) /\ UNCHANGED <<net, left>>
     \/ Live(w) /\ TakeErr(fdtab[Fd(w)]) /\ left' = left \cup {fdtab[Fd(w)]}
  /\ UNCHANGED <<edge, armed, arg, wfd, raced>>

\* reset_oneshot(): EPOLL_CTL_MOD looks at once whether there is something.
Rearm(w) ==
  /\ Step(w, "rearm", "none")
  /\ armed' = armed \cup ({Fd(w)} \cap Opened)
  /\ rdy' = rdy \cup {f \in {Fd(w)} \cap Opened : Ready(f)}
  /\ UNCHANGED <<net, fdtab, batch, arg, wfd, raced, left>>

Close(w) ==
  /\ Step(w, "close", "none")
  /\ IF Live(w) THEN CloseFd(Fd(w)) ELSE UNCHANGED <<net, fdtab, rdy>>
  /\ armed' = armed \ {Fd(w)}
  /\ UNCHANGED <<batch, arg, wfd, raced, left>>

-----------------------------------------------------------------------------
Main ==
  \/ ShotWait \/ ShotAccept \/ ShotAcceptFail
  \/ \E f \in Fds : CreateThread(f) \/ CreateFails(f)

Woker(w) ==
  \/ Start(w) \/ RecvData(w) \/ RecvAgain(w) \/ RecvEof(w) \/ RecvErr(w)
  \/ Rearm(w) \/ Close(w)

\* Nothing is sent to the clients, so that no unread answer makes a close() a
\* reset; any peer may still reset its connection.
Reset(c) ==
  /\ MayKill /\ Reads(peer[c]) /\ server[c] # "closed"
  /\ peer' = [peer EXCEPT ![c] = CloseBy(peer[c], TRUE)]
  /\ rdy' = rdy \cup (FdsOf(c) \cap armed)
  /\ UNCHANGED <<nsent, nread, echoed, got, backlog, server, fdtab, batch>>

ShotClient(c) == (Arrives(c, armed) \/ Reset(c)) /\ UNCHANGED work

ShotNext ==
  \/ Main
  \/ \E w \in Workers : Woker(w)
  \/ \E c \in Clients : ShotClient(c)

ShotSpec == ShotInit /\ [][ShotNext]_ShotVars

\* main and the threads run; nothing is asked of the clients.
FairShotSpec == ShotSpec /\ WF_ShotVars(Main) /\ \A w \in Workers : WF_ShotVars(Woker(w))

-----------------------------------------------------------------------------
(* Properties. *)

\* Every variable stays in its type; only what is open is watched.
ShotTypeOK ==
  /\ EdgeTypeOK
  /\ armed \subseteq AllFds /\ arg \in Fds \cup {NoFd}
  /\ tpc \in [Workers -> {"none", "start", "recv", "rearm", "close"}]
  /\ wfd \in [Workers -> Fds \cup {NoFd}]
  /\ armed \ {Listen} \subseteq Opened /\ rdy \ {Listen} \subseteq armed
  /\ raced \in BOOLEAN /\ left \subseteq Clients

Serving(f) == {w \in Workers :
  \/ tpc[w] = "start" /\ arg = f
  \/ tpc[w] \in {"recv", "rearm", "close"} /\ wfd[w] = f}

\* As long as no thread's argument was overwritten, every connection is in one
\* pair of hands: armed, or reported to main and not handled yet, or served by
\* a single thread (:169 "a new thread serves the socket", :73-74).  Only one
\* that was left behind is in none, and nothing takes it up again (:78-82, :170).
OneOwner ==
  /\ ShotTypeOK
  /\ ~raced => \A f \in Opened :
       \/ f \in armed /\ f \notin batch /\ Serving(f) = {} /\ fdtab[f] \notin left
       \/ f \notin armed /\ f \in batch /\ Serving(f) = {} /\ fdtab[f] \notin left
       \/ /\ f \notin armed /\ f \notin batch
          /\ Cardinality(Serving(f)) = IF fdtab[f] \in left THEN 0 ELSE 1

\* No edge is lost between the last recv() and EPOLL_CTL_MOD: an armed
\* connection with something to read is on the ready list (:67-76).
ArmedKept == \A f \in Opened \cap armed : Ready(f) => f \in rdy

\* A connection is in one pair of hands, and the armed one reports what it has
\* (:65-91).
HandsSound == OneOwner /\ ArmedKept

\* What an accepted client sends is read and its EOF closes its connection
\* (:65-91), unless an argument was overwritten or the connection left behind.
AllRead == \A c \in Clients :
  LET Given == raced \/ c \in left IN
  /\ server[c] = "open" /\ Readable(c) ~> ~Readable(c) \/ server[c] = "closed" \/ Given
  /\ server[c] = "open" /\ AtEof(peer[c]) ~> server[c] = "closed" \/ Given
=============================================================================

------------------------------ MODULE ProcEcho ------------------------------
(***************************************************************************)
(* tcp_echo_multi_proc_server.c: the parent accepts and forks; the child   *)
(* of a connection echoes it; a SIGCHLD handler collects exited children.  *)
(*                                                                         *)
(* A child is named by its connection.  held[p] is the set of sockets that *)
(* process p has descriptors of; a connection ends when no process holds   *)
(* it.  A signal sent while one is pending is merged with it, and the      *)
(* handler runs with SIGCHLD blocked.                                      *)
(***************************************************************************)
EXTENDS EchoNet

CONSTANTS
  Parent,        \* the parent process
  Serv,          \* the listening socket
  Readers,       \* the clients known to read what is sent back
  ForkMayFail    \* fork() may return -1

ASSUME ProcAssumption ==
  Parent \notin Clients /\ Serv \notin Clients /\ Readers \subseteq Clients /\ ForkMayFail \in BOOLEAN

VARIABLES
  ppc,       \* parent: "accept", "fork" or "close"
  clnt,      \* parent: clnt_sock
  cpc,       \* children
  held,      \* process -> sockets
  sigchld,   \* SIGCHLD is pending for the parent
  handling   \* the handler runs and has not called waitpid() yet

proc == <<ppc, clnt, cpc, held, sigchld, handling>>
vars == <<net, proc>>

CPcs  == {"none", "start", "read", "write", "close", "exit", "zombie", "reaped"}
Procs == Clients \cup {Parent}

Init ==
  /\ NetInit
  /\ ppc = "accept" /\ clnt = NoConn
  /\ cpc = [c \in Clients |-> "none"]
  /\ held = [p \in Procs |-> IF p = Parent THEN {Serv} ELSE {}]
  /\ sigchld = FALSE /\ handling = FALSE

Zombies == {c \in Clients : cpc[c] = "zombie"}

-----------------------------------------------------------------------------
(* The parent, outside the handler.  accept() interrupted by the handler   *)
(* returns -1 and is called again: no change of state.                     *)

Accept ==
  /\ ppc = "accept" /\ ~handling
  /\ \E c \in Clients :
       /\ Accepted(c) /\ clnt' = c
       /\ held' = [held EXCEPT ![Parent] = @ \cup {c}]
  /\ ppc' = "fork"
  /\ UNCHANGED <<cpc, sigchld, handling>>

\* The child starts with copies of the parent's descriptors.
Fork ==
  /\ ppc = "fork" /\ ~handling
  /\ cpc' = [cpc EXCEPT ![clnt] = "start"]
  /\ held' = [held EXCEPT ![clnt] = held[Parent]]
  /\ ppc' = "close"
  /\ UNCHANGED <<net, clnt, sigchld, handling>>

\* Process p no longer has descriptors of the sockets in S; a connection
\* nobody holds any more is closed.
Drop(p, S) ==
  /\ held' = [held EXCEPT ![p] = @ \ S]
  /\ server' = [c \in Clients |->
       IF c \in held[p] \cap S /\ \A q \in Procs \ {p} : c \notin held[q]
       THEN "closed" ELSE server[c]]
  /\ UNCHANGED <<peer, nsent, nread, echoed, got, backlog>>

ForkFails ==
  /\ ForkMayFail /\ ppc = "fork" /\ ~handling
  /\ Drop(Parent, {clnt})
  /\ ppc' = "accept"
  /\ UNCHANGED <<clnt, cpc, sigchld, handling>>

\* Deviation: the parent keeps its descriptor of the connection.
ParentKeeps ==
  /\ ppc = "close" /\ ~handling
  /\ ppc' = "accept"
  /\ UNCHANGED <<net, clnt, cpc, held, sigchld, handling>>

ParentClose ==
  /\ ppc = "close" /\ ~handling
  /\ Drop(Parent, {clnt})
  /\ ppc' = "accept"
  /\ UNCHANGED <<clnt, cpc, sigchld, handling>>

-----------------------------------------------------------------------------
(* read_childproc. *)

\* Deviation: SIGCHLD is left to its default.
HandlerNone ==
  /\ sigchld /\ ~handling
  /\ sigchld' = FALSE
  /\ UNCHANGED <<net, ppc, clnt, cpc, held, handling>>

HandlerEnter ==
  /\ sigchld /\ ~handling
  /\ sigchld' = FALSE /\ handling' = TRUE
  /\ UNCHANGED <<net, ppc, clnt, cpc, held>>

\* Deviation: the handler calls waitpid() a second time for the same signal.
WaitTwice ==
  /\ handling
  /\ \E c, d \in Zombies : cpc' = [cpc EXCEPT ![c] = "reaped", ![d] = "reaped"]
  /\ handling' = FALSE
  /\ UNCHANGED <<net, ppc, clnt, held, sigchld>>

\* One waitpid(-1, &status, WNOHANG) collects one child.  With none to collect
\* it would leave status as it was, uninitialized.
Collected ==
  IF Zombies = {} THEN {cpc} ELSE {[cpc EXCEPT ![c] = "reaped"] : c \in Zombies}

Waitpid ==
  /\ handling
  /\ cpc' \in Collected
  /\ handling' = FALSE
  /\ UNCHANGED <<net, ppc, clnt, held, sigchld>>

-----------------------------------------------------------------------------
(* A child. *)

Goto(c, from, to) == cpc[c] = from /\ cpc' = [cpc EXCEPT ![c] = to]

ChildStart(c) ==
  /\ Goto(c, "start", "read")
  /\ Drop(c, {Serv})
  /\ UNCHANGED <<ppc, clnt, sigchld, handling>>

ChildRead(c) ==
  /\ Goto(c, "read", "write") /\ TakeData(c)
  /\ UNCHANGED <<ppc, clnt, held, sigchld, handling>>

\* Deviation: the hang-up ends the loop with data still unread.
ChildEofEarly(c) ==
  /\ Goto(c, "read", "close")
  /\ AtEof(peer[c])
  /\ UNCHANGED <<net, ppc, clnt, held, sigchld, handling>>

ChildEof(c) ==
  /\ Goto(c, "read", "close") /\ EofReady(c)
  /\ UNCHANGED <<net, ppc, clnt, held, sigchld, handling>>

ChildErr(c) ==
  /\ Goto(c, "read", "close") /\ TakeErr(c)
  /\ UNCHANGED <<ppc, clnt, held, sigchld, handling>>

ChildWrite(c) ==
  /\ Goto(c, "write", "read")
  /\ WriteBack(c, <<c, nread[c]>>)
  /\ UNCHANGED <<ppc, clnt, held, sigchld, handling>>

ChildClose(c) ==
  /\ Goto(c, "close", "exit")
  /\ Drop(c, {c})
  /\ UNCHANGED <<ppc, clnt, sigchld, handling>>

\* Exit, or death by SIGPIPE: what is still open is closed, the parent is told.
ChildExit(c) ==
  /\ \/ cpc[c] = "exit"
     \/ cpc[c] = "write" /\ RaisesSigpipe(peer[c])
  /\ cpc' = [cpc EXCEPT ![c] = "zombie"]
  /\ Drop(c, held[c])
  /\ sigchld' = TRUE
  /\ UNCHANGED <<ppc, clnt, handling>>

-----------------------------------------------------------------------------
ParentStep == Accept \/ Fork \/ ForkFails \/ ParentClose
Handler    == HandlerEnter \/ Waitpid
Child(c)   ==
  \/ ChildStart(c) \/ ChildRead(c) \/ ChildEof(c) \/ ChildErr(c)
  \/ ChildWrite(c) \/ ChildClose(c) \/ ChildExit(c)

ClientStep(c) == Client(c) /\ UNCHANGED proc

Next ==
  \/ ParentStep \/ Handler
  \/ \E c \in Clients : Child(c) \/ ClientStep(c)

Spec == Init /\ [][Next]_vars

\* Every process is scheduled, and the clients in Readers read.
FairSpec ==
  /\ Spec
  /\ WF_vars(ParentStep) /\ WF_vars(Handler)
  /\ \A c \in Clients : WF_vars(Child(c))
  /\ \A c \in Readers : WF_vars(ClientRead(c) /\ UNCHANGED proc)

-----------------------------------------------------------------------------
(* Properties. *)

\* Every variable stays in its type.
TypeOK ==
  /\ NetTypeOK
  /\ ppc \in {"accept", "fork", "close"}
  /\ clnt \in Clients \/ (ppc = "accept" /\ clnt = NoConn)
  /\ cpc \in [Clients -> CPcs]
  /\ held \in [Procs -> SUBSET (Clients \cup {Serv})]
  /\ sigchld \in BOOLEAN /\ handling \in BOOLEAN

\* However signals merge, a handler that runs finds a child to collect: the
\* status it tests at :110, which nothing initializes, was set by waitpid(); if
\* no child is ever stopped or continued, which raises SIGCHLD as well.
StatusSet == handling => Zombies # {}

\* A child holds its own connection and nothing else once it is in its loop,
\* and the parent none while it waits (:84, :99, and the note at :117-123).
OwnSocketsOnly ==
  /\ ppc = "accept" => held[Parent] = {Serv}
  /\ \A c \in Clients : cpc[c] \in {"read", "write", "close"} => held[c] = {c}

\* The server is an echo service: chunks come back in order, once, and a
\* connection is not closed before everything is sent back (:87-93).
EchoSpec == Echo!SSpec

\* What a client sent comes back to it, and its EOF is answered by the last
\* close of the connection (:93, :99), even if no other client reads.
Answered == \A c \in Readers :
  /\ Len(echoed[c]) < nsent[c]
       ~> Len(echoed[c]) = nsent[c] \/ server[c] = "closed" \/ ~Reads(peer[c])
  /\ peer[c] = "fin" ~> server[c] = "closed"

\* Every child that exited is collected (:37), if no two are ever waiting for
\* it at once: their signals may merge, and the handler takes one (:109).
AllCollected ==
  [](\A c, d \in Zombies : c = d)
    => \A c \in Clients : cpc[c] = "zombie" ~> cpc[c] = "reaped"
=============================================================================

--------------------------- MODULE ProcEchoProofs ---------------------------
(***************************************************************************)
(* Theorems about tcp_echo_multi_proc_server.c for any number of clients,  *)
(* chunks and exiting children: it is an echo service, its processes hold  *)
(* only the sockets they should, and its signal handler never runs without *)
(* a child to collect.                                                     *)
(***************************************************************************)
EXTENDS ProcEcho, EchoNetProofs

ProcType ==
  /\ ppc \in {"accept", "fork", "close"}
  /\ clnt \in Clients \/ (ppc = "accept" /\ clnt = NoConn)
  /\ cpc \in [Clients -> CPcs]
  /\ held \in [Procs -> SUBSET (Clients \cup {Serv})]
  /\ sigchld \in BOOLEAN /\ handling \in BOOLEAN

\* Exactly what each process has descriptors of.
HeldInv ==
  /\ held[Parent] = IF ppc = "accept" THEN {Serv} ELSE {Serv, clnt}
  /\ \A c \in Clients :
       /\ cpc[c] = "start" => held[c] = {Serv, c}
       /\ cpc[c] \in {"read", "write", "close"} => held[c] = {c}
       /\ cpc[c] \in {"none", "exit", "zombie", "reaped"} => held[c] = {}

\* A connection is open while its child serves it or the parent holds it, and
\* it is given one child.
ServerInv ==
  /\ ppc = "fork" => cpc[clnt] = "none"
  /\ ppc = "close" => cpc[clnt] # "none"
  /\ ppc # "accept" => server[clnt] = "open"
  /\ \A c \in Clients :
       /\ server[c] = "new" => cpc[c] = "none"
       /\ cpc[c] \in {"start", "read", "write", "close"} => server[c] = "open"

\* How much was sent back at each point of the child's loop.
Progress ==
  \A c \in Clients :
    /\ cpc[c] \in {"none", "start"} => nread[c] = 0 /\ echoed[c] = <<>>
    /\ cpc[c] = "read" /\ Reads(peer[c]) => Len(echoed[c]) = nread[c]
    /\ cpc[c] = "write" =>
         nread[c] >= 1 /\ (Reads(peer[c]) => Len(echoed[c]) + 1 = nread[c])
    /\ cpc[c] \in {"close", "exit", "zombie", "reaped"} => Served(c)

\* A pending signal and a handler about to call waitpid() each stand for a
\* child of their own.
SignalInv ==
  /\ sigchld => Zombies # {}
  /\ handling => Zombies # {}
  /\ sigchld /\ handling => \E c, d \in Zombies : c # d

Inv == ProcType /\ NetInv /\ HeldInv /\ ServerInv /\ Progress /\ SignalInv

-----------------------------------------------------------------------------
LEMMA InitInv == Init => Inv
<1>. SUFFICES ASSUME Init PROVE Inv  OBVIOUS
<1>. USE DEF Init
<1>1. ProcType  BY ProcAssumption DEF ProcType, CPcs, Procs
<1>2. NetInv  BY NetInitInv
<1>3. HeldInv  BY ProcAssumption DEF HeldInv, Procs
<1>4. ServerInv /\ Progress /\ SignalInv
  BY DEF ServerInv, Progress, SignalInv, Zombies, NetInit
<1>. QED  BY <1>1, <1>2, <1>3, <1>4 DEF Inv

\* Dropping the sockets in S, of which c is the only connection, closes c at
\* most, and only when no other process holds it.
LEMMA DropFacts ==
  ASSUME ProcType, NetInv, NEW p \in Procs, NEW S, NEW c \in Clients,
         \A d \in Clients : d \in S => d = c,
         Drop(p, S)
  PROVE  /\ UNCHANGED <<peer, nsent, nread, echoed, got, backlog>>
         /\ held' = [held EXCEPT ![p] = @ \ S]
         /\ \/ server' = server
            \/ /\ server' = [server EXCEPT ![c] = "closed"]
               /\ c \in S /\ c \in held[p] /\ \A q \in Procs : q # p => c \notin held[q]
<1>1. server' = [d \in Clients |->
        IF d \in held[p] \cap S /\ \A q \in Procs \ {p} : d \notin held[q]
        THEN "closed" ELSE server[d]]
  BY DEF Drop
<1>2. server = [d \in Clients |-> server[d]]  BY DEF NetInv, NetTypeOK
<1>3. CASE c \in held[p] \cap S /\ \A q \in Procs \ {p} : c \notin held[q]
  <2>1. server' = [server EXCEPT ![c] = "closed"]
    BY <1>1, <1>2, <1>3
  <2>. QED  BY <1>3, <2>1 DEF Drop
<1>4. CASE ~(c \in held[p] \cap S /\ \A q \in Procs \ {p} : c \notin held[q])
  <2>1. \A d \in Clients : ~(d \in held[p] \cap S /\ \A q \in Procs \ {p} : d \notin held[q])
    BY <1>4
  <2>2. server' = server
    BY <1>1, <1>2, <2>1
  <2>. QED  BY <2>2 DEF Drop
<1>. QED  BY <1>3, <1>4

\* The drops the program makes, with what the invariant says of each.
LEMMA ParentDrop ==
  ASSUME Inv, ppc # "accept", Drop(Parent, {clnt})
  PROVE  /\ UNCHANGED <<peer, nsent, nread, echoed, got, backlog>>
         /\ held' = [held EXCEPT ![Parent] = {Serv}]
         /\ \/ server' = server
            \/ /\ server' = [server EXCEPT ![clnt] = "closed"]
               /\ cpc[clnt] \notin {"start", "read", "write", "close"}
<1>1. clnt \in Clients /\ Parent \in Procs /\ clnt \in Procs /\ clnt # Parent
  BY ProcAssumption DEF Inv, ProcType, Procs
<1>2. held[Parent] \ {clnt} = {Serv}
  BY <1>1, ProcAssumption DEF Inv, HeldInv
<1>3. clnt \notin held[clnt] => cpc[clnt] \notin {"start", "read", "write", "close"}
  BY <1>1 DEF Inv, HeldInv
<1>. QED  BY <1>1, <1>2, <1>3, DropFacts DEF Inv

LEMMA ChildDrop ==
  ASSUME Inv, NEW c \in Clients, NEW S,
         S \in {{Serv}, {c}, held[c]}, held[c] \subseteq {Serv, c}, Drop(c, S)
  PROVE  /\ UNCHANGED <<peer, nsent, nread, echoed, got, backlog>>
         /\ held' = [held EXCEPT ![c] = @ \ S]
         /\ \/ server' = server
            \/ /\ server' = [server EXCEPT ![c] = "closed"] /\ c \in S
               /\ ppc # "accept" => clnt # c
<1>1. c \in Procs /\ Parent \in Procs /\ Parent # c
  BY ProcAssumption DEF Procs
<1>2. \A d \in Clients : d \in S => d = c
  BY ProcAssumption
<1>3. c \notin held[Parent] => (ppc # "accept" => clnt # c)
  BY DEF Inv, HeldInv
<1>. QED  BY <1>1, <1>2, <1>3, DropFacts DEF Inv

-----------------------------------------------------------------------------
(* One lemma per kind of step: it keeps the invariant and is a step, or a  *)
(* stutter, of the echo service.                                           *)

LEMMA ClientStepInv ==
  ASSUME Inv, NEW c \in Clients, ClientStep(c)
  PROVE  Inv' /\ Refines
<1>. USE DEF Inv
<1>1. Client(c) /\ UNCHANGED proc  BY DEF ClientStep
<1>2. NetInv' /\ Refines  BY <1>1, ClientKeeps, ClientRefines
<1>3. /\ server' = server /\ nread' = nread /\ echoed' = echoed
      /\ \A d \in Clients : Reads(peer'[d]) => Reads(peer[d]) \/ peer[d] = "idle"
      /\ \A d \in Clients : peer[d] = "fin" => nsent'[d] = nsent[d]
      /\ \A d \in Clients : peer[d] = "fin" => peer'[d] \in {"fin", "gone", "rst", "broken"}
      /\ \A d \in Clients : peer[d] \in {"gone", "rst", "broken"} => peer'[d] = peer[d]
  <2>1. CASE Kill(c)
    <3>1. PICK p \in {"gone", "rst", "broken"} : peer' = [peer EXCEPT ![c] = p]
      BY <2>1, KillFacts
    <3>. QED  BY <2>1, <3>1 DEF Kill, Reads, NetInv, NetTypeOK
  <2>2. CASE ~Kill(c)
    BY <1>1, <2>2 DEF Client, Connect, ClientWrite, Shutdown, ClientRead, Reads, NetInv, NetTypeOK
  <2>. QED  BY <2>1, <2>2
<1>4. ProcType' /\ HeldInv' /\ ServerInv' /\ SignalInv'
  BY <1>1, <1>3 DEF proc, ProcType, HeldInv, ServerInv, SignalInv, Zombies
<1>5. Progress'
  <2>1. \A d \in Clients : cpc[d] \in {"read", "write"} => peer[d] # "idle"
    BY DEF ServerInv, NetInv, ConnInv
  <2>. QED  BY <1>1, <1>3, <2>1 DEF proc, Progress, Served
<1>. QED  BY <1>2, <1>4, <1>5

LEMMA AcceptInv ==
  ASSUME Inv, Accept
  PROVE  Inv' /\ Refines
<1>. USE DEF Inv
<1>1. PICK c \in Clients :
        /\ Accepted(c) /\ clnt' = c
        /\ held' = [held EXCEPT ![Parent] = @ \cup {c}]
  BY DEF Accept
<1>2. /\ ppc = "accept" /\ ppc' = "fork"
      /\ UNCHANGED <<cpc, sigchld, handling, peer, nsent, nread, echoed>>
      /\ server' = [server EXCEPT ![c] = "open"]
  BY <1>1 DEF Accept, Accepted
<1>3. NetInv' /\ Refines /\ server[c] = "new"
  BY <1>1, AcceptKeeps, AcceptRefines
<1>4. Parent \in Procs /\ Parent \notin Clients /\ Clients \subseteq Procs
  BY ProcAssumption DEF Procs
<1>5. ProcType'  BY <1>1, <1>2, <1>4 DEF ProcType
<1>6. HeldInv'  BY <1>1, <1>2, <1>4 DEF HeldInv, ProcType
<1>7. ServerInv'  BY <1>1, <1>2, <1>3 DEF ServerInv, NetInv, NetTypeOK
<1>8. Progress' /\ SignalInv'
  BY <1>2 DEF Progress, Served, SignalInv, Zombies
<1>. QED  BY <1>3, <1>5, <1>6, <1>7, <1>8

LEMMA ForkInv ==
  ASSUME Inv, Fork
  PROVE  Inv' /\ Refines
<1>. USE DEF Inv
<1>1. /\ ppc = "fork" /\ ppc' = "close" /\ cpc' = [cpc EXCEPT ![clnt] = "start"]
      /\ held' = [held EXCEPT ![clnt] = held[Parent]]
      /\ UNCHANGED <<net, clnt, sigchld, handling>>
  BY DEF Fork
<1>2. clnt \in Clients /\ clnt \in Procs /\ Parent \in Procs /\ clnt # Parent
  BY <1>1, ProcAssumption DEF ProcType, Procs
<1>3. cpc[clnt] = "none" /\ server[clnt] = "open"  BY <1>1 DEF ServerInv
<1>4. NetInv' /\ Refines  BY <1>1, NetFrame, FrameRefines
<1>5. ProcType'
  <2>1. held[Parent] \in SUBSET (Clients \cup {Serv})  BY <1>2 DEF ProcType
  <2>. QED  BY <1>1, <1>2, <2>1 DEF ProcType, CPcs
<1>6. HeldInv'
  BY <1>1, <1>2, <1>3, ProcAssumption DEF HeldInv, ProcType, Procs
<1>7. ServerInv'  BY <1>1, <1>2, <1>3 DEF ServerInv, net, ProcType
<1>8. Progress'  BY <1>1, <1>2, <1>3 DEF Progress, Served, net, ProcType
<1>9. SignalInv'
  <2>1. Zombies' = Zombies  BY <1>1, <1>2, <1>3 DEF Zombies, ProcType
  <2>. QED  BY <1>1, <2>1 DEF SignalInv
<1>. QED  BY <1>4, <1>5, <1>6, <1>7, <1>8, <1>9

\* ForkFails and ParentClose.
LEMMA ParentDropInv ==
  ASSUME Inv, ForkFails \/ ParentClose
  PROVE  Inv' /\ Refines
<1>. USE DEF Inv
<1>1. /\ ppc # "accept" /\ ppc' = "accept" /\ Drop(Parent, {clnt})
      /\ UNCHANGED <<clnt, cpc, sigchld, handling>>
  BY DEF ForkFails, ParentClose
<1>2. /\ UNCHANGED <<peer, nsent, nread, echoed, got, backlog>>
      /\ held' = [held EXCEPT ![Parent] = {Serv}]
      /\ \/ server' = server
         \/ /\ server' = [server EXCEPT ![clnt] = "closed"]
            /\ cpc[clnt] \notin {"start", "read", "write", "close"}
  BY <1>1, ParentDrop
<1>3. clnt \in Clients /\ Parent \in Procs /\ Parent \notin Clients /\ Clients \subseteq Procs
  BY <1>1, ProcAssumption DEF ProcType, Procs
<1>4. server[clnt] = "open"  BY <1>1 DEF ServerInv
<1>5. NetInv'
  <2>1. ServerOnly  BY <1>2, <1>3, <1>4 DEF ServerOnly, NetInv, NetTypeOK
  <2>. QED  BY <2>1, ServerKeeps
<1>6. Refines
  <2>1. CASE server' = server  BY <1>2, <1>3, <2>1, CloseRefines DEF Refines, Echo!svars
  <2>2. CASE server' # server
    <3>1. cpc[clnt] \in {"none", "exit", "zombie", "reaped"}
      BY <1>2, <1>3, <2>2 DEF ProcType, CPcs
    <3>2. Served(clnt) \/ echoed[clnt] = <<>>
      BY <1>3, <3>1 DEF Progress
    <3>. QED  BY <1>2, <1>3, <3>2, CloseRefines
  <2>. QED  BY <2>1, <2>2
<1>7. ProcType'  BY <1>1, <1>2, <1>3 DEF ProcType
<1>8. HeldInv'  BY <1>1, <1>2, <1>3 DEF HeldInv, ProcType
<1>9. ServerInv'  BY <1>1, <1>2, <1>3, <1>4 DEF ServerInv, NetInv, NetTypeOK
<1>10. Progress' /\ SignalInv'
  BY <1>1, <1>2 DEF Progress, Served, SignalInv, Zombies
<1>. QED  BY <1>5, <1>6, <1>7, <1>8, <1>9, <1>10

LEMMA HandlerInv ==
  ASSUME Inv, Handler
  PROVE  Inv' /\ Refines
<1>. USE DEF Inv
<1>1. UNCHANGED <<net, ppc, clnt, held>>
  BY DEF Handler, HandlerEnter, Waitpid
<1>2. NetInv' /\ Refines  BY <1>1, NetFrame, FrameRefines
<1>3. CASE HandlerEnter
  <2>1. cpc' = cpc /\ Zombies' = Zombies /\ sigchld /\ sigchld' = FALSE /\ handling' = TRUE
    BY <1>3 DEF HandlerEnter, Zombies
  <2>2. ProcType'  BY <1>1, <2>1 DEF ProcType
  <2>3. HeldInv' /\ ServerInv' /\ Progress'
    BY <1>1, <2>1 DEF HeldInv, ServerInv, Progress, Served, net
  <2>4. SignalInv'  BY <2>1 DEF SignalInv
  <2>. QED  BY <1>2, <2>2, <2>3, <2>4
<1>4. CASE Waitpid
  <2>1. handling /\ handling' = FALSE /\ sigchld' = sigchld /\ cpc' \in Collected
    BY <1>4 DEF Waitpid
  <2>2. PICK z \in Zombies : cpc' = [cpc EXCEPT ![z] = "reaped"]
    BY <2>1 DEF Collected, SignalInv
  <2>3. z \in Clients /\ cpc[z] = "zombie"  BY DEF Zombies
  <2>4. ProcType' /\ HeldInv' /\ ServerInv'
    <3>1. ProcType'  BY <1>1, <2>1, <2>2, <2>3 DEF ProcType, CPcs
    <3>2. HeldInv'  BY <1>1, <2>2, <2>3 DEF ProcType, HeldInv
    <3>3. ServerInv'  BY <1>1, <2>2, <2>3 DEF ProcType, ServerInv, net
    <3>. QED  BY <3>1, <3>2, <3>3
  <2>5. Progress'
    BY <1>1, <2>2, <2>3 DEF ProcType, Progress, Served, net
  <2>6. SignalInv'
    <3>1. Zombies' = Zombies \ {z}  BY <2>2, <2>3 DEF Zombies, ProcType
    <3>. QED  BY <2>1, <3>1 DEF SignalInv
  <2>. QED  BY <1>2, <2>4, <2>5, <2>6
<1>. QED  BY <1>3, <1>4 DEF Handler

\* The child's steps that touch neither descriptors nor signals.
LEMMA ChildLoopInv ==
  ASSUME Inv, NEW c \in Clients,
         ChildRead(c) \/ ChildEof(c) \/ ChildErr(c) \/ ChildWrite(c)
  PROVE  Inv' /\ Refines
<1>. USE DEF Inv
<1>1. UNCHANGED <<ppc, clnt, held, sigchld, handling>>
  BY DEF ChildRead, ChildEof, ChildErr, ChildWrite
<1>2. PICK x \in {"read", "write", "close"} : cpc' = [cpc EXCEPT ![c] = x]
  BY DEF ChildRead, ChildEof, ChildErr, ChildWrite, Goto
<1>3. cpc[c] \in {"read", "write"} /\ server[c] = "open"
  BY DEF ChildRead, ChildEof, ChildErr, ChildWrite, Goto, ServerInv
<1>4. server' = server
  BY DEF ChildRead, ChildEof, ChildErr, ChildWrite, TakeData, TakeErr, WriteBack, net
<1>5. ProcType' /\ HeldInv'
  BY <1>1, <1>2, <1>3 DEF ProcType, HeldInv, CPcs
<1>6. ServerInv'
  BY <1>1, <1>2, <1>3, <1>4 DEF ServerInv, ProcType
<1>7. SignalInv'
  <2>1. Zombies' = Zombies  BY <1>2, <1>3 DEF Zombies, ProcType
  <2>. QED  BY <1>1, <2>1 DEF SignalInv
<1>8. CASE ChildRead(c)
  <2>1. NetInv' /\ Refines
    BY <1>3, <1>8, TakeDataKeeps, TakeRefines DEF ChildRead
  <2>2. Progress'
    BY <1>8 DEF ChildRead, Goto, TakeData, DataReady, Progress, Served, ProcType, NetInv, NetTypeOK
  <2>. QED  BY <1>5, <1>6, <1>7, <2>1, <2>2
<1>9. CASE ChildEof(c)
  <2>1. NetInv' /\ Refines
    BY <1>9, NetFrame, FrameRefines DEF ChildEof
  <2>2. Served(c)
    BY <1>9 DEF ChildEof, Goto, EofReady, AtEof, Progress, Served, Reads
  <2>3. Progress'
    BY <1>9, <2>2 DEF ChildEof, Goto, Progress, Served, ProcType, net
  <2>. QED  BY <1>5, <1>6, <1>7, <2>1, <2>3
<1>10. CASE ChildErr(c)
  <2>1. NetInv' /\ Refines
    BY <1>10, TakeErrKeeps, TakeRefines DEF ChildErr
  <2>2. Progress'
    BY <1>10 DEF ChildErr, Goto, TakeErr, ErrReady, Progress, Served, Reads, ProcType, NetInv, NetTypeOK
  <2>. QED  BY <1>5, <1>6, <1>7, <2>1, <2>2
<1>11. CASE ChildWrite(c)
  <2>1. WriteBack(c, <<c, nread[c]>>) /\ cpc[c] = "write" /\ cpc' = [cpc EXCEPT ![c] = "read"]
    BY <1>11 DEF ChildWrite, Goto
  <2>2. nread[c] >= 1 /\ nread[c] \in Nat /\ nread[c] <= nsent[c] /\ <<c, nread[c]>> \in Chunks
    BY <2>1 DEF Progress, NetInv, NetTypeOK, ConnInv, Chunks
  <2>3. NetInv'  BY <1>3, <2>1, <2>2, WriteBackKeeps DEF Lines
  <2>4. Reads(peer[c]) => Len(echoed[c]) + 1 = nread[c]
    BY <2>1 DEF Progress
  <2>5. Len(echoed[c]) \in Nat /\ nsent[c] \in Nat  BY DEF NetInv, NetTypeOK
  <2>6. Reads(peer[c]) => <<c, nread[c]>> = <<c, Len(echoed[c]) + 1>> /\ Len(echoed[c]) < nsent[c]
    BY <2>2, <2>4, <2>5
  <2>7. Refines  BY <1>3, <2>1, <2>6, WriteBackRefines
  <2>8. PICK p \in AfterWrite(peer[c]) : peer' = [peer EXCEPT ![c] = p]
    BY <2>1 DEF WriteBack
  <2>9. peer[c] \in PeerStates  BY DEF NetInv, NetTypeOK
  <2>10. Reads(p) => Reads(peer[c])
    BY <2>8, <2>9, AfterWriteFacts DEF Reads
  <2>11. Reads(peer'[c]) => Len(echoed'[c]) = nread'[c]
    <3>1. peer'[c] = p  BY <2>8 DEF NetInv, NetTypeOK
    <3>2. SUFFICES ASSUME Reads(peer[c]) PROVE Len(echoed'[c]) = nread'[c]
      BY <2>10, <3>1
    <3>3. echoed'[c] = Append(echoed[c], <<c, nread[c]>>) /\ nread' = nread
      BY <2>1, <3>2 DEF WriteBack, NetInv, NetTypeOK
    <3>. QED  BY <2>4, <2>5, <3>2, <3>3 DEF NetInv, NetTypeOK
  <2>12. \A d \in Clients : d # c =>
           peer'[d] = peer[d] /\ echoed'[d] = echoed[d] /\ cpc'[d] = cpc[d]
    BY <2>1, <2>8 DEF WriteBack, NetInv, NetTypeOK, ProcType
  <2>13. nread' = nread /\ nsent' = nsent /\ cpc'[c] = "read"
    BY <2>1 DEF WriteBack, ProcType
  <2>14. Progress'
    BY <2>11, <2>12, <2>13 DEF Progress, Served
  <2>. QED  BY <1>5, <1>6, <1>7, <2>3, <2>7, <2>14
<1>. QED  BY <1>8, <1>9, <1>10, <1>11

\* The child's steps that close descriptors.
LEMMA ChildDropInv ==
  ASSUME Inv, NEW c \in Clients, ChildStart(c) \/ ChildClose(c) \/ ChildExit(c)
  PROVE  Inv' /\ Refines
<1>. USE DEF Inv
<1>1. PICK S \in {{Serv}, {c}, held[c]} :
        /\ Drop(c, S) /\ UNCHANGED <<ppc, clnt, handling>>
        /\ \/ /\ cpc[c] = "start" /\ cpc' = [cpc EXCEPT ![c] = "read"]
              /\ S = {Serv} /\ sigchld' = sigchld
           \/ /\ cpc[c] = "close" /\ cpc' = [cpc EXCEPT ![c] = "exit"]
              /\ S = {c} /\ sigchld' = sigchld
           \/ /\ cpc[c] = "exit" \/ (cpc[c] = "write" /\ peer[c] = "broken")
              /\ cpc' = [cpc EXCEPT ![c] = "zombie"]
              /\ S = held[c] /\ sigchld' = TRUE
  BY DEF ChildStart, ChildClose, ChildExit, Goto, RaisesSigpipe
<1>2. held[c] \subseteq {Serv, c}
  BY <1>1 DEF HeldInv
<1>3. /\ UNCHANGED <<peer, nsent, nread, echoed, got, backlog>>
      /\ held' = [held EXCEPT ![c] = @ \ S]
      /\ \/ server' = server
         \/ /\ server' = [server EXCEPT ![c] = "closed"] /\ c \in S
            /\ ppc # "accept" => clnt # c
  BY <1>1, <1>2, ChildDrop
<1>4. c \in Procs /\ c # Parent /\ c # Serv /\ Serv \notin Clients
  BY ProcAssumption DEF Procs
<1>5. server[c] # "new"  BY <1>1 DEF ServerInv
<1>6. NetInv'
  <2>1. ServerOnly  BY <1>3, <1>5 DEF ServerOnly, NetInv, NetTypeOK
  <2>. QED  BY <2>1, ServerKeeps
<1>7. Progress'
  <2>1. Served(c) \/ cpc[c] = "start"
    BY <1>1 DEF Progress, Served
  <2>2. cpc'[c] = "read" => nread[c] = 0 /\ echoed[c] = <<>>
    BY <1>1 DEF Progress, ProcType
  <2>3. cpc'[c] \in {"read", "exit", "zombie"} /\ \A d \in Clients : d # c => cpc'[d] = cpc[d]
    BY <1>1 DEF ProcType
  <2>4. cpc'[c] # "read" => Served(c)
    BY <1>1, <2>1 DEF ProcType
  <2>. QED  BY <1>3, <2>2, <2>3, <2>4 DEF Progress, Served
<1>8. Refines
  <2>1. Served(c) \/ echoed[c] = <<>>
    BY <1>1 DEF Progress, Served
  <2>. QED  BY <1>3, <2>1, CloseRefines
<1>9. ProcType'
  <2>1. cpc' \in [Clients -> CPcs]  BY <1>1 DEF ProcType, CPcs
  <2>2. held' \in [Procs -> SUBSET (Clients \cup {Serv})]
    BY <1>3, <1>4 DEF ProcType
  <2>3. sigchld' \in BOOLEAN  BY <1>1 DEF ProcType
  <2>. QED  BY <1>1, <2>1, <2>2, <2>3 DEF ProcType
<1>10. HeldInv'
  <2>1. held'[Parent] = held[Parent] /\ held'[c] = held[c] \ S
    BY <1>3, <1>4 DEF ProcType
  <2>2. \A d \in Clients : d # c => held'[d] = held[d] /\ cpc'[d] = cpc[d]
    BY <1>1, <1>3 DEF ProcType
  <2>3. /\ cpc'[c] \in {"read", "exit", "zombie"}
        /\ cpc'[c] = "read" => held'[c] = {c}
        /\ cpc'[c] # "read" => held'[c] = {}
    BY <1>1, <1>4, <2>1 DEF HeldInv, ProcType
  <2>. QED  BY <1>1, <2>1, <2>2, <2>3 DEF HeldInv
<1>11. ServerInv'
  <2>1. /\ ppc = "fork" => cpc'[clnt] = "none"
        /\ ppc = "close" => cpc'[clnt] # "none"
    BY <1>1 DEF ServerInv, ProcType
  <2>2. ppc # "accept" => server'[clnt] = "open"
    BY <1>3 DEF ServerInv, NetInv, NetTypeOK, ProcType
  <2>3. \A d \in Clients : d # c => server'[d] = server[d] /\ cpc'[d] = cpc[d]
    BY <1>1, <1>3 DEF NetInv, NetTypeOK, ProcType
  <2>4. server'[c] # "new" /\ (cpc'[c] = "read" => server'[c] = "open")
    BY <1>1, <1>3, <1>4, <1>5 DEF ServerInv, NetInv, NetTypeOK, ProcType
  <2>5. cpc'[c] \in {"read", "exit", "zombie"}  BY <1>1 DEF ProcType
  <2>. QED  BY <1>1, <2>1, <2>2, <2>3, <2>4, <2>5 DEF ServerInv
<1>12. SignalInv'
  <2>1. CASE cpc'[c] = "zombie"
    <3>1. Zombies' = Zombies \cup {c} /\ c \notin Zombies
      BY <1>1, <2>1 DEF Zombies, ProcType
    <3>. QED  BY <1>1, <3>1 DEF SignalInv
  <2>2. CASE cpc'[c] # "zombie"
    <3>1. Zombies' = Zombies /\ sigchld' = sigchld
      BY <1>1, <2>2 DEF Zombies, ProcType
    <3>. QED  BY <1>1, <3>1 DEF SignalInv
  <2>. QED  BY <2>1, <2>2
<1>. QED  BY <1>6, <1>7, <1>8, <1>9, <1>10, <1>11, <1>12

LEMMA NextInv == Inv /\ [Next]_vars => Inv' /\ Refines
<1>. SUFFICES ASSUME Inv, [Next]_vars PROVE Inv' /\ Refines  OBVIOUS
<1>1. CASE UNCHANGED vars
  <2>1. NetInv' /\ Refines  BY <1>1, NetFrame, FrameRefines DEF vars, Inv
  <2>2. ProcType' /\ HeldInv' /\ ServerInv' /\ Progress' /\ SignalInv'
    BY <1>1 DEF vars, net, proc, Inv, ProcType, HeldInv, ServerInv, Progress, Served,
                SignalInv, Zombies
  <2>. QED  BY <2>1, <2>2 DEF Inv
<1>2. CASE ParentStep
  BY <1>2, AcceptInv, ForkInv, ParentDropInv DEF ParentStep
<1>3. CASE Handler  BY <1>3, HandlerInv
<1>4. ASSUME NEW c \in Clients, Child(c) PROVE Inv' /\ Refines
  BY <1>4, ChildLoopInv, ChildDropInv DEF Child
<1>5. ASSUME NEW c \in Clients, ClientStep(c) PROVE Inv' /\ Refines
  BY <1>5, ClientStepInv
<1>. QED  BY <1>1, <1>2, <1>3, <1>4, <1>5 DEF Next

THEOREM InvHolds == Spec => []Inv
BY InitInv, NextInv, PTL DEF Spec

\* Type correctness, for any number of clients.
THEOREM TypeSafe == Spec => []TypeOK
<1>1. Inv => TypeOK  BY DEF Inv, TypeOK, ProcType, NetInv
<1>. QED  BY <1>1, InvHolds, PTL

\* The handler never tests a status that waitpid() did not set, however many
\* children exit and however their signals merge
\* (tcp_echo_multi_proc_server.c:104-115).
THEOREM StatusIsSet == Spec => []StatusSet
<1>1. Inv => StatusSet  BY DEF Inv, SignalInv, StatusSet
<1>. QED  BY <1>1, InvHolds, PTL

\* No child ever holds another client's connection or the listening socket in
\* its loop (tcp_echo_multi_proc_server.c:84, :99).
THEOREM OwnSockets == Spec => []OwnSocketsOnly
<1>1. Inv => OwnSocketsOnly
  BY DEF Inv, HeldInv, OwnSocketsOnly
<1>. QED  BY <1>1, InvHolds, PTL

\* The forking server implements the echo service
\* (tcp_echo_multi_proc_server.c:63-101).
THEOREM ForkingEcho == Spec => EchoSpec
<1>1. Init => Echo!SInit  BY InitRefines DEF Init
<1>2. Inv /\ [Next]_vars => [Echo!SNext]_(Echo!svars)
  BY NextInv DEF Refines
<1>. QED  BY <1>1, <1>2, InvHolds, PTL DEF Spec, EchoSpec, Echo!SSpec

-----------------------------------------------------------------------------
(* Exited children. *)

Lone == \A c, d \in Zombies : c = d
Told == Zombies # {} => sigchld \/ handling

LEMMA ToldNext == Inv /\ Lone /\ Told /\ [Next]_vars => Told'
<1>. SUFFICES ASSUME Inv, Lone, Told, [Next]_vars PROVE Told'  OBVIOUS
<1>0. cpc \in [Clients -> CPcs]  BY DEF Inv, ProcType
<1>1. ASSUME UNCHANGED <<sigchld, handling>>,
             \A c \in Clients : cpc'[c] = "zombie" => cpc[c] = "zombie"
      PROVE  Told'
  BY <1>1 DEF Told, Zombies
<1>2. CASE UNCHANGED vars  BY <1>1, <1>2 DEF vars, proc
<1>3. CASE ParentStep
  BY <1>0, <1>1, <1>3 DEF ParentStep, Accept, Fork, ForkFails, ParentClose
<1>4. CASE HandlerEnter  BY <1>4 DEF HandlerEnter, Told
<1>5. CASE Waitpid
  <2>1. PICK c \in Zombies : cpc' = [cpc EXCEPT ![c] = "reaped"]
    BY <1>5 DEF Waitpid, Collected, Inv, SignalInv
  <2>2. Zombies' = {}  BY <1>0, <2>1 DEF Lone, Zombies
  <2>. QED  BY <2>2 DEF Told
<1>6. ASSUME NEW c \in Clients, ChildExit(c) PROVE Told'
  BY <1>6 DEF ChildExit, Told
<1>7. ASSUME NEW c \in Clients, Child(c), ~ChildExit(c) PROVE Told'
  BY <1>0, <1>1, <1>7
  DEF Child, ChildStart, ChildRead, ChildEof, ChildErr, ChildWrite, ChildClose, Goto
<1>8. ASSUME NEW c \in Clients, ClientStep(c) PROVE Told'
  BY <1>1, <1>8 DEF ClientStep, proc
<1>. QED  BY <1>2, <1>3, <1>4, <1>5, <1>6, <1>7, <1>8 DEF Next, Handler

\* What AllCollected needs of the signals: if no two exited children are ever
\* waiting at once, one that is has a signal pending or the handler running
\* for it, however signals and handlers interleave with forks and exits
\* (tcp_echo_multi_proc_server.c:37, :109).
THEOREM ExitIsTold == Spec /\ []Lone => []Told
<1>1. Init => Told  BY DEF Init, Told, Zombies
<1>. QED  BY <1>1, ToldNext, InvHolds, PTL DEF Spec
=============================================================================

------------------------------ MODULE UdpEcho ------------------------------
(***************************************************************************)
(* udp_echo_server.c with its clients: udp_echo_client.c, and the hosts in *)
(* Connected run udp_echo_conn_client.c, whose socket is connect()ed (its  *)
(* line 70 says sizfof for sizeof).  Datagrams may be lost, duplicated and *)
(* reordered; no program waits with a timeout or sends anything again.     *)
(* The k-th datagram of host h carries <<h, k>>, whatever text it is.      *)
(***************************************************************************)
EXTENDS Naturals, Sequences, Bags, Programs

CONSTANTS
  Hosts, Connected, \* the clients; those with a connected socket
  UdpServer,        \* the server's address
  Stranger,         \* another sender that knows the clients' ports
  NoAnswer,         \* recvfrom() returned -1: the buffer keeps the question
  MaxAsks,          \* bound: questions of a client
  MaxFaults         \* bound: losses, duplications, strangers' datagrams each

ASSUME UdpAssumption ==
  /\ Connected \subseteq Hosts
  /\ {UdpServer, Stranger} \cap Hosts = {} /\ UdpServer # Stranger
  /\ MaxAsks \in Nat /\ MaxFaults \in Nat

VARIABLES
  up,         \* the server has bound its port
  air,        \* bag of datagrams sent and not received
  upc,        \* the server: "recv" or "send"
  request,    \* what its recvfrom() filled in: message and clnt_adr
  hpc,        \* clients: "type", "wait" in recvfrom() or read(), "quit"
  asks,       \* questions typed
  answers,    \* what each recvfrom() or read() returned
  refused,    \* an ICMP error is pending on the connected socket
  vain,       \* history: datagrams a client waited or will wait for in vain
  lost, dups, strange   \* the faults so far

uvars == <<up, air, upc, request, hpc, asks, answers, refused, vain, lost, dups, strange>>

Dgram(from, to, msg) == [from |-> from, to |-> to, msg |-> msg]
NoRequest == Dgram(Stranger, UdpServer, <<Stranger, 0>>)

Sends(d) == air' = air (+) SetToBag({d})
Takes(d) == BagIn(d, air) /\ air' = air (-) SetToBag({d})

UdpFresh ==
  /\ up = FALSE /\ air = EmptyBag /\ upc = "recv" /\ request = NoRequest
  /\ hpc = [h \in Hosts |-> "type"] /\ asks = [h \in Hosts |-> 0]
  /\ answers = [h \in Hosts |-> <<>>]
  /\ refused = [h \in Hosts |-> FALSE] /\ vain = [h \in Hosts |-> 0]
  /\ lost = 0 /\ dups = 0 /\ strange = 0

Udp == program = "udp_echo_server"
UdpInit == Udp /\ UdpFresh

-----------------------------------------------------------------------------
(* The server. *)

Bind ==
  /\ ~up /\ up' = TRUE
  /\ UNCHANGED <<air, upc, request, hpc, asks, answers, refused, vain, lost, dups, strange>>

\* Deviation: clnt_adr_sz is not set again, the address of the first client
\* stays.
ServerRecvOld(d) ==
  /\ up /\ upc = "recv" /\ d.to = UdpServer /\ Takes(d)
  /\ request' = IF request = NoRequest THEN d ELSE [d EXCEPT !.from = request.from]
  /\ upc' = "send"
  /\ UNCHANGED <<up, hpc, asks, answers, refused, vain, lost, dups, strange>>

ServerRecv(d) ==
  /\ up /\ upc = "recv" /\ d.to = UdpServer /\ Takes(d)
  /\ request' = d
  /\ upc' = "send"
  /\ UNCHANGED <<up, hpc, asks, answers, refused, vain, lost, dups, strange>>

\* Deviation: a client is answered once.
ServerSendNew ==
  /\ upc = "send"
  /\ IF request.msg[2] = 1 THEN Sends(Dgram(UdpServer, request.from, request.msg))
                           ELSE UNCHANGED air
  /\ upc' = "recv"
  /\ UNCHANGED <<up, request, hpc, asks, answers, refused, vain, lost, dups, strange>>

ServerSend ==
  /\ upc = "send"
  /\ Sends(Dgram(UdpServer, request.from, request.msg))
  /\ upc' = "recv"
  /\ UNCHANGED <<up, request, hpc, asks, answers, refused, vain, lost, dups, strange>>

-----------------------------------------------------------------------------
(* The clients. *)

\* A pending error is what write() returns instead of sending; the result is
\* not looked at.
Ask(h) ==
  /\ hpc[h] = "type" /\ asks[h] < MaxAsks
  /\ asks' = [asks EXCEPT ![h] = @ + 1]
  /\ hpc' = [hpc EXCEPT ![h] = "wait"]
  /\ IF refused[h]
     THEN vain' = [vain EXCEPT ![h] = @ + 1] /\ UNCHANGED air
     ELSE Sends(Dgram(h, UdpServer, <<h, asks'[h]>>)) /\ UNCHANGED vain
  /\ refused' = [refused EXCEPT ![h] = FALSE]
  /\ UNCHANGED <<up, upc, request, answers, lost, dups, strange>>

\* A connected socket receives from its peer only.
Passes(h, d) == h \in Connected => d.from = UdpServer

Answer(h, d) ==
  /\ hpc[h] = "wait" /\ ~refused[h]
  /\ d.to = h /\ Passes(h, d) /\ Takes(d)
  /\ answers' = [answers EXCEPT ![h] = Append(@, d.msg)]
  /\ hpc' = [hpc EXCEPT ![h] = "type"]
  /\ UNCHANGED <<up, upc, request, asks, refused, vain, lost, dups, strange>>

\* ECONNREFUSED: the client prints its own question.
AnswerError(h) ==
  /\ hpc[h] = "wait" /\ refused[h]
  /\ refused' = [refused EXCEPT ![h] = FALSE]
  /\ answers' = [answers EXCEPT ![h] = Append(@, NoAnswer)]
  /\ hpc' = [hpc EXCEPT ![h] = "type"]
  /\ UNCHANGED <<up, air, upc, request, asks, vain, lost, dups, strange>>

QuitUdp(h) ==
  /\ hpc[h] = "type"
  /\ hpc' = [hpc EXCEPT ![h] = "quit"]
  /\ UNCHANGED <<up, air, upc, request, asks, answers, refused, vain, lost, dups, strange>>

-----------------------------------------------------------------------------
(* The network. *)

\* The client a datagram was sent by or is an answer to.
OnBehalf(d) == {d.from, d.to} \cap Hosts
Missed(d) == vain' = [h \in Hosts |-> IF h \in OnBehalf(d) THEN vain[h] + 1 ELSE vain[h]]

Lose(d) ==
  /\ lost < MaxFaults /\ Takes(d)
  /\ lost' = lost + 1 /\ Missed(d)
  /\ UNCHANGED <<up, upc, request, hpc, asks, answers, refused, dups, strange>>

Duplicate(d) ==
  /\ dups < MaxFaults /\ BagIn(d, air) /\ Sends(d)
  /\ dups' = dups + 1
  /\ UNCHANGED <<up, upc, request, hpc, asks, answers, refused, vain, lost, strange>>

\* Nobody is bound to the port: a connected sender is told, another is not.
Refuse(d) ==
  /\ ~up /\ d.to = UdpServer /\ Takes(d)
  /\ IF d.from \in Connected
     THEN refused' = [refused EXCEPT ![d.from] = TRUE] /\ UNCHANGED vain
     ELSE Missed(d) /\ UNCHANGED refused
  /\ UNCHANGED <<up, upc, request, hpc, asks, answers, lost, dups, strange>>

StrangerSends(h) ==
  /\ strange < MaxFaults
  /\ Sends(Dgram(Stranger, h, <<Stranger, strange + 1>>))
  /\ strange' = strange + 1
  /\ UNCHANGED <<up, upc, request, hpc, asks, answers, refused, vain, lost, dups>>

-----------------------------------------------------------------------------
InAir == BagToSet(air)

UdpServes == ServerSend \/ \E d \in InAir : ServerRecv(d)
Receives(h) == AnswerError(h) \/ \E d \in InAir : Answer(h, d)

UdpNext ==
  /\ Udp
  /\ \/ Bind \/ UdpServes
     \/ \E h \in Hosts : Ask(h) \/ Receives(h) \/ QuitUdp(h) \/ StrangerSends(h)
     \/ \E d \in InAir : Lose(d) \/ Duplicate(d) \/ Refuse(d)

UdpSpec == UdpInit /\ [][UdpNext /\ UNCHANGED program]_<<uvars, program>>

\* The server is started and runs, and clients take what arrived; nobody is
\* obliged to ask, and what is neither lost nor refused arrives.
UdpFair ==
  /\ WF_uvars(Udp /\ Bind) /\ WF_uvars(Udp /\ UdpServes)
  /\ \A h \in Hosts : WF_uvars(Udp /\ Receives(h))

-----------------------------------------------------------------------------
(* Properties. *)

\* Every variable stays in its type.
UdpTypeOK ==
  /\ up \in BOOLEAN /\ IsABag(air) /\ upc \in {"recv", "send"}
  /\ hpc \in [Hosts -> {"type", "wait", "quit"}]
  /\ asks \in [Hosts -> 0..MaxAsks] /\ refused \in [Hosts -> BOOLEAN]
  /\ \A h \in Hosts : Len(answers[h]) + (IF hpc[h] = "wait" THEN 1 ELSE 0) = asks[h]

\* Whatever is lost, doubled or overtaken, an answer is an echo of one of the
\* client's own questions asked so far, never another client's; only a socket
\* that is not connected can be given a stranger's datagram
\* (udp_echo_server.c:47-49, udp_echo_conn_client.c:50).
OwnAnswers ==
  /\ UdpTypeOK
  /\ \A h \in Hosts : \A i \in DOMAIN answers[h] :
       LET a == answers[h][i] IN
       \/ a = NoAnswer /\ h \in Connected
       \/ a[1] = h /\ a[2] \in 1..i
       \/ a[1] = Stranger /\ h \notin Connected

\* Questions carry no number and answers are taken as they come: they match,
\* question for answer, as long as nothing was duplicated and no stranger
\* spoke to an unconnected client, losses and refusals included
\* (udp_echo_client.c:49-51).
InStep == dups = 0 =>
  \A h \in Hosts : h \in Connected \/ strange = 0 =>
    \A i \in DOMAIN answers[h] : answers[h][i] \in {<<h, i>>, NoAnswer}

\* Whose echo a client is given, and to which question.
AnswersSound == OwnAnswers /\ InStep

\* A client in recvfrom() gets out of it unless a datagram sent for it was
\* lost, refused unseen, or kept back by the error of an earlier one: nothing
\* else makes it wait for ever (udp_echo_client.c:51, no timeout).
Resumes == \A h \in Hosts : hpc[h] = "wait" ~> hpc[h] # "wait" \/ vain[h] > 0
=============================================================================

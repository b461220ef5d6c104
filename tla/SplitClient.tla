---------------------------- MODULE SplitClient ----------------------------
(***************************************************************************)
(* The two clients that read and write at the same time, one connection    *)
(* each.  tcp_echo_multi_proc_client.c is two processes, a parent that     *)
(* reads and a child that writes, with a descriptor of the socket each;    *)
(* chat_client.c is two threads, whose streams share the only descriptor.  *)
(* The server is any server that reads, answers what it likes and closes   *)
(* at the end of the input, or before.                                     *)
(***************************************************************************)
EXTENDS Integers, Sequences, Tcp, Programs

CONSTANTS
  MaxTyped,    \* bound: lines the user types
  MaxTold,     \* bound: messages of the server
  MayLeave     \* the server may close at any time

ASSUME SplitAssumption == MaxTyped \in Nat /\ MaxTold \in Nat /\ MayLeave \in BOOLEAN

VARIABLES
  wpc,         \* writer: "type", "close", "done" or "dead"
  rpc,         \* reader: "call", "blocked" in read(), "close", "done" or "dead"
  holds,       \* descriptors of the socket in the client
  typed, heard,   \* lines sent; lines the server has read
  told, took,  \* messages sent by the server; messages the client has read
  shown,       \* messages printed, 0 being a buffer that was never filled
  svr,        \* the server as the client sees it
  user,        \* the client as the server sees it
  sigchld      \* the signal is pending

split == <<wpc, rpc, holds, typed, heard, told, took, shown, svr, user, sigchld>>

SplitPrograms == {"tcp_echo_multi_proc_client", "chat_client"}
Multi == program = "tcp_echo_multi_proc_client"

\* After connect() and fork(), or both pthread_create().
SplitFresh ==
  /\ wpc = "type" /\ rpc = "call" /\ typed = 0 /\ heard = 0 /\ told = 0
  /\ took = 0 /\ shown = <<>> /\ svr = "up" /\ user = "up" /\ sigchld = FALSE
  /\ holds = IF Multi THEN 2 ELSE 1

SplitInit == program \in SplitPrograms /\ SplitFresh

\* What the buffer holds: the last message printed.
Buffer(s) == IF s = <<>> THEN 0 ELSE s[Len(s)]
Unshown   == took - Buffer(shown)

\* One descriptor less.  A read() that waits keeps the socket until it returns.
Drop(waiting, read) ==
  /\ holds' = IF holds = 0 THEN 0 ELSE holds - 1
  /\ user' = IF holds = 1 /\ ~waiting THEN CloseBy(user, read < told) ELSE user

-----------------------------------------------------------------------------
(* The writer. *)

\* At the end of its input fgets() leaves the last line, which is sent again.
\* On a closed descriptor nothing is sent.
Type ==
  /\ wpc = "type" /\ holds > 0 /\ typed < MaxTyped /\ ~RaisesSigpipe(svr)
  /\ typed' = typed + 1
  /\ svr' \in AfterWrite(svr)
  /\ UNCHANGED <<wpc, rpc, holds, heard, told, took, shown, user, sigchld>>

\* SIGPIPE ends the child, or the process with both threads.
TypeDies ==
  /\ wpc = "type" /\ holds > 0 /\ RaisesSigpipe(svr)
  /\ wpc' = "dead"
  /\ IF Multi
     THEN Drop(FALSE, took) /\ sigchld' = (rpc # "done") /\ UNCHANGED rpc
     ELSE rpc' = "dead" /\ Drop(FALSE, took) /\ UNCHANGED sigchld
  /\ UNCHANGED <<typed, heard, told, took, shown, svr>>

\* Deviation: the writer closes its descriptor and sends no EOF.
QuitSilent ==
  /\ wpc = "type"
  /\ wpc' = "close"
  /\ UNCHANGED <<rpc, holds, typed, heard, told, took, shown, svr, user, sigchld>>

\* "q": shutdown(), in vain if the reader has closed the descriptor.
Quit ==
  /\ wpc = "type"
  /\ wpc' = "close"
  /\ user' = IF holds > 0 /\ user = "up" THEN "fin" ELSE user
  /\ UNCHANGED <<rpc, holds, typed, heard, told, took, shown, svr, sigchld>>

\* close() and exit(), or fclose(wfp).
WriterCloses ==
  /\ wpc = "close"
  /\ wpc' = "done"
  /\ Drop(rpc = "blocked", took)
  /\ sigchld' = (Multi /\ rpc # "done")
  /\ UNCHANGED <<rpc, typed, heard, told, took, shown, svr>>

-----------------------------------------------------------------------------
(* The reader. *)

\* printf() of one read(), or of one line fgets() finds.
Show ==
  /\ rpc = "call" /\ Unshown > 0
  /\ shown' = Append(shown, Buffer(shown) + 1)
  /\ UNCHANGED <<wpc, rpc, holds, typed, heard, told, took, svr, user, sigchld>>

\* read(), EBADF once the other thread has closed the descriptor.
CallRead ==
  /\ rpc = "call" /\ Unshown = 0
  /\ rpc' = IF holds = 0 THEN "close" ELSE "blocked"
  /\ UNCHANGED <<wpc, holds, typed, heard, told, took, shown, svr, user, sigchld>>

\* A stream takes all the lines that are there.
ReadTold ==
  /\ rpc = "blocked" /\ took < told
  /\ took' \in IF Multi THEN {took + 1} ELSE (took + 1)..told
  /\ user' = IF holds = 0 THEN CloseBy(user, took' < told) ELSE user
  /\ rpc' = "call"
  /\ UNCHANGED <<wpc, holds, typed, heard, told, shown, svr, sigchld>>

\* Deviation: read_routine() returns when read_len is not positive.
LastAndEnd ==
  /\ rpc' = "close" /\ UNCHANGED shown

\* read_len is -1 and not 0: the loop goes on, what buf holds is printed once
\* more.
PrintAgain ==
  /\ rpc' = "call" /\ shown' = Append(shown, Buffer(shown))

ReadNothing ==
  /\ rpc = "blocked" /\ took = told /\ AtEof(svr)
  /\ rpc' = "close"
  /\ UNCHANGED <<wpc, holds, typed, heard, told, took, shown, svr, user, sigchld>>

\* The reset, which is reported once; fgets() returns NULL.
ReadReset ==
  /\ rpc = "blocked" /\ took = told /\ svr = "rst"
  /\ svr' = "broken"
  /\ IF Multi THEN PrintAgain ELSE rpc' = "close" /\ UNCHANGED shown
  /\ UNCHANGED <<wpc, holds, typed, heard, told, took, user, sigchld>>

\* read_childproc() runs; it was installed without SA_RESTART.
Sigchld ==
  /\ sigchld /\ rpc # "done"
  /\ sigchld' = FALSE
  /\ IF rpc = "blocked" /\ took = told /\ svr = "up" THEN PrintAgain ELSE UNCHANGED <<rpc, shown>>
  /\ UNCHANGED <<wpc, holds, typed, heard, told, took, svr, user>>

\* close() and exit(), or fclose(rfp).
ReaderCloses ==
  /\ rpc = "close"
  /\ rpc' = "done"
  /\ Drop(FALSE, took)
  /\ sigchld' = FALSE
  /\ UNCHANGED <<wpc, typed, heard, told, took, shown, svr>>

-----------------------------------------------------------------------------
(* The server. *)

Hears ==
  /\ svr = "up" /\ heard < typed
  /\ heard' = heard + 1
  /\ UNCHANGED <<wpc, rpc, holds, typed, told, took, shown, svr, user, sigchld>>

Tells ==
  /\ svr = "up" /\ Reads(user) /\ told < MaxTold
  /\ told' = told + 1
  /\ UNCHANGED <<wpc, rpc, holds, typed, heard, took, shown, svr, user, sigchld>>

ServesToEnd ==
  /\ svr = "up"
  /\ user = "rst" \/ (AtEof(user) /\ heard = typed)
  /\ svr' = CloseBy(svr, heard < typed)
  /\ UNCHANGED <<wpc, rpc, holds, typed, heard, told, took, shown, user, sigchld>>

Leaves ==
  /\ MayLeave /\ svr = "up"
  /\ svr' = CloseBy(svr, heard < typed)
  /\ UNCHANGED <<wpc, rpc, holds, typed, heard, told, took, shown, user, sigchld>>

-----------------------------------------------------------------------------
Reader == Show \/ CallRead \/ ReadTold \/ ReadNothing \/ ReadReset \/ Sigchld \/ ReaderCloses

SplitNext ==
  /\ program \in SplitPrograms
  /\ \/ Type \/ TypeDies \/ Quit \/ WriterCloses \/ Reader
     \/ Hears \/ Tells \/ ServesToEnd \/ Leaves

SplitSpec == SplitInit /\ [][SplitNext /\ UNCHANGED program]_<<split, program>>

\* Both halves run and the server serves; nobody has to type anything.
SplitFair ==
  /\ WF_split(program \in SplitPrograms /\ WriterCloses)
  /\ WF_split(program \in SplitPrograms /\ Reader)
  /\ WF_split(program \in SplitPrograms /\ (Hears \/ ServesToEnd))

-----------------------------------------------------------------------------
(* Properties. *)

\* Every variable stays in its type.
SplitTypeOK ==
  /\ wpc \in {"type", "close", "done", "dead"}
  /\ rpc \in {"call", "blocked", "close", "done", "dead"}
  /\ holds \in 0..2 /\ typed \in 0..MaxTyped /\ heard \in 0..typed
  /\ told \in 0..MaxTold /\ took \in 0..told /\ shown \in Seq(0..took)
  /\ svr \in PeerStates /\ user \in PeerStates /\ sigchld \in BOOLEAN

\* The places where the message before is printed again.
Repeats(s) == {i \in DOMAIN s : s[i] = Buffer(SubSeq(s, 1, i - 1))}

\* Messages are printed in order with none left out.  The two processes print
\* all of them before the reader ends, and one again for the interruption by
\* SIGCHLD (one, the writer is not stopped) and for a reset; the threads repeat none and miss those that come
\* after the writer's fclose() (tcp_echo_multi_proc_client.c:74-81,
\* chat_client.c:64, 88).
AllPrinted ==
  /\ SplitTypeOK
  /\ \A i \in DOMAIN shown : i \notin Repeats(shown) =>
       shown[i] = Buffer(SubSeq(shown, 1, i - 1)) + 1
  /\ Len(shown) - Buffer(shown) \in 0..(IF Multi THEN 2 ELSE 0)
  /\ rpc = "done" /\ (Multi \/ wpc = "type") => Buffer(shown) = told

\* After "q" both halves come to their end: the EOF reaches the server though
\* the other process keeps its descriptor, and the server's reaches the reader
\* (tcp_echo_multi_proc_client.c:92, chat_client.c:87).
HandsEnd ==
  program \in SplitPrograms =>
    [](wpc # "type" => <>(wpc \in {"done", "dead"} /\ rpc \in {"done", "dead"}))
=============================================================================

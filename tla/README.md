# TLA+ verification of the tcp_ip programs

The repository is a collection of small C programs about sockets, processes,
threads and I/O multiplexing. Those in which two processes, threads or hosts meet
are modelled here and checked with TLC on small instances; what the
runs check is, but for liveness, also proved with TLAPS for instances of any size: every
invariant and every refinement. All names in the modules are those of the code where TLA+
allows it, and comments such as `:149` name lines of the program the module is about.

## 1. The system

The programs do not call each other. They fall into families that share a
protocol (echo, chat) or a mechanism (SIGCHLD, epoll, a mutex), and within a
family a client program talks to a server program through the kernel.

| Component | State | Operations | Interaction | What makes it correct |
|---|---|---|---|---|
| chat server, `chat_server.c` | `clnt_fds`, `fd_cnt`, `mutx`, main's `clntfd`, one detached thread per connection | accept, register, create a thread; read, remove and compact, close; broadcast | threads share the globals; the argument of a thread is the address of main's local | the registry is the set of open connections; one thread each; a message reaches each other client once |
| chat client, `chat_client.c` | a socket, two FILE objects over it, two threads | type a line, `q`, print a line, fclose | its two threads close one descriptor | messages are printed once and in order; both threads end |
| multi-process echo server, `tcp_echo_multi_proc_server.c` | descriptors per process, zombies, a pending SIGCHLD | accept, fork, close; read, write, exit; the handler's `waitpid` | parent and children share open sockets; SIGCHLD interrupts the parent anywhere | the last close ends the connection; no status is read unset; children are collected; echo |
| split-I/O client, `tcp_echo_multi_proc_client.c` | a socket shared by two processes | write, `shutdown`, read until EOF, SIGCHLD | half-closes; its two processes share the connection | everything is printed; the EOF passes though both hold the socket |
| select echo server, `tcp_echo_select_server.c` | `reads`, `cpy_reads`, `fd_max`, the scan | select, accept, read, write, close | one process, blocking calls | what select said is still true when used; every connection is watched; echo |
| level-triggered epoll server, `tcp_echo_epoll_server.c` | interest set, event batch, one buffer | epoll_wait, accept, read, `EPOLL_CTL_MOD`, write, close | the buffer is shared by all connections | a batch stays true; one answer per chunk |
| edge-triggered epoll server, `tcp_echo_epoll_et_server.c` | ready list, event batch, one buffer | the same, reading until EAGAIN, non-blocking writes | same | no edge lost; own chunks, in order |
| level/edge comparison, `epoll_lt_et.c` | the same | `lt_handler`, `et_handler` | main is edited to call one or the other | no edge lost; echo |
| oneshot server, `epoll_oneshot.c` | armed descriptors, `fds` in main's frame, threads | event, create, recv, `reset_oneshot`, close | threads re-arm what main waits for; their argument is main's local | one thread per connection at a time; everything is read, but of a connection left behind |
| storing echo server, `tcp_echo_store_server.c` | a pipe, a file, children | accept, fork; read, write to the pipe, write back; copy the pipe | children share one pipe to one storer | nothing is lost on the way to the file; echo |
| semaphore hand-off, `semaphore.c` | `var`, `sum`, `t1`, `t2` | read and store; add | two threads | each number is added once |
| shared counter, `mutex.c`, `multi_thread2.c`, `multi_thread.c` | `num` (or `sum`), the mutex | add, subtract, join | 100 threads, or 2 | `num` ends at 0 (under the mutex) |
| iterative echo servers, `tcp_echo_server.c`, `tcp_echo_stdsvr.c`, client `tcp_echo_client.c` | the connection being served, the buffer, `feof` | accept, read, write, close | five clients in turn | an answer begins with the client's own line, once each, and holds nothing of a client that waits; each is served in its turn |
| file transfer and half-close, `file_server.c`, `file_client.c`, `sendfile.c`, `sep_serv.c`, `sep_serv2.c`, `sep_client.c`, `hello_server.c`, `hello_client.c` | a file, a connection, one or two descriptors of it | send, `shutdown` or close, hear the farewell | one side ends its direction, the other answers | the file arrives whole; the farewell is heard where the direction was only shut down |
| UDP echo, `udp_echo_server.c`, `udp_echo_client.c`, `udp_echo_conn_client.c` | one request and its address; a socket per client | sendto, recvfrom; write, read | datagrams are lost, doubled, reordered; strangers; ICMP errors | an echo goes to its sender; what a client takes for its answer |
| pipes, `pipe_1.c`, `pipe_2.c`, `socketpair.c` | a pipe, or a pair of sockets | fork, write, read | parent and child, ordered by sleep | each reads the other's message |
| collecting children, `wait.c`, `waitpid.c`, `remove_zombie.c` | `status`, zombies, a pending SIGCHLD | fork, exit, wait, the handler | signals merge and interrupt sleep | each exit is reported once |
| fork and signal demonstrations, `fork.c`, `signal.c`, `sigaction.c` | | fork, alarm | signals | not modelled |
| thread demonstrations, `thread1.c`, `thread2.c` | | create, join | | not modelled |
| out-of-band, peeking, splice: `oob_*.c`, `peek_recv.c`, `splice.c` | one connection | SIGURG, MSG_PEEK | signals | not modelled |
| `select.c` | standard input | select | | not modelled |
| single-call demonstrations, `error_handling.c` | | | | nothing to check |

What is hard in these programs:

- **Concurrency.** The chat and oneshot servers pass the address of a local to
  a thread; the chat server reads `fd_cnt` and its loop index outside the mutex
  while others shift the array; the counters race.
- **Descriptor reuse.** Every server closes descriptors whose numbers come back
  with the next accept, while sets, batches and locals still hold them.
- **Peers that leave.** A client may half-close, exit with unread bytes (reset)
  or stop reading, at any moment, so `read` returns -1, `write` blocks or
  raises SIGPIPE.
- **Lost wake-ups.** Edge-triggered and one-shot events, merged SIGCHLDs,
  semaphores skipped when the input ends.
- **Calls that fail unseen.** Many results are not looked at: a thread, a child or a
  pipe that never was, a write that took nothing, a read whose length is not used.
- **Ordering.** Who closes a socket last after `fork`; the pipe before the
  client in the storing server; one buffer for several answers in flight.
- **Ends of input.** `feof` is set only by a read that finds the end; `fclose` of
  one stream takes the descriptor from the other; a duplicated descriptor keeps a
  direction open unless `shutdown` ends it.
- **Datagrams.** Lost, doubled, overtaken, from anybody; a connected socket keeps
  the ICMP error of an earlier one.
- **Sleep as synchronization.** `pipe_2.c`, `wait.c` and `remove_zombie.c` order
  their processes by `sleep`, which promises nothing.

There is no persistence to recover and, but for UDP, no message loss: TCP
delivers in order until a connection breaks.

## 2. The modules

```
 Tcp                      what read, write and close show of a TCP peer
  |-- ChatServer          chat_server.c with the clients of chat_client.c
  |                         Chat == INSTANCE Room (abstract)
  |-- EchoNet             echo clients, kernel buffers        EchoService (abstract)
  |     |                   Echo == INSTANCE EchoService
  |     |-- ProcEcho      tcp_echo_multi_proc_server.c
  |     |-- SelectEcho    tcp_echo_select_server.c
  |     |-- StoreEcho     tcp_echo_store_server.c
  |     |-- EpollEcho     tcp_echo_epoll_server.c
  |     |-- IterEcho *    tcp_echo_server.c, tcp_echo_stdsvr.c    PaddedService (abstract)
  |     `-- EdgeNet       ready list of edge-triggered descriptors
  |           |-- EpollLtEt   epoll_lt_et.c
  |           |-- EtEcho      tcp_echo_epoll_et_server.c
  |           `-- OneShot     epoll_oneshot.c
  |-- Transfer *          file_server.c, sep_serv.c, sep_serv2.c, sendfile.c, hello_server.c
  `-- SplitClient *       tcp_echo_multi_proc_client.c, chat_client.c
 UdpEcho *                udp_echo_server.c and its two clients
 Reap *                   wait.c, waitpid.c, remove_zombie.c
 Pipes *                  pipe_1.c, pipe_2.c, socketpair.c
 SharedCounter *          mutex.c, multi_thread2.c, multi_thread.c
 SemHandoff *             semaphore.c                         OneSlot (abstract)
 Programs                 the variable program, extended by those marked *

 Proofs                   about
 ChatServerProofs         ChatServer
 EchoNetProofs            EchoNet, EchoService; extended by the next five
 ProcEchoProofs           ProcEcho
 SelectEchoProofs         SelectEcho
 StoreEchoProofs          StoreEcho
 EdgeProofs               MCEdge (EpollLtEt, EtEcho), OneShot
 ServerLoopProofs         EpollEcho, MCIterative (IterEcho, UdpEcho)
 SmallProgramsProofs      MCPairs (Transfer, SplitClient, Reap, Pipes, SharedCounter, SemHandoff)
```

`Programs` declares one variable, `program`, the file a behaviour is about; it never
changes. Programs that share a mechanism are variants of one module and differ
where `program` is looked at. Modules whose guards look at it can be checked
side by side: `MCEdge` runs EpollLtEt and EtEcho, `MCIterative` IterEcho and UdpEcho,
`MCPairs` Transfer, SplitClient, Reap, Pipes, SharedCounter and SemHandoff, the program being
chosen in the first state and the variables of the others staying as they are. The
other `MC` modules give one module its finite constants. In the modules a definition
headed `Deviation:` is a plausible mistake in the code, written next to the
definition it would replace; the specifications do not use it. Each property is
known to fail under one of them.

**Tcp.** A connection as a server sees it is in one of six states; `CloseBy`
and `AfterWrite` say what the exit of the peer and a write to it do, `AtEof` and
`RaisesSigpipe` what `read` and `write` then return. This is the kernel: it is
modelled from what the programs can observe. A reset may follow a write to a
closed peer at once or later, hence the two outcomes of `AfterWrite`.

**EchoNet.** The clients and the socket buffers of all echo servers. A *client*
is one connection; it sends at most `MaxMsgs` chunks, may shut its writing side
down, may exit at any time (`MayKill`), and reads what is buffered. A *chunk* is
what one `read` of the server returns, `<<c, k>>` the k-th of client c; that a
server's reads may cut a message anywhere is therefore in the model, its bytes
are not. `SndBuf` chunks fit in a socket before `write` blocks. `peer`, `nsent`,
`got` belong to the client; `nread`, `echoed`, `server` are what the server's
calls did.

**EchoService** is the abstract specification: chunks come back in order, each
once, and while a client can read, its connection is closed only when everything
was sent back after its EOF, or before the first chunk (a refused connection).
`Echo!SSpec` under the substitution in `EchoNet` is the property `EchoSpec`.
**PaddedService** is the same with answers that are longer than the questions: what
follows a chunk is what the buffer held (`behind`), which may be of the client itself,
of one whose connection is closed, or of nobody (`Blank`).

**ChatServer.** Main is `wait` (the guard stands for `epoll_wait` on the one
listening socket) -> `register` (`:94-97`) -> `create` (`:99-105`). A thread is
`start` (has not read its argument), `read`, `blocked` in `read`, `eof` and
`close` (two steps: the removal under the mutex is `Remove`, `close` comes after
it), or in the broadcast loop: `test` evaluates `i < fd_cnt` outside the mutex,
`lock` has passed the test, `write` is inside. `LockSelf` is the iteration that
skips the sender. `lost` is a thread whose `pthread_create` failed. `clntfd`
overwritten while a thread is in `start` is what sets the history `raced`; the
other histories (`copies`, `owed`, `shifts`) record for each thread whom its
current message was written to, who was to get it, and the removals since.
`SpacedSpec` is the specification restricted to executions without the race.

**Room** is the abstract specification of the chat: clients arrive, enter, leave and are
gone, once and in this order; a member has one voice at most, and what a voice says is
given to the others. It keeps the holes the code has and no more: one of those a message is
due to may be missed for each that left meanwhile, who stands at the door or is leaving may
hear it as well, and after a reset the last message is given again. There is no array, no
index, no mutex and no descriptor in it. In `ChatServer` the members are the registered
connections, the door is between `accept` and the registration, leaving is between `Remove`
and `close`, and the voices are the threads; `Chat!RoomSpec` under this mapping is the
property `ChatsInRoom`. The removal, the loop test outside the mutex and the write inside
it are then a `Leave`, a `Done` (or nothing) and a `Give`.

**ProcEcho.** `held` counts descriptors per process: the connection is closed
by the last of them (`Drop`). SIGCHLD is a flag, `handling` the parent between
the entry of `read_childproc` and its `waitpid`; an `accept` interrupted by it
returns -1 and is repeated, which changes nothing.

**SelectEcho, EpollEcho.** The kernel's descriptor table is part of the state,
with the lowest free number handed out, so that numbers come back while a set or
a batch is being worked through. A timeout of `select` changes nothing. The
single buffer of the epoll server is a variable: a read overwrites what another
connection's answer was to be.

**EdgeNet, EpollLtEt, EtEcho, OneShot.** An arriving segment puts a watched
descriptor on the ready list; `epoll_wait` takes what is indeed ready off it, and
puts level-triggered ones back. A level-triggered descriptor that stays on the
list without being ready is dropped at the next `epoll_wait`. In `EpollLtEt` the
variable `level` is fixed at the start: which of the two handlers main was built
with. In `OneShot` what a thread reads from main's struct `fds` is what main
stored there last, or anything once the block was left and its place reused. Two
paths end with a connection that is open, not armed and without a thread: `RecvErr`,
after a reset was read (`epoll_oneshot.c:78-82`), and `CreateFails`, a
`pthread_create` that nobody looks at (`:170`). The history `left` has the
connections they left behind.

**StoreEcho.** The children append to the pipe, at most `PipeCap` chunks, then
write back; the storer takes any part of what the pipe holds and appends it to
the file. Four things may go wrong with nobody looking: there is no pipe (`made`,
`:54`), no storer (`spc` is `none`, `:55`), no file (`open` has no `O_CREAT`), or a `write` to
it fails or is short (`:70`); `kept` says that the last two did not happen. With no
pipe `fds` is not initialized; it is taken to name no open descriptor.

**IterEcho.** The loop of `MaxAccepts` accepts over `EchoNet`, `cur` the connection
served. The buffer is `line`, the last chunk read, and what shows behind it, `rest`:
pieces of older chunks, the newer in front, since a chunk covers the pieces it is as
long as (`Uncovered`). It is kept from one connection to the next. The first server
sends all of it with every answer (`:61`): `line` goes to `echoed`, `rest` to the history
`behind`. The second reads with `fgets()`, which puts a 0 behind the line, and `fputs()`
stops there. With `fgets()` the end of the input leaves it as it was, and it is written before
`feof()` is looked at. `fgets()` may meet the end already with the last line, which
has then no newline; `eof` is set by either. Before anything was read the buffer
holds `NoChunk`, which `EchoNet` therefore admits among what may be written (`Lines`). `tcp_echo_client.c` is a client of
`EchoNet` with one question open.

**UdpEcho.** `air` is the bag of datagrams on their way; any of them may be received
next, lost or doubled. `request` is what the server's `recvfrom` filled in. `Refuse`
is the ICMP error of a port not yet bound, which only a connected socket is told
of (`refused`), at its next `write` or `read`. The history `vain` counts the datagrams a
client can no longer hope for.

**Transfer.** Both ends see each other as a peer of `Tcp`: `client` is what the server
sees, `serv` what the client sees. `sfds` counts the server's descriptors of the
connection, 2 after `dup` in `sep_serv2.c`. `HalfClose` and `FullClose` are the ways to
end the direction, `thanks` is where the farewell is. Pieces are what one `write`
sends; a file that is not there ends the server (`OpenFails`).

**SplitClient.** The reader calls `read` (`CallRead`), and may be in it (`blocked`) when the
other thread closes the only descriptor: that call goes on, the next one fails.
`took` is ahead of what was printed when the stream has read several lines.
`sigchld` is the signal that the end of the writing process raises.

**Reap, Pipes.** The parent's program counter, its children, and what `status` or
the pipe holds. Naps and sleeps take any time; `Reap`'s `merged` counts signals that
found one pending.

**SemHandoff, OneSlot, SharedCounter.** One action per semaphore operation and
per access of a shared variable. Standard input may end at any round. Without
the mutex the compiler may keep `num` in a register for several rounds, so
`LoadNum` takes 1 to all remaining rounds; under the mutex exactly one.

What all of them abstract: the setup before the first step (`socket`, `bind`, `listen`
and `epoll_create` end the program when they fail), printing, addresses, bytes. `accept`
may fail at any time where the code handles, or mishandles, its failure; so may `fork`
in the servers and in the programs that collect children, and `pthread_create` in the
servers. The calls whose failure goes unseen and is not in the models are listed in
section 5.

## 3. The runs

`CHECK_DEADLOCK FALSE` throughout: clients and what they send are bounded, and
threads, clients and the counters' main end, so each of these systems does stop.

| Run | Module | Bounds | What it shows |
|---|---|---|---|
| `ChatSafe` | MCChatServer, `SpacedSpec` | 3 clients, 2 send, 3 descriptors, resets, creation may fail | `RegistrySound`: the registry is the open connections (`RegistryMatchesOpen`), each with its thread (`OwnThread`). `BroadcastSound`: the unlocked loop test sends nothing back and repeats nothing, unless the sender was reset (`OthersOnce`), and skips at most one client for each removal (`NoMiss`), and reads no slot that was not stored (`SlotsWritten`) |
| `ChatRoom` | MCChatServer, `SpacedSpec` | 3 clients, one of which sends 2 messages, 3 descriptors, resets; symmetric in the two that are silent | `ChatsInRoom`: step by step the server is the abstract room |
| `ChatLive` | MCChatServer, `FairSpec` | 2 clients, 2 messages each, half-close, creation may fail, the race allowed | `CountExact` in every case; `ClientsServed` (`LeaverClosed`, `SentIsRead`) as long as the process lives and nobody lost a thread |
| `ChatRaceOwn` | MCChatServer, `Spec` | 2 clients | `OneThreadEach` is violated: see below |
| `Proc` | MCProcEcho, `FairSpec` | 2 clients, one of which need not read, 2 chunks each, failing forks, resets | `OwnSocketsOnly`, `StatusSet`, `AllCollected` (no two children dead at once), `EchoSpec`; `Answered` for the client that reads |
| `Select` | MCSelectEcho, `FairSpec` | 2 clients, 2 chunks, descriptors 4..5, resets | `PassSound` (`StillReady`, `WatchesOpen`), `EchoSpec`, `Answered` |
| `Epoll` | MCEpollEcho, `FairSpec` | the same, descriptors 5..6 | `StillTrue`, `OneAnswerPerRead`, `Answered` |
| `Edge` | MCEdge, `EdgeRunSpec` | the same, both programs, both handlers of `epoll_lt_et.c` | `EdgesKept` in both; `EchoOfLtEt` of one, `InOrder` of the other; `EdgeAnswered` |
| `OneShot` | MCOneShot, `FairShotSpec` | 2 clients, 1 chunk, 2 threads, resets, the race allowed, creation may fail | `HandsSound` (`OneOwner` until the race, for what was left behind too, which is in nobody's hands; `ArmedKept` always), `AllRead` of what was not left behind |
| `Store` | MCStoreEcho, `FairSpec` | 2 clients, 2 chunks, a pipe of 2, resets; a pipe, forks (the storer's too), the file and writes to it that fail | `LoggedFirst`, with a storer or none; `Saved` with pipe, storer and file; `EchoSpec` in every case |
| `Iter` | MCIterative, `IterativeSpec` | both iterative servers: 3 clients, 2 chunks from one of them (`Chatty`) and 1 from the others, 2 accepts, resets. UDP: 2 hosts, one connected, 2 questions each, one loss, one duplication, one stranger's datagram | `OncePlusLast`: answers begin with own lines, each once, one more at the end from the stdio server, stale bytes behind from the other (`Leftover`). `EchoOfTurns`: `tcp_echo_server.c` is a padded echo service. `ServedInTurn`. `AnswersSound`: whose echo (`OwnAnswers`), and to which question (`InStep`). `Resumes`: what alone makes a client wait for ever |
| `Pairs` | MCPairs, `PairsSpec` | files of 0..3 pieces, `sendfile` of 2, a buffer of 1, kills; 3 lines typed, 3 told, a server that may leave; 2 children, 5 naps; mutex 4 threads of 3 rounds, the other counters 2 of 5; 5 rounds of the hand-off, as in the code, with numbers 0, 1, 3 and an input that may end | `TransferSound` (`WholeAndHeard`: the file is whole, the farewell heard; `NeitherStuck`: the ends do not wait for each other, nor for one that has ended), `BothEnd` (transfers); `AllPrinted`, `HandsEnd` (clients); `FamilySound` (`Reaped`, `Exchanged`); `CountSound`, `Prints` (counters); `HandoffSound`: the printed sum is that of the numbers (`SumExact`), and no thread waits for one that cannot post, but where the input ended (`NeitherInVain`), `SlotSpec`, `BothJoined` (hand-off) |

Each module has a type invariant; one of the checked invariants includes it
(`ProcEcho`'s is proved only).

*Why these bounds.* Every hazard of section 1 needs two actors and one reuse: a
removal during a broadcast needs a sender, a leaver and a third client that is
skipped, hence three clients in `ChatSafe` and, for the same reason, as many
descriptors; two connections are enough for mixed answers, merged signals and
events of one batch, and a descriptor number comes back as soon as the first
client has left. `ChatRoom` has one sender of two messages, so that a loop is entered a
second time with the slots as the first left them; two that speak at once are in
`ChatSafe`, and in the proof. (The mapping to the room and the room itself treat clients
alike, so the symmetry is sound for a safety property.) Two chunks per client are the least for which order can go
wrong, and `SndBuf = 1` makes every buffer fill. `MaxConns` (chat), `MaxWorkers`
(oneshot) bound the threads alive at once; where they bind, main waits, which it
would not, so what happens with more threads than that is not covered. The chat
server is modelled for at most `MAX_CLNT` connections. In `Iter` the third client is
the one that waits behind a served one and the one the accept loop never reaches; the
client that sends twice has its own first chunk behind its second, or another's;
two hosts are enough for an echo to go to the wrong one, two questions for an
answer to come out of step, and each fault is needed once. In `Pairs` a buffer of
one piece and three to send make the sender wait, end with data unread and be cut
short by `sendfile`; three lines are the least for a stream to read ahead of a line
not printed yet while another is on its way. Four threads under the mutex are two
of each kind.

*Fairness.* A process or thread that can take a step eventually takes one
(`WF` of all its steps): these are kernel threads under a preemptive scheduler.
Mutex acquisition is under the same weak fairness only, because a pthread mutex
promises no more; what is sent is bounded, so the contention ends, and this is
enough. Clients are required to read only where a server writes to blocking
sockets and says nothing of slow readers (chat, select, both epoll servers that
block); no client is ever required to connect, send, shut down or leave.
`OneShot`, `Store` and the second server of `Edge` ask nothing of the clients; `Proc`
asks it only of the client it promises something to. In `semaphore.c` the terminal
eventually delivers a number or its end. An iterative server's next client waits
for the user of the one served, so `IterFair` has users type `q` in the end: without
that the wait is for ever, and the code has nothing against it. UDP: the server is
started in the end, and what is neither lost nor refused arrives. Both processes of
a transfer run; the user of a split client need not type or quit, and `HandsEnd`
speaks of the time after `q`. `Reap` and `Pipes` are checked for safety only.

### What was found not to hold

`ChatRaceOwn` keeps the shortest counterexample of the most serious one: main
passes `&clntfd` (`chat_server.c:100`), accepts again and overwrites it before the
first thread has read it, so two threads serve one connection and another has
none, against the comment of line 99 (one thread for each connection).

The other disagreements between the code and what it seems to intend are in the
models as they are in the code, and the properties are stated around them:

- `chat_server.c:100` compares `pthread_create` with -1, which it never returns: a
  connection without thread stays registered (`OwnThread` counts `lost` threads;
  `LeaverClosed` and `SentIsRead` assume none).
- `:121` after a read error the old message is broadcast again (`OthersOnce`).
- `:149` a client that moves down into a slot already passed is skipped (`NoMiss`).
- `:155` a write to a client that does not read blocks under the mutex (`SentIsRead`
  assumes clients that read); a write to a reset one ends the server (`Served`).
- `:95` nothing stops the registry at `MAX_CLNT` (not modelled).
- `tcp_echo_multi_proc_server.c:109` one `waitpid` per signal: two children that
  end together leave a zombie (`AllCollected` excludes them).
- `tcp_echo_select_server.c:106` and `tcp_echo_epoll_et_server.c:125`: SIGPIPE ends
  the server for all clients (`alive`).
- `tcp_echo_epoll_server.c:121` answers can be another client's bytes: `EchoSpec`
  does not hold of this server, `OneAnswerPerRead` does.
- `tcp_echo_epoll_et_server.c:125` a full buffer loses a chunk: again not an
  `EchoSpec`, but `OwnInOrder`.
- `epoll_lt_et.c:103` one accept per edge: of two connections that arrive together
  the second waits for a third (liveness is stated for accepted clients).
- `epoll_lt_et.c:161` a slow reader ends the program (`alive`).
- `epoll_oneshot.c:78` a read error ends the thread, `:170` a failing `pthread_create` is not
  noticed: the connection stays open for ever, not armed and without a thread (`left`;
  `OneOwner` says so, `AllRead` excepts it).
- `epoll_oneshot.c:168` the address of a block's local goes to the thread
  (`OneOwner`, `AllRead` until `raced`).
- `tcp_echo_store_server.c:60` `open` without `O_CREAT`: with no file nothing is saved
  (`kept`). `:55` without a storer the pipe fills and every child waits for ever, without a
  pipe nothing is saved (`Saved` assumes both; `LoggedFirst` and `EchoSpec` hold). `:70` a
  short write leaves a gap. `:17` the SIGCHLD handler is never registered.
- `semaphore.c:49` when a `read` finds the end of the input a round is skipped with its semaphores, and
  the second thread waits for ever (`BothJoined` until `ended`).
- `tcp_echo_multi_proc_client.c:75` a -1 of `read` (SIGCHLD caught without `SA_RESTART`, or a
  reset) prints the message before again (`AllPrinted` counts at most two).
- `chat_client.c:88` `fclose(wfp)` closes the descriptor of the reading stream as well:
  messages still to come are not printed (`AllPrinted` excepts them).
- At the end of standard input `tcp_echo_multi_proc_client.c:89` and `chat_client.c:78` send the
  last line again and again; in the models this is a user who types more lines.
- `tcp_echo_server.c:61` sends the whole buffer, stale bytes of this client and of earlier
  ones included: it is no `EchoSpec`, but a padded one (`EchoOfTurns`), and the bytes are
  never a waiting client's (`OncePlusLast`).
- `tcp_echo_stdsvr.c:62` `feof` before `fgets`: one line too many, the last one or another
  connection's (`OncePlusLast`).
- `sep_serv.c:66` `fclose` ends both directions, the farewell is never heard; `sendfile.c:68`
  sends 1024 bytes of a larger file; a receiver takes a killed server for the end
  of the file (`WholeAndHeard`, in `TransferSound`).
- `udp_echo_client.c:51` waits for ever after a loss (`Resumes`), takes a doubled echo or a
  stranger's datagram for its answer (`AnswersSound`); `udp_echo_conn_client.c:50` is
  answered by the error of an earlier datagram.
- `udp_echo_conn_client.c:70` says `sizfof` and does not compile; it is modelled with `sizeof`.
- `remove_zombie.c:11` one `waitpid` per signal, as in the forking server; `wait.c:31` and
  `waitpid.c:21` after a failed `fork` report the child before again, or an unset
  `status` (`Reaped`).
- `pipe_2.c:22` with an unlucky schedule the child reads back its own message, and the
  parent waits for one that cannot come, holding the writing end itself
  (`Exchanged`). The same for a child that was killed or never born (`pipe_1.c:28`).

## 4. The proofs

Every theorem is about a specification without its bounds: `Spec` of the module
(`SpacedSpec` where the race on `clntfd` is excluded, `ShotSpec` of `OneShot`) or, for modules
checked side by side, the joint specification of the run (`EdgeRunSpec`, `IterativeSpec`,
`PairsSpec`) or that of one program's part in it (`XferSpec`, `SplitSpec`, `CounterSpec`,
`HandoffSpec`; while another program runs that part stays as it began). Clients, chunks, descriptors, threads, rounds, faults and
buffer sizes are any; the only hypotheses are the named assumptions of the modules,
which say that constants have their types and that special values are not clients.
Each inductive invariant was checked by TLC before it was proved.

**ChatServerProofs.** Three layers of invariants, and the refinement of the room on top.

- `CtlInv`: types of the control state; threads exist for accepted connections only;
  `CountExact`; every slot below `fd_cnt` was written; `SlotsWritten`; `MutexHeld`.
  They need each other: that `Remove` shifts only written slots needs the count to be
  within the cells, which needs `CountExact` and a bound on the number of counted
  threads (`CountBound`, a cardinality argument), and `CountExact` needs to know which
  thread main is about to create. The client's and kernel's types need `CtlInv` for the
  descriptors that index them (`TypeNext`). Results: `TypeSafe`, `CounterExact` (fd_cnt
  never underflows, the race and failing creations included), `BroadcastSlots`,
  `BroadcastExclusion`.
- `RegInv`: as long as nothing was `raced`, no descriptor is in two slots and those
  registered are open (`Distinct`); every thread at work has a registered descriptor, one
  that is closing an open one that is not registered, and no two the same (`Owners`,
  where a thread that has not started works on main's local); what main holds between
  `accept` and `pthread_create` is nobody's (`Pending`); nothing else is open (`NoLeak`). That
  `Shifted` takes out one slot rests on `Distinct`, that an `accept` under a thread not
  yet started is a race rests on the local naming an open descriptor, hence on `Owners`.
  Two counting arguments lead to `RegistryIsSound` (`RegistrySound`).
- `CastInv`, what the loop that reads `fd_cnt` and its index outside the mutex keeps. Ahead
  of a thread's index nothing has been written yet (`Ahead`), and that is kept by `Remove`
  because slots move towards the index only, and by `Register` because it appends. Of those the
  message is owed to, the ones neither written nor ahead are at most as many as there were
  removals (`Skips`): a removal moves one connection at most from the slot at the index
  to the one before it. `Apart` (a connection waits in the backlog once, and an open one has one
  descriptor) is what tells an entry of the array from a connection. Result:
  `BroadcastIsSound` (`BroadcastSound`).
- The refinement `ServerIsARoom`: `SpacedSpec => ChatsInRoom`, from `Known`, the three
  invariants together. It is under `SpacedSpec` because a raced argument gives a connection two
  voices, or none. First come the facts the mapping needs of a state: a connection is in one
  place of the room only (`Whereabouts`), and who has a thread that has not removed it is a
  member (`StillMembers`). Then, for each part of the room's state, which steps leave it alone
  (`PlacesStay`, `GoneStay`, `VoicesStay`, `PlacesKept`). Then one lemma for each action, which
  names the step of the room it is: clients arrive or are reset (`RoomClient`), main lets them
  in (`RoomMain`) and gives a member its voice (`RoomCall`), a thread speaks (`RoomRead`), gives
  (`RoomWrite`), ends its loop (`RoomDone`, where `Skips` of `CastInv` is the guard of the room's
  `Done`), leaves (`RoomLeave`, where `Shifted` must take one member out and no other) and closes
  (`RoomClose`); all others are stutters (`RoomQuiet`).

**EchoNetProofs** holds what every server on `EchoNet` needs: each client action
and each server call preserves `NetInv` (nothing is read before it is sent,
nothing written back before it is read), and maps to a step of `EchoService` or to a
stutter.

**ProcEchoProofs.** `Inv` adds to it who holds which descriptor (`HeldInv`), that
a connection is open exactly as long (`ServerInv`), how much was sent back at
each place of the child's loop (`Progress`), and that a pending SIGCHLD and a
handler in progress stand for two different zombies (`SignalInv`; with "some
zombie" alone the invariant is not inductive, since the handler in progress
could collect the one the pending signal is for). Results: `TypeSafe`,
`StatusIsSet`, `OwnSockets` and the refinement `ForkingEcho`: `Spec => EchoSpec`. `ExitIsTold` is
what `AllCollected` rests on besides fairness: with no two zombies at once, a zombie has a
pending signal or a running handler to its name, whatever fork, close and accept the
signal interrupts. Its hypothesis is that of `AllCollected`, and without it the claim is
false, since two exits make one signal.

**SelectEchoProofs.** `Inv` adds to `NetInv` the types of the loop (`LoopType`); that a
descriptor in the table belongs to one open connection and every open one is
watched and at most `fd_max` (`Table`); that what is still ahead of the scan in
`cpy_reads` is open and has something to read, although earlier iterations have
closed and accepted (`Fresh`); and how much is owed to the connection in hand (`Progress`).
Results: `PassIsSound` (`PassSound`) and the refinement `SelectingEcho`:
`Spec => EchoSpec`.

**StoreEchoProofs.** `Inv` adds to `NetInv` the types (`ProcType`, `StoreType`), which
connections are open (`OpenInv`), what a child still owes its client at each place of
its loop (`Progress`), and `LogInv`: of each client the log, that is the file, what the
storer has in hand and the pipe one after the other, has the chunks read so far once
each and in order, but for the one on its way into the pipe; this as long as there is a
pipe and the file takes all. Only `ChildPipe` makes the log
longer, at its end; the storer moves it along. Results: `StoredFirst` (`LoggedFirst`) and
the refinement `StoringEcho`: `Spec => EchoSpec`.

**EdgeProofs.** `EdgeInv` is common to the three programs: types, one connection for each
open descriptor, nothing listed that is not open (`TabInv`). The lemmas about `EdgeNet`
say of each kernel operation which descriptors may become ready and that those are put on
the list (`ClientReady`, `ArrivesKeeps`, `ReportKeeps`, `AddKeeps`, `CloseFdKeeps`,
`ConnKeeps`).

- `LtInv`, for `epoll_lt_et.c`: what is ready is listed, in the batch or at work, every event
  of the batch is true (`Kept`), a level-triggered descriptor stays listed while it is handled
  (`AtWork`: this is why `lt_handler` may read once), and a client was sent what was read but
  for the chunk in hand (`Counts`), which gives the refinement `LtEtEchoes`.
- `EtInv`, for `tcp_echo_epoll_et_server.c`: the same of the list (`EtListed`, here with the
  listening socket, which is put back), and that what was sent back is older than what the
  buffer holds (`Older`, `Fresh`): so lost chunks leave gaps but never disorder. Results:
  `NoEdgeIsLost` (`EdgesKept`, both programs), `WhatIsLeftIsInOrder` (`InOrder`).
- `ShotInv`, for `epoll_oneshot.c`: what is armed is open, what is listed is armed, and an
  armed descriptor that is ready is listed, whatever was raced; and until then (`Hands`) what
  is in the batch or with a thread is open, no two threads are at one descriptor, and one is
  armed or reported exactly if no thread is at it. A thread that is created counts as being at
  the descriptor main's struct names, which is why overwriting the struct is the only way to
  break it. A connection left behind is neither armed nor reported nor with a thread, and stays
  so. Result: `OneThreadPerConnection` (`HandsSound`).

**ServerLoopProofs.**

- `EpInv`, for `tcp_echo_epoll_server.c`: an event of the batch still fires and was reported
  for what the descriptor waits for (`StillFires`), since only the handling of an event changes
  its descriptor and peers only add reasons to fire (`ClientFires`); who waits for EPOLLOUT has
  something to be sent (`Filled`). Results: `EventsStayTrue` (`StillTrue`), `EachReadIsAnswered`
  (`OneAnswerPerRead`).
- `IterInv`, for the iterative servers: what is owed to the connection being served and whose
  line the buffer holds at each place of the loop (`Turn`); once a client has its one line too
  many it has sent its EOF, so nothing overtakes that line (`OneMore`). `Buffer` says of the
  first server's buffer that every piece in it is of a closed connection or of the one served
  and older than its last chunk (`Held`); a close turns the second kind into the first, and
  that an accepted client was `new` keeps a waiting one out. `Leftovers` is the same of the
  answers already sent. Results:
  `OwnLinesPlusLast` (`OncePlusLast`) and, with what the first program knows when it closes
  (`Closing`), the refinement `TurnsEcho` (`EchoOfTurns`): each step is one of the echo
  service (`FirstStep`) and pads as `PaddedService` does (`Pads`).
- `UdpInv`, over the bag of datagrams: all that is on its way are questions asked, their echoes
  and the stranger's datagrams (`OnTheWay`), and what was given is of that kind (`GivenOwn`).
  `OneInFlight` counts, of each question, the copies under way as question, as echo, in the
  server's hands or as a reported refusal (`Load`): undisturbed there is one at most, and only
  of the question the client waits for. Results: `AnswersAreOwn`,
  `AnswersInStep`, together `AnswersAreSound` (`AnswersSound`).

**SmallProgramsProofs.**

- `XferInv`: how many pieces are written and read at each place of both programs (`Pieces`),
  where the farewell can be, given who has ended which direction (`Farewell`), and how each
  end sees the other leave (`Partings`): never as a reset while there is a file to read. That
  the receiver's EOF means everything was sent rests on the order of `SendEnd` and the shutdown;
  that the two never wait for each other, on the shutdown coming before the server listens,
  and on a full buffer being something to read. Result: `Transferred` (`TransferSound`), the second
  half of which is the safety part of `BothEnd`.
- `SemInv`: one token is in `t2`, with the first thread, in `t1` or with the second (`Token`),
  and the slot is full between the store and the addition (`Slot`). Results: `TypeSafe`,
  `NoRace`, and the refinement `SlotRefined`: `HandoffSpec => SlotSpec`. `SumInv` says that `sum` is the
  fold of the numbers taken. The fold of the community modules is unfolded down to the
  recursive function it is made of; that it grows by the last element when one is appended
  is proved for all sequences by taking the least length at which it would fail
  (`NaturalsInduction` has the principle as a theorem about an operator, `WellFoundedInduction`
  about a set, and only the second can be instantiated here). `NeitherInVain` follows from the
  token and from who has skipped a round (`Rounded`). Result: `HandoffIsSound` (`HandoffSound`),
  the second half of which is the safety part of `BothJoined`.
- `CountInv`: who holds the mutex (`Places`), and between what the count can lie: not below
  minus what the subtracting side stored nor above what the adding side did, registers held by
  threads included (`Bounded`); under the mutex it is the difference. That this is zero in the
  end compares the sizes of two sets of turns by a bijection. Result: `CounterSound`
  (`CountSound`).
- `ReapInv`: zombies not collected are the signals pending and merged (`Family`), and nothing
  is reported that was not collected, twice only after a failed fork (`Told`). `PipesInv`: the
  one message in the pipe tells where both processes are. Result: `FamilySafe`
  (`FamilySound`).
- `SplitInv`: what was shown is in order and longer than what was taken by the repetitions
  that a reset and a SIGCHLD can have caused (`Printed`), and who still has the socket
  (`Holding`). Result: `PrintsAll` (`AllPrinted`).

What trying to prove showed about the models, and was changed in them: guards of
`CASE` that overlap (`Fires` of `EpollEcho`, `AfterFork` of `Reap`, `Added` of `SharedCounter`)
leave open which arm is taken, though TLC takes the first; with `MaxNaps = 0` the parent of
`remove_zombie.c` slept once all the same, so the assumption asks for one sleep; the type of
`echoed` did not admit the buffer that the stdio server may write before anything was read
into it (`IterTypeOK` did not include the clients' types, so TLC never asked); the question a
UDP client has under way must be counted from 0, for a client that has asked nothing.

Only model-checked: liveness (`ClientsServed`, `AllCollected`, `Answered`,
`EdgeAnswered`, `AllRead`, `Saved`, `BothJoined`, `ServedInTurn`, `Resumes`, `BothEnd`, `HandsEnd`,
`Prints`), since fairness and ENABLED are out of the prover's reach. Of `AllCollected`, `BothJoined`
and `BothEnd` the safety part is proved, as said above, and `EdgesKept` and `HandsSound` are that of
`EdgeAnswered` and `AllRead`: nothing is waited for that cannot come any more. `OneThreadEach` does not
hold, and no theorem says so; its run does.

## 5. Not modelled

Listed with reasons in `PROJECT.json`:

- `fork.c`, `signal.c`, `sigaction.c`, `thread1.c`, `thread2.c`: processes or threads that
  share nothing, handlers that print; there are no two pieces of state to relate.
- `oob_send.c`, `oob_recv.c`, `peek_recv.c`, `splice.c`: what urgent data, `MSG_PEEK` and
  `splice` give is the kernel's doing; a model would be one of the kernel.
- `select.c` (standard input only; its set is that of `SelectEcho`), the demonstrations
  of a single library call, and `error_handling.c`.

Of what is modelled, array indices past a buffer's end (`message[read_len]`,
`buf[-1]`, `events` beyond `MAX_EVENTS`, `clnt_fds[MAX_CLNT]`) are outside the state, as
bytes and memory layout are. So is the 0 that `tcp_echo_server.c:62` puts at index 0 or 1 of
the buffer after it was sent; the model keeps the piece that is there. That `epoll_lt_et.c:103` accepts
one connection per edge is in the model, and no property claims otherwise.

Calls whose failure the code does not notice and the models leave out: `pipe` in
`pipe_1.c:15` and `pipe_2.c:16`; `epoll_ctl` and `fcntl` in `epoll_oneshot.c:29-53`,
`EPOLL_CTL_DEL`, `EPOLL_CTL_MOD` and `fcntl` in the two epoll echo servers;
`fork` in `tcp_echo_multi_proc_client.c:56`; `pthread_create` in `mutex.c:32-36`,
`multi_thread2.c:24-28`, `multi_thread.c:18-19`, `semaphore.c:30-31` and
`chat_client.c:51-52` (the counters and the hand-off would join a thread that never
was); `sem_init`, `pthread_mutex_init`, `dup` and `fdopen`. What the properties say
is for runs in which these succeed.

Children that are stopped or continued raise SIGCHLD as well, since no handler is
installed with `SA_NOCLDSTOP`. `ProcEcho`, `SplitClient` and `Reap` have no job control: with it a
handler could run with nothing to collect and find `status` unset, and a read be
interrupted once more (one more repetition in `AllPrinted`).

## 6. Plan

Done, in this order: `Tcp`, `ChatServer` and its proofs, `EchoNet` with
`EchoService`, `ProcEcho` and its proofs, `SelectEcho`, `EpollEcho`, `EdgeNet` with
`EpollLtEt`, `EtEcho`, `OneShot`, `StoreEcho`, `SemHandoff` with `OneSlot` and its
proofs, `SharedCounter`; then `IterEcho`, `Transfer`, `UdpEcho`, `SplitClient`, `Reap`,
`Pipes` and the runs that join them, the proofs of `SelectEcho`, `Transfer`,
`StoreEcho` and of the chat server's registry; then the broadcast (`CastInv`) and the
proofs of all the other programs. Last, the abstract room and its refinement, the sum
of the hand-off, and the safety parts of `AllCollected`, `BothJoined` and `BothEnd`; then
`PaddedService`, and the failures of unchecked calls in `OneShot` and `StoreEcho`.

Not done: the safety parts of the remaining liveness properties; a refinement of the echo
service by the stdio server up to its last line, which needs a service that allows one answer
nobody asked for (`OncePlusLast` says as much of the clients, not of the closing).

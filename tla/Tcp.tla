-------------------------------- MODULE Tcp --------------------------------
(***************************************************************************)
(* What the programs of this repository see of a TCP peer through read(),  *)
(* write() and close(): the kernel's side of a connection, which is not    *)
(* under src/.  A connection is in one of these states:                    *)
(*   "idle"    not connected yet                                           *)
(*   "up"      both directions open                                        *)
(*   "fin"     the peer sent EOF (shutdown(SHUT_WR)) and still reads       *)
(*   "gone"    the peer closed the whole connection; only its FIN was seen *)
(*   "rst"     the peer reset it, the error is not reported yet            *)
(*   "broken"  reset and reported                                          *)
(***************************************************************************)

PeerStates == {"idle", "up", "fin", "gone", "rst", "broken"}

\* read() returns 0 once the bytes before it have been read.
AtEof(p) == p \in {"fin", "gone", "broken"}

\* The peer still takes the bytes written to it.
Reads(p) == p \in {"up", "fin"}

\* The peer's process exits: with unread bytes its kernel answers with RST.
\* A reset that finds a FIN already received is reported as EPIPE at once.
CloseBy(p, unread) ==
  CASE p = "up"  -> IF unread THEN "rst" ELSE "gone"
    [] p = "fin" -> IF unread THEN "broken" ELSE "gone"
    [] OTHER     -> p

\* The states a write() may leave behind: a closed peer answers it with RST
\* sooner or later, and the first write after a reset reports the error.
AfterWrite(p) ==
  CASE p = "gone" -> {"gone", "broken"}
    [] p = "rst"  -> {"broken"}
    [] OTHER      -> {p}

\* A write() on a connection whose reset was reported raises SIGPIPE.
RaisesSigpipe(p) == p = "broken"
=============================================================================

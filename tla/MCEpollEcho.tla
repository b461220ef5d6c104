----------------------------- MODULE MCEpollEcho ----------------------------
(* Small instances of EpollEcho. *)
EXTENDS EpollEcho

\* The clients.
CONSTANTS c1, c2

Two == {c1, c2}
=============================================================================

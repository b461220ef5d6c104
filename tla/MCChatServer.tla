---------------------------- MODULE MCChatServer ----------------------------
(* Small instances of ChatServer. *)
EXTENDS ChatServer, TLC

CONSTANTS c1, c2, c3

Two   == {c1, c2}
Three == {c1, c2, c3}

\* Clients that behave alike may be exchanged.
Sym == Permutations(Talkers) \cup Permutations(Clients \ Talkers)
=============================================================================

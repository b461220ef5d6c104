---------------------------- MODULE MCSelectEcho ----------------------------
(* Small instances of SelectEcho. *)
EXTENDS SelectEcho

\* The clients.
CONSTANTS c1, c2

Two == {c1, c2}
=============================================================================

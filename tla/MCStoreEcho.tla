---------------------------- MODULE MCStoreEcho ----------------------------
(* Small instances of StoreEcho. *)
EXTENDS StoreEcho

\* The clients.
CONSTANTS c1, c2

Two == {c1, c2}
=============================================================================

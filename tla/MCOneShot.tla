----------------------------- MODULE MCOneShot -----------------------------
(* Small instances of OneShot. *)
EXTENDS OneShot

\* The clients.
CONSTANTS c1, c2

Two == {c1, c2}
=============================================================================

----------------------------- MODULE MCProcEcho -----------------------------
(* Small instances of ProcEcho. *)
EXTENDS ProcEcho

\* The clients.
CONSTANTS c1, c2

One == {c1}
Two == {c1, c2}
=============================================================================

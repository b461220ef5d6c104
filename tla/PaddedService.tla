--------------------------- MODULE PaddedService ---------------------------
(***************************************************************************)
(* An echo service whose answers are longer than the questions: an answer  *)
(* begins with the client's chunk, as EchoService has it, and what follows *)
(* is what was in the buffer.  That may be what the client had before, or  *)
(* what a client had whose connection is closed; never a byte of a client  *)
(* that is still there or yet to come.                                     *)
(***************************************************************************)
EXTENDS EchoService

CONSTANT Blank    \* bytes of the buffer nothing was put into yet

VARIABLE behind   \* client -> what followed each of its answers, newest first

pvars == <<svars, behind>>

PInit == SInit /\ behind = [c \in Clients |-> <<>>]

Stale(c, x) ==
  \/ x = Blank
  \/ x[1] = c /\ x[2] \in 1..Len(echoed[c])
  \/ x[1] \in Clients \ {c} /\ closed[x[1]]

\* An answer is padded with stale pieces; no other step pads anything.
Padding == \A c \in Clients :
  LET n == Len(echoed'[c]) IN
  IF n = Len(echoed[c]) THEN behind'[c] = behind[c]
  ELSE /\ DOMAIN behind'[c] = 1..n
       /\ behind'[c] = Append(behind[c], behind'[c][n])
       /\ \A i \in DOMAIN behind'[c][n] : Stale(c, behind'[c][n][i])

PNext == SNext /\ Padding

PSpec == PInit /\ [][PNext]_pvars
=============================================================================

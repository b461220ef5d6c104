------------------------------ MODULE OneSlot ------------------------------
(***************************************************************************)
(* A hand-over of values through one slot: each value is taken exactly     *)
(* once, in the order given, before the next one is given.                 *)
(***************************************************************************)
EXTENDS Naturals, Sequences

CONSTANT Values

VARIABLES given, taken

HInit == given = <<>> /\ taken = <<>>

Give(v) ==
  /\ Len(taken) = Len(given)
  /\ given' = Append(given, v) /\ taken' = taken

Take ==
  /\ Len(taken) < Len(given)
  /\ taken' = Append(taken, given[Len(taken) + 1]) /\ given' = given

HSpec == HInit /\ [][Take \/ \E v \in Values : Give(v)]_<<given, taken>>
=============================================================================
